------------------------------- MODULE Options -------------------------------
(***************************************************************************)
(* The command line of p16as: the getopt_long loop of main (src/src/pas.cpp *)
(* 92-178).  A token of the command line is a sequence of pieces of text:   *)
(* <<"-", "f">>, <<"--", "format">>, <<"prog", ".", "s">>,                  *)
(* <<".data", "=", "0x10">>.  Arguments glued to their option, abbreviated  *)
(* long options, empty tokens and "--" are left out.                        *)
(***************************************************************************)
EXTENDS Integers, Sequences, FiniteSets, SequencesExt

CONSTANT Hex                \* hexadecimal pieces -> their values

VARIABLES
  command,                  \* argv
  optind,                   \* the token getopt_long looks at
  operands,                 \* the tokens it moved to the end
  settings,                 \* the variables of main that options set
  error_in_options

optionVars == <<command, optind, operands, settings, error_in_options>>

Formats == {"hexintel", "binary", "logisim8", "logisim16"}

-----------------------------------------------------------------------------
\* The option string and long_options: what getopt_long returns for a name,
\* and whether it takes the next token as argument.
Flag(c)     == [char |-> c, argument |-> FALSE]
Argument(c) == [char |-> c, argument |-> TRUE]

ShortOptions ==
  [h |-> Flag("h"), v |-> Flag("v"), l |-> Flag("l"), i |-> Argument("i"),
   o |-> Argument("o"), s |-> Argument("s"), f |-> Argument("f"),
   a |-> Argument("a")]

LongOptions ==
  [verbose |-> Flag("0"), help |-> Flag("h"), input |-> Argument("i"),
   output |-> Argument("o"), section |-> Argument("s"),
   format |-> Argument("f"), addresses |-> Argument("a"),
   interleave |-> Argument("l")]

IsOption(token) == token[1] \in {"-", "--"}

Option(token) ==
  LET known == IF token[1] = "-" THEN ShortOptions ELSE LongOptions
  IN  IF token[2] \in DOMAIN known THEN known[token[2]] ELSE Flag("?")

\* getopt_long finds option c, with its argument when it takes one.
option_char ==
  LET o == Option(command[optind])
  IN  IF o.argument /\ optind = Len(command) THEN "?" ELSE o.char

At(c) == /\ optind <= Len(command)
         /\ IsOption(command[optind])
         /\ option_char = c

optarg == command[optind + 1]

Advance ==
  /\ optind' = optind + (IF option_char # "?" /\ Option(command[optind]).argument
                         THEN 2 ELSE 1)
  /\ UNCHANGED <<command, operands>>

Accept(s) == Advance /\ settings' = s /\ UNCHANGED error_in_options

Refuse == Advance /\ error_in_options' = TRUE

-----------------------------------------------------------------------------
OptionsInit(argv) ==
  /\ command = argv
  /\ optind = 1 /\ operands = <<>> /\ error_in_options = FALSE
  /\ settings = [input_filename |-> <<>>, output_filename |-> <<>>,
                 section_addresses |-> <<>>, output_format |-> "hexintel",
                 word_size |-> 1, addresses |-> <<>>]

Operand == /\ optind <= Len(command) /\ ~IsOption(command[optind])
           /\ operands' = Append(operands, command[optind])
           /\ optind' = optind + 1
           /\ UNCHANGED <<command, settings, error_in_options>>

\* --verbose sets a flag and -v prints the version: neither changes settings.
Verbose == (At("0") \/ At("v")) /\ Accept(settings)

Input  == At("i") /\ Accept([settings EXCEPT !.input_filename = optarg])
Output == At("o") /\ Accept([settings EXCEPT !.output_filename = optarg])

Interleaving == At("l") /\ Accept([settings EXCEPT !.word_size = 2])

\* The format is set even when it is refused.
Format ==
  /\ At("f")
  /\ settings' = [settings EXCEPT !.output_format = optarg[1]]
  /\ IF optarg \in {<<f>> : f \in Formats}
     THEN Advance /\ UNCHANGED error_in_options
     ELSE Refuse

\* The regular expressions of -s and -a: name=address, from-to.
Matches(arg, separator) ==
  Len(arg) = 3 /\ arg[2] = separator /\ arg[3] \in DOMAIN Hex

\* Mutant: the last setting of a name wins.
WithLast(map, name, value) ==
  [n \in DOMAIN map \cup {name} |-> IF n = name THEN value ELSE map[n]]

\* Properties::set_property: insert does not replace.
With(map, name, value) ==
  [n \in DOMAIN map \cup {name} |-> IF n \in DOMAIN map THEN map[n] ELSE value]

Section ==
  /\ At("s")
  /\ IF Matches(optarg, "=")
     THEN Accept([settings EXCEPT
                    !.section_addresses = With(@, optarg[1], Hex[optarg[3]])])
     ELSE Refuse /\ UNCHANGED settings

Addresses ==
  /\ At("a")
  /\ IF Matches(optarg, "-") /\ optarg[1] \in DOMAIN Hex
     THEN Accept([settings EXCEPT !.addresses = <<Hex[optarg[1]], Hex[optarg[3]]>>])
     ELSE Refuse /\ UNCHANGED settings

Unknown == At("?") /\ Refuse /\ UNCHANGED settings

ReadOption == \/ Operand \/ Verbose \/ Input \/ Output \/ Interleaving
              \/ Format \/ Section \/ Addresses \/ Unknown

-----------------------------------------------------------------------------
\* What the command line says, read at once: token i is the argument of the
\* option before it.
ArgumentAt ==
  LET argument[i \in 1 .. Len(command)] ==
        i > 1 /\ IsOption(command[i - 1]) /\ ~argument[i - 1]
              /\ Option(command[i - 1]).argument
  IN  {i \in 1 .. Len(command) : argument[i]}

ArgumentsOf(c) == {i \in ArgumentAt : Option(command[i - 1]).char = c}

LastOf(c, default) ==
  LET at == ArgumentsOf(c) IN IF at = {} THEN default ELSE command[Max(at)]

GivenOperands == {i \in 1 .. Len(command) \ ArgumentAt : ~IsOption(command[i])}

GivenInput == IF GivenOperands = {} THEN LastOf("i", <<>>)
              ELSE command[Min(GivenOperands)]

GivenInterleave == \E i \in 1 .. Len(command) \ ArgumentAt :
                     IsOption(command[i]) /\ Option(command[i]).char = "l"

\* The first -s of a section gives its address.
GivenAddress(name) ==
  Hex[command[Min({i \in ArgumentsOf("s") : command[i][1] = name})][3]]
=============================================================================
