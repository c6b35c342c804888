---------------------------- MODULE SectionStore ----------------------------
(***************************************************************************)
(* What the section table of p16as promises to the rest of the assembler:  *)
(* a body of bytes per section name.  A section directive selects a body,  *)
(* what follows is appended to it, and selecting it again resumes where it *)
(* stopped (doc/pas_assembly_language.rst, 196-198 and 492-499).  Later    *)
(* phases patch bytes in place.  Section numbers, flags and the ".text"    *)
(* that always exists at the start are not visible at this level.          *)
(***************************************************************************)
EXTENDS Naturals, Sequences

CONSTANT Names              \* the section names a program may use

VARIABLES
  body,                     \* [Names -> Seq(Byte)]: what each section holds
  here                      \* the section that receives the next bytes

Byte == 0 .. 255

Init == /\ body = [n \in Names |-> <<>>]
        /\ here \in Names

Select(n) == /\ here' = n
             /\ UNCHANGED body

\* Only the body of n changes, and it holds bytes afterwards.
OnlyBody(n) == /\ body' = [body EXCEPT ![n] = body'[n]]
               /\ body'[n] \in Seq(Byte)

\* Bytes are added at the end of the selected section and nowhere else.
Extend == /\ OnlyBody(here)
          /\ Len(body[here]) <= Len(body'[here])
          /\ \A i \in 1 .. Len(body[here]) : body'[here][i] = body[here][i]
          /\ UNCHANGED here

\* Reserved bytes of one section, selected or not, get new values.
Patch(n) == /\ OnlyBody(n)
            /\ Len(body'[n]) = Len(body[n])
            /\ UNCHANGED here

Next == \/ \E n \in Names : Select(n) \/ Patch(n)
        \/ Extend

Spec == Init /\ [][Next]_<<body, here>>
=============================================================================
