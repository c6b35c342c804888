------------------------------- MODULE Locator -------------------------------
(***************************************************************************)
(* Location of sections (Sections::locate and address_is_free in            *)
(* src/src/sections.cpp).  Sections are taken in table order; each gets the *)
(* address the user gave with -s or the next even address after the section *)
(* before it, and is inserted in the address-ordered list unless it meets a *)
(* section already there, which ends the program.                          *)
(***************************************************************************)
EXTENDS Integers, Sequences

CONSTANTS
  Names,                    \* section names
  Layouts,                  \* tables the parser may leave: Seq([name, size])
  AddressMaps,              \* possible -s maps, functions on a part of Names
  AddressLimit              \* base_address is unsigned: 2^32 values

Address == 0 .. AddressLimit - 1

ASSUME AddressAssumption == AddressLimit \in Nat \ {0}
ASSUME LayoutsAssumption == Layouts \subseteq Seq([name : Names, size : Nat])
ASSUME MapsAssumption ==
  \A m \in AddressMaps : \A n \in DOMAIN m : m[n] \in Address

VARIABLES
  sections,                 \* name and size of each entry of the table
  section_addresses,        \* the -s options
  base_address,             \* base address of each section, 0 before location
  list,                     \* section numbers already placed, by address
  next,                     \* loop index i of locate, from 1
  current_address,          \* where the next section goes without -s
  empty_warnings,           \* sections reported as empty
  outcome                   \* "locating", "located", or "overlap" (exit)

vars == <<sections, section_addresses, base_address, list, next,
          current_address, empty_warnings, outcome>>

inputs == <<sections, section_addresses>>

\* `size_t` is 64 bits wide and an address 32: this sum is exact.
End(base, s) == base[s] + sections[s].size

\* Start of the section after one that ends at `end`: the next even address,
\* computed in unsigned arithmetic.
Align(end) == (((end + 1) % AddressLimit) \div 2) * 2

Requested(s) == IF sections[s].name \in DOMAIN section_addresses
                THEN section_addresses[sections[s].name]
                ELSE current_address

\* The half-open byte ranges of s and r meet.
Overlap(base, s, r) == End(base, s) > base[r] /\ End(base, r) > base[s]

\* address_is_free leaves its loop at k: the first listed section that starts
\* at or after the end of s, or past the last one.
LoopStopsAt(base, s, k) ==
  /\ k <= Len(list) => End(base, s) <= base[list[k]]
  /\ \A j \in 1 .. k - 1 : ~(End(base, s) <= base[list[j]])

\* Mutant: a section may not start where another ends.
MeetsOrTouches(base, s, k) == \E j \in 1 .. k - 1 : End(base, list[j]) >= base[s]

\* One of the sections met before that overlaps s.
MeetsOverlap(base, s, k) == \E j \in 1 .. k - 1 : Overlap(base, s, list[j])

\* Mutants: the position found is ignored, or what follows it is lost.
InsertLast(k, s) == Append(list, s)
InsertCutting(k, s) == Append(SubSeq(list, 1, k - 1), s)

\* std::list insert before position k.
InsertBefore(k, s) ==
  [j \in 1 .. Len(list) + 1 |-> IF j < k THEN list[j]
                                ELSE IF j = k THEN s
                                ELSE list[j - 1]]

-----------------------------------------------------------------------------
Init == /\ sections \in Layouts
        /\ section_addresses \in AddressMaps
        /\ base_address = [s \in DOMAIN sections |-> 0]
        /\ list = <<>>
        /\ next = 1
        /\ current_address = 0
        /\ empty_warnings = {}
        /\ outcome = "locating"

\* One iteration of locate: the address is assigned before it is tested.
PlaceSection ==
  LET base == [base_address EXCEPT ![next] = Requested(next)]
  IN  /\ outcome = "locating" /\ next <= Len(sections)
      /\ base_address' = base
      /\ \E k \in 1 .. Len(list) + 1 :
           /\ LoopStopsAt(base, next, k)
           /\ ~MeetsOverlap(base, next, k)
           /\ list' = InsertBefore(k, next)
      /\ current_address' = Align(End(base, next))
      /\ empty_warnings' = IF sections[next].size = 0
                           THEN empty_warnings \cup {next} ELSE empty_warnings
      /\ next' = next + 1
      /\ UNCHANGED <<inputs, outcome>>

\* error_report and exit(EXIT_FAILURE): no later phase runs.
OverlapExit ==
  LET base == [base_address EXCEPT ![next] = Requested(next)]
  IN  /\ outcome = "locating" /\ next <= Len(sections)
      /\ base_address' = base
      /\ \E k \in 1 .. Len(list) + 1 :
           LoopStopsAt(base, next, k) /\ MeetsOverlap(base, next, k)
      /\ outcome' = "overlap"
      /\ UNCHANGED <<inputs, list, next, current_address, empty_warnings>>

Finish == /\ outcome = "locating" /\ next > Len(sections)
          /\ outcome' = "located"
          /\ UNCHANGED <<inputs, base_address, list, next, current_address,
                         empty_warnings>>

Next == PlaceSection \/ OverlapExit \/ Finish

Spec == Init /\ [][Next]_vars

-----------------------------------------------------------------------------
\* Sections::lower_address and higher_address: the window written by default.
LowerAddress == IF list = <<>> THEN 0 ELSE base_address[list[1]]
\* Mutant: the end of the last section of the source.
EndOfLastInTable == End(base_address, Len(sections)) % AddressLimit
HigherAddress == IF list = <<>> THEN 0
                 ELSE End(base_address, list[Len(list)]) % AddressLimit

-----------------------------------------------------------------------------
TypeOK ==
  /\ sections \in Seq([name : Names, size : Nat])
  /\ \A n \in DOMAIN section_addresses : section_addresses[n] \in Address
  /\ base_address \in [DOMAIN sections -> Address]
  /\ next \in 1 .. Len(sections) + 1
  /\ list \in Seq(1 .. next - 1)
  /\ current_address \in Address
  /\ empty_warnings \subseteq 1 .. next - 1
  /\ outcome \in {"locating", "located", "overlap"}

\* The list is the memory map: in it, a section ends before the next one
\* starts.  The early break in address_is_free is right only because of this.
ListInAddressOrder ==
  \A i, j \in DOMAIN list :
    i < j => End(base_address, list[i]) <= base_address[list[j]]

\* Each section handled so far is in the list once and only once.
ListIsComplete ==
  /\ \A s \in 1 .. next - 1 : \E i \in DOMAIN list : list[i] = s
  /\ \A i, j \in DOMAIN list : list[i] = list[j] => i = j

\* The program goes on exactly when no two sections meet, wherever the
\* sections that meet are in the table (the "this overlap another section"
\* error, sections.cpp 198-205).
OverlapIsReported ==
  /\ outcome = "located" =>
       \A s, r \in DOMAIN sections : s # r => ~Overlap(base_address, s, r)
  /\ outcome = "overlap" =>
       \E r \in 1 .. next - 1 : Overlap(base_address, next, r)

\* The default window of the writers holds every byte of every section.
WindowHoldsSections ==
  outcome = "located" /\ (\A s \in DOMAIN sections : End(base_address, s) < AddressLimit) =>
    \A s \in DOMAIN sections :
      LowerAddress <= base_address[s] /\ End(base_address, s) <= HigherAddress
=============================================================================
