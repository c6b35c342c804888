----------------------------- MODULE FlatMemory -----------------------------
(***************************************************************************)
(* What Memory_space promises its callers (src/src/memory_space.h): an      *)
(* array of bytes, zero at first, whose addresses wrap at its size, and in  *)
(* which a block is written as a whole.                                     *)
(***************************************************************************)
EXTENDS Naturals, Sequences

CONSTANTS Space,            \* bytes of the memory (64 K in the program)
          Addresses,        \* the addresses a caller writes at
          Blocks            \* the blocks it writes

VARIABLE cells

\* The byte of the block that lands in cell a last, when one does.
Lands(address, block, i, a) == (address + i - 1) % Space = a

Overlay(old, address, block) ==
  [a \in 0 .. Space - 1 |->
     IF \E i \in DOMAIN block : Lands(address, block, i, a)
     THEN block[CHOOSE i \in DOMAIN block :
                  /\ Lands(address, block, i, a)
                  /\ \A j \in DOMAIN block : Lands(address, block, j, a) => j <= i]
     ELSE old[a]]

Init == cells = [a \in 0 .. Space - 1 |-> 0]

Write(address, block) == cells' = Overlay(cells, address, block)

Next == \E address \in Addresses, block \in Blocks : Write(address, block)

Spec == Init /\ [][Next]_cells
=============================================================================
