---- MODULE MCImageWriters ----
(* Bytes of 8 values: the load address gets a second digit at 8 and leaves  *)
(* the address field at 64, where the pages of 4 cells wrap too.            *)
EXTENDS ImageWriters, SequencesExt

Sec(b, l, z) == {[base |-> b, loadable |-> l, contents |-> c] :
                   c \in IF l THEN TupleOf({0, 5}, z) ELSE {[n \in 1 .. z |-> 3]}}

\* In table order: ordered, with a gap and a .bss, reversed by -s, with an
\* empty section, past the first page at an odd address, up to the end of the
\* memory, over it to a cell that is written again.
MCTables ==
  (Sec(14, TRUE, 4) \X Sec(18, TRUE, 2))
  \cup (Sec(14, TRUE, 3) \X Sec(18, FALSE, 2) \X Sec(20, TRUE, 1))
  \cup (Sec(18, TRUE, 2) \X Sec(14, TRUE, 3))
  \cup (Sec(13, TRUE, 0) \X Sec(13, TRUE, 5))
  \cup {<<s>> : s \in Sec(60, TRUE, 4)}
  \cup (Sec(62, TRUE, 4) \X Sec(1, TRUE, 1))

MCWindows == {[lower |-> 14, higher |-> 17], [lower |-> 15, higher |-> 19],
              [lower |-> 16, higher |-> 16], [lower |-> 12, higher |-> 22],
              [lower |-> 17, higher |-> 15], [lower |-> 0, higher |-> 0]}
====
