---- MODULE MCSections ----
(* Small instance of Sections: three names, two of them loadable. *)
EXTENDS Sections

MCNames == {".text", ".data", ".bss"}
MCBlocks == {<<7>>}
====
