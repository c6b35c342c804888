---- MODULE MCLocator ----
(* All tables of two or three sections of 0..3 bytes, all -s maps for them,  *)
(* with addresses of 4 bits so that they also wrap.                         *)
EXTENDS Locator

MCNames == {"a", "b", "c"}
MCLayouts ==
  {[s \in 1 .. Len(ns) |-> [name |-> ns[s], size |-> z[s]]] :
     ns \in {<<"a", "b", "c">>}, z \in [1 .. 3 -> 0 .. 3]}
  \cup {[s \in 1 .. 2 |-> [name |-> <<"a", "b">>[s], size |-> z[s]]] :
     z \in [1 .. 2 -> 0 .. 3]}
MCAddressMaps == UNION {[d -> {0, 2, 3, 5, 14, 15}] : d \in SUBSET MCNames}
====
