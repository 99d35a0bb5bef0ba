-------------------------- MODULE MCBrotherBackend --------------------------
(* Instances of BrotherBackend for TLC. *)
EXTENDS BrotherBackend, TLC

CONSTANTS d1, d2

\* Two models whose names have nothing to do with each other; two printers of one model;
\* a model whose name is the other's with something after it.
Distinct  == [d \in Devices |-> {d}]
SameModel == [d \in Devices |-> Devices]
Longer    == (d1 :> {d1, d2} @@ d2 :> {d2})
=============================================================================
