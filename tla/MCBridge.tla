------------------------------ MODULE MCBridge ------------------------------
(* Instances of Bridge for TLC. *)
EXTENDS Bridge, TLC

CONSTANTS p1, p2, j1, j2

Job(i, p, n) == [id |-> i, printer |-> p, copies |-> n, wellFormed |-> TRUE]

\* A job for each of two printers, and one that fails validation.
TwoPrinters == {Job(j1, p1, 1), Job(j2, p2, 1), Job(j2, p2, 0)}
=============================================================================
