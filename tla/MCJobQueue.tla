----------------------------- MODULE MCJobQueue -----------------------------
(* Instances of JobQueue for TLC. *)
EXTENDS JobQueue, TLC

CONSTANTS p1, p2, j1, j2

Job(i, p, n, ok) == [id |-> i, printer |-> p, copies |-> n, wellFormed |-> ok]

\* One printer, one job that is redelivered.
OneJob == {Job(j1, p1, 1, TRUE)}

\* One printer, two IDs, one of them with two copies.
OnePrinter == {Job(j1, p1, 2, TRUE), Job(j2, p1, 1, TRUE), Job(j2, p1, 1, FALSE)}

\* The submitters are interchangeable (used for safety only).
Symmetry == Permutations(Submitters)
=============================================================================
