---- MODULE MCLogRotation ----
(* Small instances of LogRotation. *)
EXTENDS LogRotation, TLC

CONSTANTS t1, t2

TwoThreads == {t1, t2}
Symmetry == Permutations(Threads)
====
