---------------------------- MODULE MCThreadPool ----------------------------
(***************************************************************************)
(* Small instances of ThreadPool for TLC.                                  *)
(***************************************************************************)
EXTENDS ThreadPool

CONSTANTS w1, w2, w3, w4, s1, s2, t1, t2, t3

TwoWorkers == {w1, w2}
FourWorkers == {w1, w2, w3, w4}
TwoSubmitters == {s1, s2}
OneSubmitter == {s1}
TwoTasks == {t1, t2}
ThreeTasks == {t1, t2, t3}

\* -1 is "no limit", the value the constructor sets.
AllLimits == {-1, 1, 2}

\* Threads of one kind and tasks are interchangeable: for the runs without
\* liveness properties.
Symmetry ==
    Permutations(Workers) \cup Permutations(Submitters) \cup Permutations(Tasks)

=============================================================================
