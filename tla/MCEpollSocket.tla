---------------------------- MODULE MCEpollSocket ----------------------------
(***************************************************************************)
(* Small instances of EpollSocket for TLC.                                 *)
(***************************************************************************)
EXTENDS EpollSocket, TLC

CONSTANTS c1, c2, w1, w2

OneConn == {c1}
TwoConns == {c1, c2}
OneWorker == {w1}
TwoWorkers == {w1, w2}
NoLimit == -1

\* Connections are interchangeable, and so are workers: for the runs without
\* liveness properties.
Symmetry == Permutations(Conns) \cup Permutations(Workers)

=============================================================================
