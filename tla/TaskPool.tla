------------------------------ MODULE TaskPool ------------------------------
(***************************************************************************)
(* What a ThreadPool (src/src/threadpool.h) promises its users, without    *)
(* threads, mutex or condition variable: a first-in first-out queue of     *)
(* tasks, a set of workers each running at most one task, and a switch.    *)
(* Tasks may be submitted whether or not the pool is open (add_task never  *)
(* looks at _pool_state); a task is started only while the pool is open;   *)
(* a task being run when the pool closes is run to its end, one still      *)
(* queued then stays queued.                                               *)
(*                                                                         *)
(* ThreadPool.tla implements this specification; EpollSocket.tla uses it.  *)
(***************************************************************************)
EXTENDS Sequences

CONSTANTS
    Workers,    \* the worker threads
    Tasks,      \* what the pool is asked to run
    NoTask      \* "runs nothing", not one of Tasks

VARIABLES
    pending,    \* accepted and not started, oldest first
    running,    \* running[w]: the task worker w runs, or NoTask
    open        \* TRUE from start_threadpool to destroy_threadpool

vars == <<pending, running, open>>

Init ==
    /\ pending = <<>>
    /\ running = [w \in Workers |-> NoTask]
    /\ open = FALSE

\* start_threadpool succeeds.
Open ==
    /\ open' = TRUE
    /\ UNCHANGED <<pending, running>>

\* add_task accepts t.
Submit(t) ==
    /\ pending' = Append(pending, t)
    /\ UNCHANGED <<running, open>>

\* A worker leaves the wait loop and pops the oldest task.
Start(w) ==
    /\ open
    /\ running[w] = NoTask
    /\ pending # <<>>
    /\ running' = [running EXCEPT ![w] = Head(pending)]
    /\ pending' = Tail(pending)
    /\ UNCHANGED open

\* task->run() returns.
Finish(w) ==
    /\ running[w] # NoTask
    /\ running' = [running EXCEPT ![w] = NoTask]
    /\ UNCHANGED <<pending, open>>

\* destroy_threadpool sets STOPPED.
Close ==
    /\ open' = FALSE
    /\ UNCHANGED <<pending, running>>

Next ==
    \/ Open
    \/ Close
    \/ \E t \in Tasks : Submit(t)
    \/ \E w \in Workers : Start(w) \/ Finish(w)

Spec == Init /\ [][Next]_vars

=============================================================================
