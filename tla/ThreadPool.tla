----------------------------- MODULE ThreadPool -----------------------------
(***************************************************************************)
(* class ThreadPool with its Mutex and CondVar, src/src/threadpool.{h,cpp}. *)
(*                                                                         *)
(* One main thread calls start_threadpool and destroy_threadpool, any      *)
(* number of submitters call add_task, the workers run execute_thread.     *)
(* A step of a thread is what it does between two points where another     *)
(* thread can see a difference: taking the mutex, one critical section,    *)
(* going to sleep (pthread_cond_wait gives the mutex back and starts       *)
(* waiting in one step), waking, running a task.                           *)
(*                                                                         *)
(* Left out: the logging, and the callbacks m_scb and m_exit_cb, which run *)
(* outside the mutex and touch nothing of the pool.                        *)
(***************************************************************************)
EXTENDS Integers, Sequences, FiniteSets, SequencesExt

CONSTANTS
    Workers,        \* all threads that pthread_create may ever return
    Submitters,     \* threads that call add_task
    Tasks,          \* tasks, each offered at most once
    NoTask,
    Main,           \* the thread that starts and destroys the pool
    Nobody,         \* "the mutex is free"
    PoolSizes,      \* the values set_pool_size is called with
    Limits,         \* the values set_task_size_limit is called with
    MaxStarts,      \* bound: how often the pool is started
    MayFailCreate   \* whether pthread_create may fail

ASSUME PoolAssumption ==
    /\ IsFiniteSet(Workers)
    /\ PoolSizes \subseteq Nat
    /\ Limits \subseteq Int
    /\ MaxStarts \in Nat
    /\ MayFailCreate \in BOOLEAN

ASSUME DistinctThreads ==
    /\ Workers \cap Submitters = {}
    /\ {Main, Nobody} \cap (Workers \cup Submitters) = {}
    /\ Main # Nobody
    /\ NoTask \notin Tasks

VARIABLES
    \* fields of ThreadPool
    pool_size,          \* _pool_size; set before start, then fixed
    task_size_limit,    \* _task_size_limit; set before start, then fixed
    pool_state,         \* _pool_state
    threads,            \* _threads: the handles, never cleared
    joined,             \* the handles a pthread_join has returned for
    tasks,              \* _tasks
    mutex,              \* who holds _task_mutex._lock
    is_locked,          \* _task_mutex._is_locked
    \* the main thread
    mpc,                \* where it is
    idx,                \* i of the loops in start_ and destroy_threadpool
    starts,             \* how often the pool was started
    \* the workers
    wpc,                \* where each one is
    wtask,              \* the task it runs
    \* the submitters
    spc,                \* where each one is in add_task
    stask,              \* the argument of add_task
    \* history, for the properties
    offered,            \* tasks given to add_task so far
    accepted,           \* tasks add_task returned 0 for, in order
    finished            \* tasks run to the end

conf == <<pool_size, task_size_limit>>
lockvars == <<mutex, is_locked>>
mainvars == <<mpc, idx, starts>>
workervars == <<wpc, wtask>>
submitvars == <<spc, stask, offered, accepted>>
vars == <<conf, pool_state, threads, joined, tasks, lockvars, mainvars, workervars,
          submitvars, finished>>

MainStates == {"idle", "creating", "stopping", "joining", "gone", "aborted"}
WorkerStates == {"uncreated", "lock", "relock", "check", "sleep", "waiting",
                 "running", "exited"}

\* The threads blocked in pthread_cond_wait that no one has woken.
waiting == {w \in Workers : wpc[w] = "waiting"}

Init ==
    /\ pool_size \in PoolSizes
    /\ task_size_limit \in Limits
    /\ pool_state = "new"
    /\ threads = <<>> /\ joined = {}
    /\ tasks = <<>>
    /\ mutex = Nobody
    /\ is_locked = FALSE
    /\ mpc = "idle" /\ idx = 0 /\ starts = 0
    /\ wpc = [w \in Workers |-> "uncreated"]
    /\ wtask = [w \in Workers |-> NoTask]
    /\ spc = [s \in Submitters |-> "idle"]
    /\ stask = [s \in Submitters |-> NoTask]
    /\ offered = {} /\ accepted = <<>> /\ finished = {}

-----------------------------------------------------------------------------
(* class Mutex *)

\* Mutex::lock(), which takes _lock and then sets the flag.
Acquire(p) ==
    /\ mutex = Nobody
    /\ mutex' = p
    /\ is_locked' = TRUE

\* Mutex::unlock(), which clears the flag and then gives _lock back.
Release ==
    /\ mutex' = Nobody
    /\ is_locked' = FALSE

-----------------------------------------------------------------------------
(* class CondVar *)

\* Mutant: signal only when the queue was empty before the push.
SignalWhenEmpty ==
    IF tasks = <<>> /\ waiting # {}
    THEN \E w \in waiting : wpc' = [wpc EXCEPT ![w] = "relock"]
    ELSE UNCHANGED wpc

\* Mutant: no signal.
SignalNobody == UNCHANGED wpc

\* pthread_cond_signal wakes one of the waiting threads, if there is one.
Signal ==
    \/ /\ waiting = {}
       /\ UNCHANGED wpc
    \/ \E w \in waiting : wpc' = [wpc EXCEPT ![w] = "relock"]

\* Mutant: signal() where broadcast() is meant.
BroadcastToOne == Signal

\* pthread_cond_broadcast wakes them all.
Broadcast ==
    wpc' = [w \in Workers |-> IF w \in waiting THEN "relock" ELSE wpc[w]]

-----------------------------------------------------------------------------
(* The main thread *)

\* start_threadpool up to its loop. The calls that return at once (no size
\* set, already started) change nothing and are not steps.
StartThreadpool ==
    /\ mpc = "idle"
    /\ pool_size # 0
    /\ pool_state # "started"
    /\ starts < MaxStarts
    /\ pool_state' = "started"
    /\ mpc' = "creating"
    /\ idx' = 0
    /\ starts' = starts + 1
    /\ UNCHANGED <<conf, joined, threads, tasks, lockvars, workervars, submitvars, finished>>

\* Mutant: "i <= _pool_size".
MoreThreadsOrEqual == idx <= pool_size

\* The condition of the loops of start_threadpool and destroy_threadpool.
MoreThreads == idx < pool_size

\* One turn of the loop: pthread_create succeeds with handle w.
CreateThread(w) ==
    /\ mpc = "creating"
    /\ MoreThreads
    /\ wpc[w] = "uncreated"
    /\ wpc' = [wpc EXCEPT ![w] = "lock"]
    /\ threads' = Append(threads, w)
    /\ idx' = idx + 1
    /\ UNCHANGED <<conf, joined, pool_state, tasks, lockvars, mpc, starts, wtask,
                   submitvars, finished>>

\* pthread_create fails: start_threadpool returns -1, the state stays STARTED
\* and the threads created so far stay.
CreateFails ==
    /\ MayFailCreate
    /\ mpc = "creating"
    /\ MoreThreads
    /\ mpc' = "idle"
    /\ UNCHANGED <<conf, joined, pool_state, threads, tasks, lockvars, idx, starts,
                   workervars, submitvars, finished>>

StartReturns ==
    /\ mpc = "creating"
    /\ idx = pool_size
    /\ mpc' = "idle"
    /\ UNCHANGED <<conf, joined, pool_state, threads, tasks, lockvars, idx, starts,
                   workervars, submitvars, finished>>

\* destroy_threadpool takes the mutex and sets STOPPED. It is called while the
\* pool is started, by the owner or by ~ThreadPool.
DestroyLock ==
    /\ mpc = "idle"
    /\ pool_state = "started"
    /\ Acquire(Main)
    /\ pool_state' = "stopped"
    /\ mpc' = "stopping"
    /\ UNCHANGED <<conf, joined, threads, tasks, idx, starts, workervars, submitvars, finished>>

\* ... wakes every waiting worker and gives the mutex back.
DestroyBroadcast ==
    /\ mpc = "stopping"
    /\ Broadcast
    /\ Release
    /\ mpc' = "joining"
    /\ idx' = 0
    /\ UNCHANGED <<conf, joined, pool_state, threads, tasks, starts, wtask, submitvars, finished>>

\* _threads[i] is the handle of a thread nobody has joined.
Handle(i) == i < Len(threads) /\ threads[i + 1] \notin joined

\* pthread_join(_threads[i]) waits for the thread to exit.
Join ==
    /\ mpc = "joining"
    /\ MoreThreads
    /\ Handle(idx)
    /\ wpc[threads[idx + 1]] = "exited"
    /\ joined' = joined \cup {threads[idx + 1]}
    /\ idx' = idx + 1
    /\ UNCHANGED <<conf, pool_state, threads, tasks, lockvars, mpc, starts,
                   workervars, submitvars, finished>>

\* The loop reads _threads past its end, where a pthread_create had failed, or
\* joins a handle an earlier destroy has joined: undefined. The program ends
\* there, or the call returns and the loop goes on. (The other threads of a
\* program that has ended are left to run on: they do no more than they may.)
JoinUndefined ==
    /\ mpc = "joining"
    /\ MoreThreads
    /\ ~Handle(idx)
    /\ \/ mpc' = "aborted" /\ UNCHANGED idx
       \/ idx' = idx + 1 /\ UNCHANGED mpc
    /\ UNCHANGED <<conf, joined, pool_state, threads, tasks, lockvars, starts,
                   workervars, submitvars, finished>>

\* Mutant: the join loop stops one short.
DestroyReturnsEarly ==
    /\ mpc = "joining"
    /\ idx + 1 >= pool_size
    /\ mpc' = "idle"
    /\ UNCHANGED <<conf, pool_state, threads, joined, tasks, lockvars, idx, starts,
                   workervars, submitvars, finished>>

DestroyReturns ==
    /\ mpc = "joining"
    /\ idx = pool_size
    /\ mpc' = "idle"
    /\ UNCHANGED <<conf, joined, pool_state, threads, tasks, lockvars, idx, starts,
                   workervars, submitvars, finished>>

\* ~ThreadPool of a pool that is not started, with ~Mutex of its _task_mutex:
\* it spins while the flag is set, unlocks and destroys. The owner destroys
\* the pool when nobody calls add_task.
Destruct ==
    /\ mpc = "idle"
    /\ pool_state # "started"
    /\ \A s \in Submitters : spc[s] = "idle"
    /\ ~is_locked
    /\ mpc' = "gone"
    /\ UNCHANGED <<conf, joined, pool_state, threads, tasks, lockvars, idx, starts,
                   workervars, submitvars, finished>>

-----------------------------------------------------------------------------
(* execute_thread, in worker w *)

\* _task_mutex.lock(), at the top of the outer loop.
Lock(w) ==
    /\ wpc[w] = "lock"
    /\ Acquire(w)
    /\ wpc' = [wpc EXCEPT ![w] = "check"]
    /\ UNCHANGED <<conf, pool_state, threads, joined, tasks, mainvars, wtask,
                   submitvars, finished>>

\* A woken worker gets _lock back inside pthread_cond_wait, which knows nothing
\* of the flag.
Relock(w) ==
    /\ wpc[w] = "relock"
    /\ mutex = Nobody
    /\ mutex' = w
    /\ wpc' = [wpc EXCEPT ![w] = "check"]
    /\ UNCHANGED <<conf, pool_state, threads, joined, tasks, is_locked, mainvars,
                   wtask, submitvars, finished>>

\* The condition of the wait loop holds.
DecideSleep(w) ==
    /\ wpc[w] = "check"
    /\ pool_state # "stopped"
    /\ tasks = <<>>
    /\ wpc' = [wpc EXCEPT ![w] = "sleep"]
    /\ UNCHANGED <<conf, pool_state, threads, joined, tasks, lockvars, mainvars,
                   wtask, submitvars, finished>>

\* pthread_cond_wait starts waiting and gives _lock back in one step, again
\* without the flag.
Sleep(w) ==
    /\ wpc[w] = "sleep"
    /\ wpc' = [wpc EXCEPT ![w] = "waiting"]
    /\ mutex' = Nobody
    /\ UNCHANGED <<conf, pool_state, threads, joined, tasks, is_locked, mainvars,
                   wtask, submitvars, finished>>

\* pthread_cond_wait may return without a signal.
SpuriousWake(w) ==
    /\ w \in waiting
    /\ wpc' = [wpc EXCEPT ![w] = "relock"]
    /\ UNCHANGED <<conf, pool_state, threads, joined, tasks, lockvars, mainvars,
                   wtask, submitvars, finished>>

\* Mutant: the task is not popped.
FrontOnly(w) ==
    /\ wtask' = [wtask EXCEPT ![w] = Head(tasks)]
    /\ UNCHANGED tasks

\* Mutant: the newest task is taken.
PopBack(w) ==
    /\ wtask' = [wtask EXCEPT ![w] = Last(tasks)]
    /\ tasks' = Front(tasks)

\* task = _tasks.front(); _tasks.pop_front().
PopFront(w) ==
    /\ wtask' = [wtask EXCEPT ![w] = Head(tasks)]
    /\ tasks' = Tail(tasks)

\* The wait loop is left with a task: pop it, unlock.
Take(w) ==
    /\ wpc[w] = "check"
    /\ pool_state # "stopped"
    /\ tasks # <<>>
    /\ PopFront(w)
    /\ Release
    /\ wpc' = [wpc EXCEPT ![w] = "running"]
    /\ UNCHANGED <<conf, pool_state, threads, joined, mainvars, submitvars, finished>>

\* The wait loop is left because of STOPPED: unlock and exit.
Leave(w) ==
    /\ wpc[w] = "check"
    /\ pool_state = "stopped"
    /\ Release
    /\ wpc' = [wpc EXCEPT ![w] = "exited"]
    /\ UNCHANGED <<conf, pool_state, threads, joined, tasks, mainvars, wtask,
                   submitvars, finished>>

\* task->run() returns and the task is deleted.
Finish(w) ==
    /\ wpc[w] = "running"
    /\ finished' = finished \cup {wtask[w]}
    /\ wtask' = [wtask EXCEPT ![w] = NoTask]
    /\ wpc' = [wpc EXCEPT ![w] = "lock"]
    /\ UNCHANGED <<conf, pool_state, threads, joined, tasks, lockvars, mainvars,
                   submitvars>>

-----------------------------------------------------------------------------
(* add_task, in submitter s *)

AddLock(s, t) ==
    /\ mpc \notin {"gone", "aborted"}
    /\ spc[s] = "idle"
    /\ t \notin offered
    /\ Acquire(s)
    /\ spc' = [spc EXCEPT ![s] = "locked"]
    /\ stask' = [stask EXCEPT ![s] = t]
    /\ offered' = offered \cup {t}
    /\ UNCHANGED <<conf, pool_state, threads, joined, tasks, mainvars, workervars,
                   accepted, finished>>

\* Mutant: one task more than the code lets in.
LimitReachedLate == task_size_limit > 0 /\ Len(tasks) > task_size_limit + 1

LimitReached == task_size_limit > 0 /\ Len(tasks) > task_size_limit

\* The queue is too long: -1.
AddRefuse(s) ==
    /\ spc[s] = "locked"
    /\ LimitReached
    /\ Release
    /\ spc' = [spc EXCEPT ![s] = "idle"]
    /\ stask' = [stask EXCEPT ![s] = NoTask]
    /\ UNCHANGED <<conf, pool_state, threads, joined, tasks, mainvars, workervars,
                   offered, accepted, finished>>

\* push_back, signal, unlock: 0, whatever _pool_state is.
AddPush(s) ==
    /\ spc[s] = "locked"
    /\ ~LimitReached
    /\ tasks' = Append(tasks, stask[s])
    /\ accepted' = Append(accepted, stask[s])
    /\ Signal
    /\ Release
    /\ spc' = [spc EXCEPT ![s] = "idle"]
    /\ stask' = [stask EXCEPT ![s] = NoTask]
    /\ UNCHANGED <<conf, pool_state, threads, joined, mainvars, wtask, offered,
                   finished>>

-----------------------------------------------------------------------------

MainStep ==
    \/ StartThreadpool
    \/ \E w \in Workers : CreateThread(w)
    \/ CreateFails
    \/ StartReturns
    \/ DestroyLock
    \/ DestroyBroadcast
    \/ Join
    \/ JoinUndefined
    \/ DestroyReturns
    \/ Destruct

WorkerStep(w) ==
    \/ Lock(w)
    \/ Relock(w)
    \/ DecideSleep(w)
    \/ Sleep(w)
    \/ SpuriousWake(w)
    \/ Take(w)
    \/ Leave(w)
    \/ Finish(w)

SubmitStep(s) ==
    \/ \E t \in Tasks : AddLock(s, t)
    \/ AddRefuse(s)
    \/ AddPush(s)

\* The pool, or the program, does not exist any more.
Terminated ==
    /\ mpc \in {"gone", "aborted"}
    /\ UNCHANGED vars

Next ==
    \/ MainStep
    \/ \E w \in Workers : WorkerStep(w)
    \/ \E s \in Submitters : SubmitStep(s)
    \/ Terminated

Spec == Init /\ [][Next]_vars

-----------------------------------------------------------------------------
(* Fairness. A thread that can go on does (WF). The mutex is taken and given *)
(* back over and over, so getting it is only enabled now and then: SF, which *)
(* is what a pthread mutex gives on a scheduler that starves no one. Nothing *)
(* makes the owner start or destroy the pool, nor a submitter offer a task,  *)
(* and nothing makes a thread wake without a signal.                         *)

MainFairness ==
    /\ WF_vars(\E w \in Workers : CreateThread(w))
    /\ WF_vars(StartReturns)
    /\ WF_vars(DestroyBroadcast)
    /\ WF_vars(Join)
    /\ WF_vars(JoinUndefined)
    /\ WF_vars(DestroyReturns)

WorkerFairness(w) ==
    /\ SF_vars(Lock(w) \/ Relock(w))
    /\ WF_vars(DecideSleep(w) \/ Take(w) \/ Leave(w))
    /\ WF_vars(Sleep(w))
    /\ WF_vars(Finish(w))

Fairness ==
    /\ MainFairness
    /\ \A w \in Workers : WorkerFairness(w)
    /\ \A s \in Submitters : WF_vars(AddRefuse(s) \/ AddPush(s))

FairSpec == Spec /\ Fairness

-----------------------------------------------------------------------------
(* Invariants *)

TypeOK ==
    /\ pool_size \in PoolSizes
    /\ task_size_limit \in Limits
    /\ pool_state \in {"new", "started", "stopped"}
    /\ threads \in Seq(Workers)
    /\ joined \subseteq Workers
    /\ tasks \in Seq(Tasks)
    /\ mutex \in Workers \cup Submitters \cup {Main, Nobody}
    /\ is_locked \in BOOLEAN
    /\ mpc \in MainStates
    /\ idx \in 0..pool_size
    /\ starts \in 0..MaxStarts
    /\ wpc \in [Workers -> WorkerStates]
    /\ wtask \in [Workers -> Tasks \cup {NoTask}]
    /\ spc \in [Submitters -> {"idle", "locked"}]
    /\ stask \in [Submitters -> Tasks \cup {NoTask}]
    /\ offered \subseteq Tasks
    /\ accepted \in Seq(Tasks)
    /\ finished \subseteq Tasks

\* No wakeup is lost: while a worker waits, no more tasks are queued than there
\* are other workers on their way to the queue. One signal per add_task is
\* enough, although add_task does not look at who waits (execute_thread's wait
\* loop, add_task's signal).
awake == {w \in Workers : wpc[w] \in {"lock", "relock", "check"}}

WorkConserving == waiting # {} => Len(tasks) <= Cardinality(awake)

\* Once STOPPED is set no worker goes to sleep on the queue, and once the
\* broadcast is out none is asleep: destroy_threadpool can count on its joins
\* (the state is set under the mutex for this, comment at threadpool.cpp:99).
StopSeen ==
    pool_state = "stopped" =>
        /\ \A w \in Workers : wpc[w] # "sleep"
        /\ mpc # "stopping" => waiting = {}

\* Each task that add_task returned 0 for is in one place and one only: queued,
\* being run by one worker, or run to the end. Nothing is lost, run twice, or
\* run after it was refused (add_task's push_back, execute_thread's pop_front).
ExactlyOnce ==
    LET queued == ToSet(tasks)
        running == {wtask[w] : w \in {x \in Workers : wpc[x] = "running"}}
    IN  /\ ToSet(accepted) = queued \cup running \cup finished
        /\ queued \cap running = {}
        /\ (queued \cup running) \cap finished = {}
        /\ Cardinality(queued) = Len(tasks)
        /\ \A v, w \in Workers :
              v # w /\ wpc[v] = "running" /\ wpc[w] = "running" => wtask[v] # wtask[w]

\* The queue never holds more than one task over the limit, because add_task
\* compares the length before the push with ">" (and says "task size reach
\* limit" of a queue that is past it, threadpool.cpp:170).
QueueBounded == task_size_limit > 0 => Len(tasks) <= task_size_limit + 1

\* When destroy_threadpool has returned, and at ~Mutex, every thread the pool
\* ever created is gone: no worker can touch the pool any more.
JoinedAll ==
    (mpc = "idle" /\ pool_state = "stopped") \/ mpc = "gone" =>
        \A w \in Workers : wpc[w] \in {"uncreated", "exited"}

-----------------------------------------------------------------------------
(* Liveness *)

\* In a started pool that got a thread at all an accepted task is run to its end
\* unless the pool is stopped first, even if workers wake without a signal and
\* pthread_create failed for the other threads.
AcceptedRuns ==
    \A t \in Tasks :
        (t \in ToSet(accepted) /\ pool_state = "started" /\ threads # <<>>)
            ~> (t \in finished \/ pool_state = "stopped")

\* destroy_threadpool returns if every pthread_create has worked and no thread
\* was joined before: every worker notices the stop, wherever it was.
StopCompletes ==
    (mpc = "stopping" /\ \A i \in 0..(pool_size - 1) : Handle(i)) ~> mpc = "idle"

-----------------------------------------------------------------------------
(* The queue discipline of TaskPool is kept. *)

Abstract == INSTANCE TaskPool WITH
    pending <- tasks,
    running <- wtask,
    open <- (pool_state = "started")

\* The pool is a first-in first-out queue whose tasks start only between
\* start_threadpool and destroy_threadpool, for any interleaving of its threads.
ImplementsTaskPool == Abstract!Spec

=============================================================================
