--------------------------- MODULE ThreadPoolProofs ---------------------------
(***************************************************************************)
(* Theorems about ThreadPool, for every number of workers, submitters and  *)
(* tasks and every size and limit.                                         *)
(***************************************************************************)
EXTENDS ThreadPool, FiniteSetTheorems, TLAPS

-----------------------------------------------------------------------------
(* Type correctness *)

\* What the type of stask and wtask depends on: a submitter inside add_task has
\* a task, a worker has one exactly while it runs it.
HasTask ==
    /\ \A s \in Submitters : spc[s] = "locked" => stask[s] \in Tasks
    /\ \A w \in Workers : wpc[w] = "running" <=> wtask[w] # NoTask

TypeInv == TypeOK /\ HasTask

\* The initial state is well typed.
LEMMA TypeInit == Init => TypeInv
<1> SUFFICES ASSUME Init PROVE TypeInv
  OBVIOUS
<1>1. /\ pool_size \in PoolSizes
      /\ task_size_limit \in Limits
      /\ pool_state \in {"new", "started", "stopped"}
      /\ threads \in Seq(Workers) /\ joined \subseteq Workers
      /\ tasks \in Seq(Tasks)
  BY DEF Init
<1>2. /\ mutex \in Workers \cup Submitters \cup {Main, Nobody}
      /\ is_locked \in BOOLEAN
      /\ mpc \in MainStates
  BY DEF Init, MainStates
<1>2a. idx \in 0..pool_size /\ starts \in 0..MaxStarts
  BY PoolAssumption DEF Init
<1>3. /\ wpc \in [Workers -> WorkerStates]
      /\ wtask \in [Workers -> Tasks \cup {NoTask}]
      /\ spc \in [Submitters -> {"idle", "locked"}]
      /\ stask \in [Submitters -> Tasks \cup {NoTask}]
      /\ offered \subseteq Tasks /\ accepted \in Seq(Tasks)
      /\ finished \subseteq Tasks
  BY DEF Init, WorkerStates
<1>4. HasTask
  BY DEF Init, HasTask
<1> QED
  BY <1>1, <1>2, <1>2a, <1>3, <1>4 DEF TypeInv, TypeOK

LEMMA TypeNext == TypeInv /\ [Next]_vars => TypeInv'
<1> SUFFICES ASSUME TypeInv, [Next]_vars PROVE TypeInv'
  OBVIOUS
<1> USE PoolAssumption, DistinctThreads
        DEF TypeInv, TypeOK, HasTask, MainStates, WorkerStates, MoreThreads, conf, lockvars,
            mainvars, workervars, submitvars, Acquire, Release
<1>1. CASE StartThreadpool
  BY <1>1 DEF StartThreadpool
<1>2. ASSUME NEW w \in Workers, CreateThread(w) PROVE TypeInv'
  BY <1>2 DEF CreateThread
<1>3. CASE CreateFails
  BY <1>3 DEF CreateFails
<1>4. CASE StartReturns
  BY <1>4 DEF StartReturns
<1>5. CASE DestroyLock
  BY <1>5 DEF DestroyLock
<1>6. CASE DestroyBroadcast
  <2>1. /\ wpc' \in [Workers -> WorkerStates]
        /\ \A w \in Workers : wpc'[w] = "running" <=> wpc[w] = "running"
    BY <1>6 DEF DestroyBroadcast, Broadcast, waiting
  <2>2. 0 \in 0..pool_size
    OBVIOUS
  <2>3. TypeOK'
    BY <1>6, <2>1, <2>2 DEF DestroyBroadcast
  <2>4. HasTask'
    BY <1>6, <2>1 DEF DestroyBroadcast
  <2> QED
    BY <2>3, <2>4
<1>7. CASE Join \/ JoinUndefined
  <2>1. CASE Join
    <3>1. threads[idx + 1] \in Workers /\ joined' \subseteq Workers
      BY <2>1 DEF Join, Handle
    <3>2. idx' \in 0..pool_size
      BY <2>1 DEF Join
    <3> QED
      BY <2>1, <3>1, <3>2 DEF Join
  <2>2. CASE JoinUndefined
    BY <2>2 DEF JoinUndefined
  <2> QED
    BY <1>7, <2>1, <2>2
<1>8. CASE DestroyReturns
  BY <1>8 DEF DestroyReturns
<1>9. CASE Destruct
  BY <1>9 DEF Destruct
<1>10. ASSUME NEW w \in Workers, Lock(w) PROVE TypeInv'
  BY <1>10 DEF Lock
<1>11. ASSUME NEW w \in Workers, Relock(w) PROVE TypeInv'
  BY <1>11 DEF Relock
<1>12. ASSUME NEW w \in Workers, DecideSleep(w) PROVE TypeInv'
  BY <1>12 DEF DecideSleep
<1>13. ASSUME NEW w \in Workers, Sleep(w) PROVE TypeInv'
  BY <1>13 DEF Sleep
<1>14. ASSUME NEW w \in Workers, SpuriousWake(w) PROVE TypeInv'
  BY <1>14 DEF SpuriousWake, waiting
<1>15. ASSUME NEW w \in Workers, Take(w) PROVE TypeInv'
  <2>1. /\ Head(tasks) \in Tasks
        /\ Tail(tasks) \in Seq(Tasks)
        /\ Head(tasks) # NoTask
    BY <1>15 DEF Take
  <2>2. TypeOK'
    BY <1>15, <2>1 DEF Take, PopFront
  <2>3. HasTask'
    BY <1>15, <2>1 DEF Take, PopFront
  <2> QED
    BY <2>2, <2>3
<1>16. ASSUME NEW w \in Workers, Leave(w) PROVE TypeInv'
  BY <1>16 DEF Leave
<1>17. ASSUME NEW w \in Workers, Finish(w) PROVE TypeInv'
  BY <1>17 DEF Finish
<1>18. ASSUME NEW s \in Submitters, NEW t \in Tasks, AddLock(s, t) PROVE TypeInv'
  BY <1>18 DEF AddLock
<1>19. ASSUME NEW s \in Submitters, AddRefuse(s) PROVE TypeInv'
  BY <1>19 DEF AddRefuse
<1>20. ASSUME NEW s \in Submitters, AddPush(s) PROVE TypeInv'
  <2>1. stask[s] \in Tasks
    BY <1>20 DEF AddPush
  <2>2. /\ tasks' \in Seq(Tasks)
        /\ accepted' \in Seq(Tasks)
    BY <1>20, <2>1 DEF AddPush
  <2>3. /\ wpc' \in [Workers -> WorkerStates]
        /\ \A w \in Workers : wpc'[w] = "running" <=> wpc[w] = "running"
    BY <1>20 DEF AddPush, Signal, waiting
  <2>4. TypeOK'
    BY <1>20, <2>2, <2>3 DEF AddPush
  <2>5. HasTask'
    BY <1>20, <2>3 DEF AddPush
  <2> QED
    BY <2>4, <2>5
<1>21. CASE UNCHANGED vars
  BY <1>21 DEF vars
<1> QED
  BY <1>1, <1>2, <1>3, <1>4, <1>5, <1>6, <1>7, <1>8, <1>9, <1>10, <1>11,
     <1>12, <1>13, <1>14, <1>15, <1>16, <1>17, <1>18, <1>19, <1>20, <1>21
     DEF Next, MainStep, WorkerStep, SubmitStep, Terminated

\* Every variable of the pool keeps its type.
THEOREM TypeCorrect == Spec => []TypeOK
<1>1. TypeInv => TypeOK
  BY DEF TypeInv
<1> QED
  BY <1>1, TypeInit, TypeNext, PTL DEF Spec

\* The queue is at most one over its limit: add_task looks before it pushes, in
\* one critical section, and nothing else makes the queue longer.
THEOREM LimitPlusOne == Spec => []QueueBounded
<1>1. Init => QueueBounded
  BY PoolAssumption DEF Init, QueueBounded
<1>2. TypeInv /\ QueueBounded /\ [Next]_vars => QueueBounded'
  <2> SUFFICES ASSUME TypeInv, QueueBounded, [Next]_vars PROVE QueueBounded'
    OBVIOUS
  <2>0. task_size_limit \in Int /\ Len(tasks) \in Nat
    BY PoolAssumption DEF TypeInv, TypeOK
  <2>1. UNCHANGED task_size_limit
    BY DEF Next, vars, conf, MainStep, StartThreadpool, CreateThread, CreateFails,
           StartReturns, DestroyLock, DestroyBroadcast, Join, JoinUndefined, DestroyReturns,
           Destruct, WorkerStep, Lock, Relock, DecideSleep, Sleep, SpuriousWake,
           Take, Leave, Finish, SubmitStep, AddLock, AddRefuse, AddPush, Terminated
  <2>2. ASSUME NEW s \in Submitters, AddPush(s) PROVE QueueBounded'
    <3>1. Len(tasks') = Len(tasks) + 1
      BY <2>2 DEF AddPush, TypeInv, TypeOK, HasTask
    <3> QED
      BY <2>0, <2>1, <2>2, <3>1 DEF AddPush, LimitReached, QueueBounded
  <2>3. ASSUME NEW w \in Workers, Take(w) PROVE QueueBounded'
    <3>1. Len(tasks') = Len(tasks) - 1
      BY <2>3 DEF Take, PopFront, TypeInv, TypeOK
    <3> QED
      BY <2>0, <2>1, <3>1 DEF QueueBounded
  <2>4. ASSUME tasks' = tasks PROVE QueueBounded'
    BY <2>1, <2>4 DEF QueueBounded
  <2>5. \/ tasks' = tasks
        \/ \E w \in Workers : Take(w)
        \/ \E s \in Submitters : AddPush(s)
    BY DEF Next, vars, MainStep, StartThreadpool, CreateThread, CreateFails,
           StartReturns, DestroyLock, DestroyBroadcast, Join, JoinUndefined, DestroyReturns,
           Destruct, WorkerStep, Lock, Relock, DecideSleep, Sleep, SpuriousWake,
           Leave, Finish, SubmitStep, AddLock, AddRefuse, Terminated
  <2> QED
    BY <2>2, <2>3, <2>4, <2>5
<1> QED
  BY <1>1, <1>2, TypeInit, TypeNext, PTL DEF Spec

-----------------------------------------------------------------------------
(* The wait loop *)

\* Where a thread is says whether it holds the mutex.
LockInv ==
    /\ \A w \in Workers : mutex = w <=> wpc[w] \in {"check", "sleep"}
    /\ \A s \in Submitters : mutex = s <=> spc[s] = "locked"
    /\ mutex = Main <=> mpc = "stopping"

\* The condition a worker goes to sleep on still holds when it sleeps, because
\* it kept the mutex since it looked.
SleepInv == \A w \in Workers :
    wpc[w] = "sleep" => tasks = <<>> /\ pool_state # "stopped"

\* Threads exist only since the first start.
StartedInv ==
    /\ mpc = "stopping" => pool_state = "stopped"
    /\ pool_state = "new" => \A w \in Workers : wpc[w] = "uncreated"
    /\ mpc = "creating" => pool_state = "started"

WaitInv == TypeInv /\ LockInv /\ SleepInv /\ StartedInv /\ StopSeen /\ WorkConserving

\* The number of awake workers is a number, and grows with the set.
LEMMA AwakeCount ==
  /\ Cardinality(awake) \in Nat
  /\ Cardinality(awake') \in Nat
  /\ awake \subseteq awake' => Cardinality(awake) <= Cardinality(awake')
<1>1. IsFiniteSet(awake) /\ IsFiniteSet(awake')
  <2>1. awake \subseteq Workers /\ awake' \subseteq Workers
    BY DEF awake
  <2> QED
    BY <2>1, PoolAssumption, FS_Subset
<1>2. Cardinality(awake) \in Nat /\ Cardinality(awake') \in Nat
  BY <1>1, FS_CardinalityType
<1>3. awake \subseteq awake' => Cardinality(awake) <= Cardinality(awake')
  BY <1>1, FS_Subset
<1> QED
  BY <1>2, <1>3

\* One worker more, or one less, counts for one.
LEMMA AwakeStep ==
  ASSUME NEW w \in Workers
  PROVE  /\ w \notin awake /\ awake' = awake \cup {w}
               => Cardinality(awake') = Cardinality(awake) + 1
         /\ w \in awake /\ awake' = awake \ {w}
               => Cardinality(awake') = Cardinality(awake) - 1
<1>1. IsFiniteSet(awake)
  <2>1. awake \subseteq Workers
    BY DEF awake
  <2> QED
    BY <2>1, PoolAssumption, FS_Subset
<1> QED
  BY <1>1, FS_AddElement, FS_RemoveElement

LEMMA WaitInit == Init => WaitInv
<1> SUFFICES ASSUME Init PROVE WaitInv
  OBVIOUS
<1>1. TypeInv
  BY TypeInit
<1>2. LockInv /\ SleepInv /\ StartedInv
  BY DistinctThreads DEF Init, LockInv, SleepInv, StartedInv
<1>3. StopSeen /\ WorkConserving
  BY DEF Init, StopSeen, WorkConserving, waiting
<1> QED
  BY <1>1, <1>2, <1>3 DEF WaitInv

\* The parts that do not count: who holds the mutex, who may sleep, who waits.
LEMMA LockNext ==
  ASSUME WaitInv, [Next]_vars
  PROVE  LockInv' /\ SleepInv' /\ StartedInv' /\ StopSeen'
<1> DEFINE Goal == LockInv /\ SleepInv /\ StartedInv /\ StopSeen
<1> SUFFICES Goal'
  OBVIOUS
<1> USE DistinctThreads
        DEF WaitInv, TypeInv, TypeOK, LockInv, SleepInv, StartedInv, StopSeen,
            waiting, conf, lockvars, mainvars, workervars, submitvars, Acquire,
            Release, MainStates, WorkerStates
<1>1. CASE StartThreadpool
  BY <1>1 DEF StartThreadpool
<1>2. ASSUME NEW w \in Workers, CreateThread(w) PROVE Goal'
  BY <1>2 DEF CreateThread
<1>3. CASE CreateFails
  BY <1>3 DEF CreateFails
<1>4. CASE StartReturns
  BY <1>4 DEF StartReturns
<1>5. CASE DestroyLock
  BY <1>5 DEF DestroyLock
<1>6. CASE DestroyBroadcast
  BY <1>6 DEF DestroyBroadcast, Broadcast
<1>7. CASE Join \/ JoinUndefined
  BY <1>7 DEF Join, JoinUndefined
<1>8. CASE DestroyReturns
  BY <1>8 DEF DestroyReturns
<1>9. CASE Destruct
  BY <1>9 DEF Destruct
<1>10. ASSUME NEW w \in Workers, Lock(w) PROVE Goal'
  BY <1>10 DEF Lock
<1>11. ASSUME NEW w \in Workers, Relock(w) PROVE Goal'
  BY <1>11 DEF Relock
<1>12. ASSUME NEW w \in Workers, DecideSleep(w) PROVE Goal'
  BY <1>12 DEF DecideSleep
<1>13. ASSUME NEW w \in Workers, Sleep(w) PROVE Goal'
  BY <1>13 DEF Sleep
<1>14. ASSUME NEW w \in Workers, SpuriousWake(w) PROVE Goal'
  BY <1>14 DEF SpuriousWake
<1>15. ASSUME NEW w \in Workers, Take(w) PROVE Goal'
  BY <1>15 DEF Take, PopFront
<1>16. ASSUME NEW w \in Workers, Leave(w) PROVE Goal'
  BY <1>16 DEF Leave
<1>17. ASSUME NEW w \in Workers, Finish(w) PROVE Goal'
  BY <1>17 DEF Finish
<1>18. ASSUME NEW s \in Submitters, NEW t \in Tasks, AddLock(s, t) PROVE Goal'
  BY <1>18 DEF AddLock
<1>19. ASSUME NEW s \in Submitters, AddRefuse(s) PROVE Goal'
  BY <1>19 DEF AddRefuse
<1>20. ASSUME NEW s \in Submitters, AddPush(s) PROVE Goal'
  BY <1>20 DEF AddPush, Signal
<1>21. CASE UNCHANGED vars
  BY <1>21 DEF vars
<1> QED
  BY <1>1, <1>2, <1>3, <1>4, <1>5, <1>6, <1>7, <1>8, <1>9, <1>10, <1>11,
     <1>12, <1>13, <1>14, <1>15, <1>16, <1>17, <1>18, <1>19, <1>20, <1>21
     DEF Next, MainStep, WorkerStep, SubmitStep, Terminated

\* The count: only a worker about to sleep leaves the others behind, and then
\* the queue is empty; every task pushed brings a waiter, every task taken a
\* worker less.
LEMMA CountNext ==
  ASSUME WaitInv, [Next]_vars
  PROVE  WorkConserving'
<1> USE DEF WaitInv, TypeInv, TypeOK, waiting, WorkConserving
<1> DEFINE Calm == wpc' = wpc /\ tasks' = tasks
<1>0. ASSUME Calm PROVE WorkConserving'
  BY <1>0 DEF awake
<1>a. Len(tasks) \in Nat
  OBVIOUS
<1>1. ASSUME MainStep PROVE WorkConserving'
  <2>1. ASSUME NEW w \in Workers, CreateThread(w) PROVE WorkConserving'
    <3>1. waiting' = waiting /\ tasks' = tasks
      BY <2>1 DEF CreateThread
    <3>2. awake \subseteq awake'
      BY <2>1 DEF CreateThread, awake
    <3> QED
      BY <1>a, <3>1, <3>2, AwakeCount
  <2>2. CASE DestroyBroadcast
    BY <2>2 DEF DestroyBroadcast, Broadcast
  <2>3. ASSUME \/ StartThreadpool \/ CreateFails \/ StartReturns \/ DestroyLock
               \/ Join \/ JoinUndefined \/ DestroyReturns \/ Destruct
        PROVE  Calm
    BY <2>3 DEF StartThreadpool, CreateFails, StartReturns, DestroyLock, Join, JoinUndefined,
                DestroyReturns, Destruct, workervars
  <2> QED
    BY <1>0, <1>1, <2>1, <2>2, <2>3 DEF MainStep
<1>2. ASSUME NEW w \in Workers, Lock(w) \/ Relock(w) PROVE WorkConserving'
  <2>1. awake' = awake /\ tasks' = tasks /\ waiting' = waiting
    BY <1>2 DEF Lock, Relock, awake
  <2> QED
    BY <2>1
<1>3. ASSUME NEW w \in Workers, DecideSleep(w) \/ Sleep(w) PROVE WorkConserving'
  <2>1. tasks' = <<>>
    BY <1>3 DEF DecideSleep, Sleep, SleepInv
  <2> QED
    BY <2>1, AwakeCount
<1>4. ASSUME NEW w \in Workers, SpuriousWake(w) \/ Finish(w) PROVE WorkConserving'
  <2>1. tasks' = tasks /\ waiting' \subseteq waiting
    BY <1>4 DEF SpuriousWake, Finish
  <2>2. awake \subseteq awake'
    BY <1>4 DEF SpuriousWake, Finish, awake
  <2> QED
    BY <1>a, <2>1, <2>2, AwakeCount
<1>5. ASSUME NEW w \in Workers, Take(w) PROVE WorkConserving'
  <2>1. waiting' = waiting /\ Len(tasks') = Len(tasks) - 1
    BY <1>5 DEF Take, PopFront
  <2>2. w \in awake /\ awake' = awake \ {w}
    BY <1>5 DEF Take, awake
  <2>3. Cardinality(awake') = Cardinality(awake) - 1
    BY <2>2, AwakeStep
  <2> QED
    BY <1>a, <2>1, <2>3, AwakeCount
<1>6. ASSUME NEW w \in Workers, Leave(w) PROVE WorkConserving'
  <2>1. mpc # "stopping"
    BY <1>6, DistinctThreads DEF Leave, LockInv
  <2> QED
    BY <1>6, <2>1 DEF Leave, StopSeen
<1>7. ASSUME NEW s \in Submitters, SubmitStep(s) PROVE WorkConserving'
  <2>1. ASSUME (\E t \in Tasks : AddLock(s, t)) \/ AddRefuse(s) PROVE Calm
    BY <2>1 DEF AddLock, AddRefuse, workervars
  <2>2. CASE AddPush(s)
    <3>1. Len(tasks') = Len(tasks) + 1
      BY <2>2 DEF AddPush, HasTask
    <3>2. CASE waiting = {} /\ wpc' = wpc
      BY <3>2
    <3>3. ASSUME NEW w \in waiting, wpc' = [wpc EXCEPT ![w] = "relock"]
          PROVE  WorkConserving'
      <4>1. w \notin awake /\ awake' = awake \cup {w}
        BY <3>3 DEF awake
      <4>2. Cardinality(awake') = Cardinality(awake) + 1
        BY <4>1, AwakeStep
      <4> QED
        BY <1>a, <3>1, <3>3, <4>2, AwakeCount
    <3> QED
      BY <2>2, <3>2, <3>3 DEF AddPush, Signal
  <2> QED
    BY <1>0, <1>7, <2>1, <2>2 DEF SubmitStep
<1>8. ASSUME UNCHANGED vars PROVE Calm
  BY <1>8 DEF vars, workervars
<1> QED
  BY <1>0, <1>1, <1>2, <1>3, <1>4, <1>5, <1>6, <1>7, <1>8
     DEF Next, WorkerStep, Terminated

\* The invariant of the wait loop, and with it the two properties below.
THEOREM WaitLoop == Spec => []WaitInv
<1>1. WaitInv /\ [Next]_vars => WaitInv'
  <2> SUFFICES ASSUME WaitInv, [Next]_vars PROVE WaitInv'
    OBVIOUS
  <2>1. TypeInv'
    BY TypeNext DEF WaitInv
  <2> QED
    BY <2>1, LockNext, CountNext DEF WaitInv
<1> QED
  BY <1>1, WaitInit, PTL DEF Spec

\* No wakeup is lost, for any number of threads and tasks: add_task's one signal
\* per task is enough.
THEOREM NoLostWakeup == Spec => []WorkConserving
<1>1. WaitInv => WorkConserving
  BY DEF WaitInv
<1> QED
  BY <1>1, WaitLoop, PTL

\* No worker sleeps through destroy_threadpool, for any number of threads.
THEOREM StopIsSeen == Spec => []StopSeen
<1>1. WaitInv => StopSeen
  BY DEF WaitInv
<1> QED
  BY <1>1, WaitLoop, PTL

-----------------------------------------------------------------------------
(* The queue discipline *)

\* A step of the pool is a step of TaskPool, or changes nothing TaskPool shows.
LEMMA StepRefines ==
  ASSUME WaitInv, [Next]_vars
  PROVE  [Abstract!Next]_Abstract!vars
<1> USE DEF WaitInv, TypeInv, HasTask, TypeOK, Abstract!Next, Abstract!vars
<1> DEFINE Same == tasks' = tasks /\ wtask' = wtask /\ pool_state' = pool_state
<1>1. ASSUME Same PROVE UNCHANGED Abstract!vars
  BY <1>1
<1>2. CASE StartThreadpool
  BY <1>2 DEF StartThreadpool, Abstract!Open, workervars
<1>3. CASE DestroyLock
  BY <1>3 DEF DestroyLock, Abstract!Close, workervars
<1>4. ASSUME NEW w \in Workers, Take(w) PROVE Abstract!Start(w)
  BY <1>4 DEF Take, PopFront, Abstract!Start, StartedInv
<1>5. ASSUME NEW w \in Workers, Finish(w) PROVE Abstract!Finish(w)
  BY <1>5 DEF Finish, Abstract!Finish
<1>6. ASSUME NEW s \in Submitters, AddPush(s)
      PROVE  \E t \in Tasks : Abstract!Submit(t)
  BY <1>6 DEF AddPush, Abstract!Submit
<1>7. ASSUME NEW w \in Workers,
             \/ Lock(w) \/ Relock(w) \/ DecideSleep(w) \/ Sleep(w)
             \/ SpuriousWake(w) \/ Leave(w)
      PROVE  Same
  BY <1>7 DEF Lock, Relock, DecideSleep, Sleep, SpuriousWake, Leave
<1>8. ASSUME \/ \E w \in Workers : CreateThread(w)
             \/ CreateFails \/ StartReturns \/ DestroyBroadcast
             \/ Join \/ JoinUndefined \/ DestroyReturns \/ Destruct \/ UNCHANGED vars
      PROVE  Same
  BY <1>8 DEF CreateThread, CreateFails, StartReturns, DestroyBroadcast, Join, JoinUndefined,
              DestroyReturns, Destruct, vars, workervars
<1>9. ASSUME NEW s \in Submitters, (\E t \in Tasks : AddLock(s, t)) \/ AddRefuse(s)
      PROVE  Same
  BY <1>9 DEF AddLock, AddRefuse, workervars
<1> QED
  BY <1>1, <1>2, <1>3, <1>4, <1>5, <1>6, <1>7, <1>8, <1>9
     DEF Next, MainStep, WorkerStep, SubmitStep, Terminated

\* The pool is a first-in first-out queue that starts tasks only while it is
\* started, whatever its threads do.
THEOREM PoolRefinesTaskPool == Spec => ImplementsTaskPool
<1>1. Init => Abstract!Init
  BY DEF Init, Abstract!Init
<1>2. WaitInv /\ [Next]_vars => [Abstract!Next]_Abstract!vars
  BY StepRefines
<1> QED
  BY <1>1, <1>2, WaitLoop, PTL DEF Spec, ImplementsTaskPool, Abstract!Spec

-----------------------------------------------------------------------------
(* The joins *)

\* A pool started once: the handles are those of this start, in front of idx
\* every thread is joined, and no thread is without a handle.
JoinInv ==
    /\ starts = 0 <=> pool_state = "new"
    /\ starts = 0 => threads = <<>>
    /\ mpc \in {"stopping", "joining"} => pool_state = "stopped"
    /\ mpc = "gone" => pool_state # "started"
    /\ \A w \in Workers :
          wpc[w] # "uncreated" => \E i \in 1..Len(threads) : threads[i] = w
    /\ Len(threads) <= pool_size
    /\ mpc = "creating" => idx = Len(threads)
    /\ \A w \in joined : wpc[w] = "exited"
    /\ mpc = "joining" => \A i \in 1..Len(threads) :
          i <= idx => wpc[threads[i]] = "exited"

OnceInv == WaitInv /\ JoinInv /\ JoinedAll

LEMMA JoinInit == Init => JoinInv /\ JoinedAll
<1> SUFFICES ASSUME Init PROVE JoinInv /\ JoinedAll
  OBVIOUS
<1>1. Len(threads) <= pool_size
  BY PoolAssumption DEF Init
<1> QED
  BY <1>1 DEF Init, JoinInv, JoinedAll

\* A step of a worker moves this worker only, and only one that lives ...
LEMMA WorkerMoves ==
  ASSUME wpc \in [Workers -> WorkerStates], NEW w \in Workers, WorkerStep(w)
  PROVE  /\ wpc[w] \notin {"uncreated", "exited"}
         /\ wpc'[w] # "uncreated"
         /\ \A v \in Workers \ {w} : wpc'[v] = wpc[v]
<1>1. CASE Lock(w) \/ Relock(w)
  BY <1>1 DEF Lock, Relock
<1>2. CASE DecideSleep(w) \/ Sleep(w) \/ SpuriousWake(w)
  BY <1>2 DEF DecideSleep, Sleep, SpuriousWake, waiting
<1>3. CASE Take(w) \/ Leave(w) \/ Finish(w)
  BY <1>3 DEF Take, Leave, Finish
<1> QED
  BY <1>1, <1>2, <1>3 DEF WorkerStep

\* ... and leaves the main thread's variables alone.
LEMMA WorkerFrame ==
  ASSUME NEW w \in Workers, WorkerStep(w)
  PROVE  UNCHANGED <<pool_size, pool_state, threads, joined, mpc, idx, starts>>
<1>1. CASE Lock(w) \/ Relock(w) \/ DecideSleep(w) \/ Sleep(w)
  BY <1>1 DEF Lock, Relock, DecideSleep, Sleep, conf, mainvars
<1>2. CASE SpuriousWake(w) \/ Take(w) \/ Leave(w) \/ Finish(w)
  BY <1>2 DEF SpuriousWake, Take, Leave, Finish, conf, mainvars
<1> QED
  BY <1>1, <1>2 DEF WorkerStep

\* With one start no step leaves a thread behind.
LEMMA JoinNext ==
  ASSUME MaxStarts = 1, OnceInv, [Next]_vars
  PROVE  JoinInv' /\ JoinedAll'
<1> DEFINE Goal == JoinInv /\ JoinedAll
<1> SUFFICES Goal'
  OBVIOUS
<1>0. pool_size \in Nat /\ Len(threads) \in Nat
  BY PoolAssumption DEF OnceInv, WaitInv, TypeInv, TypeOK
<1> USE <1>0, DistinctThreads
        DEF OnceInv, WaitInv, TypeInv, TypeOK, StartedInv, LockInv, JoinInv, JoinedAll,
            conf, lockvars, mainvars, workervars, submitvars, MainStates,
            WorkerStates, MoreThreads
<1>1. CASE StartThreadpool
  BY <1>1 DEF StartThreadpool
<1>2. ASSUME NEW w \in Workers, CreateThread(w) PROVE Goal'
  <2>1. /\ Len(threads') = Len(threads) + 1
        /\ threads'[Len(threads) + 1] = w
        /\ \A i \in 1..Len(threads) : threads'[i] = threads[i]
    BY <1>2 DEF CreateThread
  <2>2. \A v \in Workers :
           wpc'[v] # "uncreated" => \E i \in 1..Len(threads') : threads'[i] = v
    BY <1>2, <2>1 DEF CreateThread
  <2> QED
    BY <1>2, <2>1, <2>2 DEF CreateThread
<1>3. CASE CreateFails \/ StartReturns \/ Destruct
  BY <1>3 DEF CreateFails, StartReturns, Destruct
<1>4. CASE DestroyLock
  BY <1>4 DEF DestroyLock
<1>5. CASE DestroyBroadcast
  <2>1. \A w \in Workers :
           /\ wpc'[w] = "uncreated" <=> wpc[w] = "uncreated"
           /\ wpc[w] = "exited" => wpc'[w] = "exited"
    BY <1>5 DEF DestroyBroadcast, Broadcast, waiting
  <2> QED
    BY <1>5, <2>1 DEF DestroyBroadcast
<1>6. CASE Join \/ JoinUndefined
  <2>1. idx < Len(threads) => wpc[threads[idx + 1]] = "exited"
    BY <1>6 DEF Join, JoinUndefined, Handle
  <2>2. CASE Join
    BY <2>2, <2>1 DEF Join
  <2>3. CASE JoinUndefined
    BY <2>3, <2>1 DEF JoinUndefined
  <2> QED
    BY <1>6, <2>2, <2>3
<1>7. CASE DestroyReturns
  <2>1. \A w \in Workers : wpc[w] \in {"uncreated", "exited"}
    BY <1>7 DEF DestroyReturns
  <2> QED
    BY <1>7, <2>1 DEF DestroyReturns
<1>8. ASSUME NEW w \in Workers, WorkerStep(w) PROVE Goal'
  <2>1. /\ wpc[w] \notin {"uncreated", "exited"}
        /\ wpc'[w] # "uncreated"
        /\ \A v \in Workers \ {w} : wpc'[v] = wpc[v]
    BY <1>8, WorkerMoves
  <2>2. UNCHANGED <<pool_size, pool_state, threads, joined, mpc, idx, starts>>
    BY <1>8, WorkerFrame
  <2> QED
    BY <2>1, <2>2
<1>9. ASSUME NEW s \in Submitters, SubmitStep(s) PROVE Goal'
  <2>1. UNCHANGED <<pool_size, pool_state, threads, joined, mpc, idx, starts>>
    BY <1>9 DEF SubmitStep, AddLock, AddRefuse, AddPush
  <2>2. \A w \in Workers :
           /\ wpc'[w] = "uncreated" <=> wpc[w] = "uncreated"
           /\ wpc[w] = "exited" <=> wpc'[w] = "exited"
    BY <1>9 DEF SubmitStep, AddLock, AddRefuse, AddPush, Signal, waiting
  <2> QED
    BY <2>1, <2>2
<1>10. CASE UNCHANGED vars
  BY <1>10 DEF vars
<1> QED
  BY <1>1, <1>2, <1>3, <1>4, <1>5, <1>6, <1>7, <1>8, <1>9, <1>10
     DEF Next, MainStep, Terminated

\* A pool that is started once leaves no thread behind: when destroy_threadpool
\* has returned every worker is gone, even if pthread_create failed in between
\* and the loop joined handles that were never stored.
THEOREM OneStartJoinsAll == MaxStarts = 1 => (Spec => []JoinedAll)
<1> SUFFICES ASSUME MaxStarts = 1 PROVE Spec => []JoinedAll
  OBVIOUS
<1>1. Init => OnceInv
  BY WaitInit, JoinInit DEF OnceInv
<1>2. OnceInv /\ [Next]_vars => OnceInv'
  <2> SUFFICES ASSUME OnceInv, [Next]_vars PROVE OnceInv'
    OBVIOUS
  <2>1. WaitInv'
    BY TypeNext, LockNext, CountNext DEF OnceInv, WaitInv
  <2> QED
    BY <2>1, JoinNext DEF OnceInv
<1>3. OnceInv => JoinedAll
  BY DEF OnceInv
<1> QED
  BY <1>1, <1>2, <1>3, PTL DEF Spec

-----------------------------------------------------------------------------
(* Each accepted task is in one place *)

Queued(t) == \E i \in DOMAIN tasks : tasks[i] = t
Accepted(t) == \E i \in DOMAIN accepted : accepted[i] = t
Runs(t) == \E w \in Workers : wtask[w] = t

\* An accepted task is queued, run or finished, and only one of them.
OnePlace == \A t \in Tasks :
    /\ Accepted(t) <=> Queued(t) \/ Runs(t) \/ t \in finished
    /\ ~(Queued(t) /\ Runs(t))
    /\ t \in finished => ~Queued(t) /\ ~Runs(t)

\* It is once in the queue, and one worker runs it.
OneCopy ==
    /\ \A i, j \in DOMAIN tasks : tasks[i] = tasks[j] => i = j
    /\ \A v, w \in Workers : v # w /\ wtask[v] \in Tasks => wtask[v] # wtask[w]

\* A task on its way into the queue is not there yet, and no other call has it.
Arriving ==
    /\ \A t \in Tasks : Accepted(t) => t \in offered
    /\ \A s \in Submitters : spc[s] = "locked" => stask[s] \in offered /\ ~Accepted(stask[s])
    /\ \A r, s \in Submitters :
          r # s /\ spc[r] = "locked" /\ spc[s] = "locked" => stask[r] # stask[s]

PlaceInv == OnePlace /\ OneCopy /\ Arriving

\* The places of the tasks change in five steps only.
LEMMA TasksMove ==
  ASSUME [Next]_vars
  PROVE  \/ UNCHANGED <<tasks, accepted, finished, offered, wtask, spc, stask>>
         \/ \E w \in Workers : Take(w) \/ Finish(w)
         \/ \E s \in Submitters : AddRefuse(s) \/ AddPush(s) \/ \E t \in Tasks : AddLock(s, t)
BY DEF Next, vars, MainStep, StartThreadpool, CreateThread, CreateFails, StartReturns,
       DestroyLock, DestroyBroadcast, Join, JoinUndefined, DestroyReturns, Destruct,
       WorkerStep, Lock, Relock, DecideSleep, Sleep, SpuriousWake, Leave, SubmitStep,
       Terminated, workervars, submitvars

\* The front of the queue goes to a worker that ran nothing.
LEMMA OnceTake ==
  ASSUME TypeInv, PlaceInv, NEW w \in Workers, Take(w)
  PROVE  PlaceInv'
<1> SUFFICES ASSUME NEW h, h = tasks[1] PROVE PlaceInv'
  OBVIOUS
<1>1. /\ UNCHANGED <<accepted, finished, offered, spc, stask>>
      /\ wtask[w] = NoTask /\ NoTask \notin Tasks
  BY DistinctThreads DEF Take, TypeInv, HasTask, submitvars
<1>2. /\ h \in Tasks /\ 1 \in DOMAIN tasks
      /\ \A i \in DOMAIN tasks' : i + 1 \in DOMAIN tasks /\ tasks'[i] = tasks[i + 1]
      /\ \A i \in DOMAIN tasks : i # 1 => i - 1 \in DOMAIN tasks' /\ i = (i - 1) + 1
      /\ \A i \in DOMAIN tasks' : i \in Nat /\ i + 1 # 1
  BY DEF Take, PopFront, TypeInv, TypeOK
<1>3. wtask' = [wtask EXCEPT ![w] = h]
  BY <1>2 DEF Take, PopFront, TypeInv, TypeOK
<1>4. wtask'[w] = h /\ \A v \in Workers : v # w => wtask'[v] = wtask[v]
  BY <1>3 DEF TypeInv, TypeOK
<1>5. \A t \in Tasks : Queued(t) <=> Queued(t)' \/ t = h
  <2>1. ASSUME NEW t \in Tasks, Queued(t), t # h PROVE Queued(t)'
    <3>1. PICK i \in DOMAIN tasks : tasks[i] = t /\ i # 1
      BY <2>1 DEF Queued
    <3>2. tasks'[i - 1] = t /\ i - 1 \in DOMAIN tasks'
      BY <1>2, <3>1
    <3> QED
      BY <3>2 DEF Queued
  <2> QED
    BY <1>2, <2>1 DEF Queued
<1>6. ~Queued(h)'
  BY <1>2 DEF Queued, PlaceInv, OneCopy
<1>7. \A t \in Tasks : Runs(t)' <=> Runs(t) \/ t = h
  BY <1>1, <1>4 DEF Runs
<1>8. \A t : Accepted(t)' <=> Accepted(t)
  BY <1>1 DEF Accepted
<1>9. OnePlace'
  BY <1>1, <1>5, <1>6, <1>7, <1>8 DEF PlaceInv, OnePlace
<1>10. OneCopy'
  <2>1. \A i, j \in DOMAIN tasks' : tasks'[i] = tasks'[j] => i = j
    BY <1>2 DEF PlaceInv, OneCopy
  <2>2. ~Runs(h)
    BY <1>2 DEF PlaceInv, OnePlace, Queued
  <2>3. \A u, v \in Workers : u # v /\ wtask'[u] \in Tasks => wtask'[u] # wtask'[v]
    BY <1>4, <2>2 DEF PlaceInv, OneCopy, Runs
  <2> QED
    BY <2>1, <2>3 DEF OneCopy
<1>11. Arriving'
  BY <1>1, <1>8 DEF PlaceInv, Arriving
<1> QED
  BY <1>9, <1>10, <1>11 DEF PlaceInv

LEMMA OnceFinish ==
  ASSUME TypeInv, PlaceInv, NEW w \in Workers, Finish(w)
  PROVE  PlaceInv'
<1>1. /\ UNCHANGED <<tasks, accepted, offered, spc, stask>>
      /\ wtask[w] \in Tasks /\ NoTask \notin Tasks /\ finished' = finished \cup {wtask[w]}
      /\ wtask'[w] = NoTask /\ \A v \in Workers : v # w => wtask'[v] = wtask[v]
  BY DistinctThreads DEF Finish, TypeInv, TypeOK, HasTask, submitvars
<1>2. \A t : (Accepted(t)' <=> Accepted(t)) /\ (Queued(t)' <=> Queued(t))
  BY <1>1 DEF Accepted, Queued
<1>3. \A t \in Tasks : Runs(t)' <=> Runs(t) /\ t # wtask[w]
  <2>1. \A v \in Workers : v # w => wtask[v] # wtask[w]
    BY <1>1 DEF PlaceInv, OneCopy
  <2> QED
    BY <1>1, <2>1 DEF Runs
<1>4. Runs(wtask[w])
  BY DEF Runs
<1>5. OnePlace'
  BY <1>1, <1>2, <1>3, <1>4 DEF PlaceInv, OnePlace
<1>6. OneCopy'
  BY <1>1 DEF PlaceInv, OneCopy
<1>7. Arriving'
  BY <1>1, <1>2 DEF PlaceInv, Arriving
<1> QED
  BY <1>5, <1>6, <1>7 DEF PlaceInv

\* A submitter comes in with a task nobody offered before, or is sent away with it.
LEMMA OnceOutside ==
  ASSUME TypeInv, PlaceInv, NEW s \in Submitters,
         AddRefuse(s) \/ \E t \in Tasks : AddLock(s, t)
  PROVE  PlaceInv'
<1>1. UNCHANGED <<tasks, accepted, finished, wtask>>
  BY DEF AddRefuse, AddLock, workervars
<1>2. \A t : /\ Accepted(t)' <=> Accepted(t)
             /\ Queued(t)' <=> Queued(t)
             /\ Runs(t)' <=> Runs(t)
  BY <1>1 DEF Accepted, Queued, Runs
<1>3. OnePlace' /\ OneCopy'
  BY <1>1, <1>2 DEF PlaceInv, OnePlace, OneCopy
<1>4. CASE AddRefuse(s)
  <2>1. /\ offered' = offered /\ spc'[s] = "idle"
        /\ \A r \in Submitters : r # s => spc'[r] = spc[r] /\ stask'[r] = stask[r]
    BY <1>4 DEF AddRefuse, TypeInv, TypeOK
  <2> QED
    BY <1>2, <1>3, <2>1 DEF PlaceInv, Arriving
<1>5. ASSUME NEW t \in Tasks, AddLock(s, t) PROVE PlaceInv'
  <2>1. /\ t \notin offered /\ offered' = offered \cup {t} /\ stask'[s] = t
        /\ \A r \in Submitters : r # s => spc'[r] = spc[r] /\ stask'[r] = stask[r]
    BY <1>5 DEF AddLock, TypeInv, TypeOK
  <2>2. ~Accepted(t)
    BY <2>1 DEF PlaceInv, Arriving
  <2>3. Arriving'
    BY <1>2, <2>1, <2>2 DEF PlaceInv, Arriving
  <2> QED
    BY <1>3, <2>3 DEF PlaceInv
<1> QED
  BY <1>4, <1>5

\* The task goes in as it is accepted.
LEMMA OncePush ==
  ASSUME TypeInv, PlaceInv, NEW s \in Submitters, AddPush(s)
  PROVE  PlaceInv'
<1> SUFFICES ASSUME NEW t, t = stask[s] PROVE PlaceInv'
  OBVIOUS
<1>1. /\ t \in Tasks /\ ~Accepted(t) /\ t \in offered /\ spc[s] = "locked"
      /\ UNCHANGED <<finished, offered, wtask>>
      /\ spc'[s] = "idle"
      /\ \A r \in Submitters : r # s => spc'[r] = spc[r] /\ stask'[r] = stask[r]
  BY DEF AddPush, TypeInv, TypeOK, HasTask, PlaceInv, Arriving
<1>2. /\ \A i \in DOMAIN tasks : i \in DOMAIN tasks' /\ tasks'[i] = tasks[i]
      /\ \A i \in DOMAIN tasks' : i \in DOMAIN tasks \/ (i = Len(tasks) + 1 /\ tasks'[i] = t)
      /\ Len(tasks) + 1 \in DOMAIN tasks' /\ tasks'[Len(tasks) + 1] = t
  BY <1>1 DEF AddPush, TypeInv, TypeOK
<1>3. /\ \A i \in DOMAIN accepted : i \in DOMAIN accepted' /\ accepted'[i] = accepted[i]
      /\ \A i \in DOMAIN accepted' :
            i \in DOMAIN accepted \/ (i = Len(accepted) + 1 /\ accepted'[i] = t)
      /\ Len(accepted) + 1 \in DOMAIN accepted' /\ accepted'[Len(accepted) + 1] = t
  BY <1>1 DEF AddPush, TypeInv, TypeOK
<1>4. \A u : Queued(u)' <=> Queued(u) \/ u = t
  BY <1>2 DEF Queued
<1>5. \A u : Accepted(u)' <=> Accepted(u) \/ u = t
  BY <1>3 DEF Accepted
<1>6. \A u : Runs(u)' <=> Runs(u)
  BY <1>1 DEF Runs
<1>7. ~Queued(t) /\ ~Runs(t) /\ t \notin finished
  BY <1>1 DEF PlaceInv, OnePlace
<1>8. OnePlace'
  BY <1>1, <1>4, <1>5, <1>6, <1>7 DEF PlaceInv, OnePlace
<1>9. OneCopy'
  BY <1>1, <1>2, <1>7 DEF PlaceInv, OneCopy, Queued
<1>10. \A r \in Submitters : r # s /\ spc[r] = "locked" => stask[r] # t
  BY <1>1 DEF PlaceInv, Arriving
<1>11. Arriving'
  BY <1>1, <1>5, <1>10 DEF PlaceInv, Arriving
<1> QED
  BY <1>8, <1>9, <1>11 DEF PlaceInv

\* A sequence without repetition has as many elements as places.
LEMMA NoRepetition ==
  ASSUME NEW S, NEW q \in Seq(S), \A i, j \in DOMAIN q : q[i] = q[j] => i = j
  PROVE  Cardinality(ToSet(q)) = Len(q)
<1>1. q \in [1..Len(q) -> ToSet(q)] /\ Len(q) \in Nat /\ DOMAIN q = 1..Len(q)
  BY DEF ToSet
<1>2. q \in Bijection(1..Len(q), ToSet(q))
  BY <1>1 DEF Bijection, Injection, Surjection, ToSet, IsInjective
<1>3. IsFiniteSet(1..Len(q)) /\ Cardinality(1..Len(q)) = Len(q)
  <2>1. IsFiniteSet(1..Len(q))
        /\ Cardinality(1..Len(q)) = IF 1 > Len(q) THEN 0 ELSE Len(q) - 1 + 1
    BY <1>1, FS_Interval
  <2> QED
    BY <1>1, <2>1
<1> QED
  BY <1>2, <1>3, FS_Bijection DEF ExistsBijection

\* What add_task took is queued, run by one worker or finished, never two of
\* these and never twice: no task is lost, run again, or run after a refusal.
THEOREM EachTaskOnce == Spec => []ExactlyOnce
<1>1. Init => PlaceInv
  BY DistinctThreads DEF Init, PlaceInv, OnePlace, OneCopy, Arriving, Accepted, Queued, Runs
<1>2. TypeInv /\ PlaceInv /\ [Next]_vars => PlaceInv'
  <2> SUFFICES ASSUME TypeInv, PlaceInv, [Next]_vars PROVE PlaceInv'
    OBVIOUS
  <2>1. CASE UNCHANGED <<tasks, accepted, finished, offered, wtask, spc, stask>>
    BY <2>1 DEF PlaceInv, OnePlace, OneCopy, Arriving, Accepted, Queued, Runs
  <2> QED
    BY <2>1, TasksMove, OnceTake, OnceFinish, OnceOutside, OncePush
<1>3. TypeInv /\ PlaceInv => ExactlyOnce
  <2> SUFFICES ASSUME TypeInv, PlaceInv PROVE ExactlyOnce
    OBVIOUS
  <2> DEFINE running == {wtask[w] : w \in {x \in Workers : wpc[x] = "running"}}
  <2>1. /\ ToSet(tasks) \subseteq Tasks /\ ToSet(accepted) \subseteq Tasks
        /\ \A t : t \in ToSet(tasks) <=> Queued(t)
        /\ \A t : t \in ToSet(accepted) <=> Accepted(t)
    BY DEF ToSet, Queued, Accepted, TypeInv, TypeOK
  <2>2. running \subseteq Tasks /\ \A t \in Tasks : t \in running <=> Runs(t)
    BY DistinctThreads DEF Runs, TypeInv, TypeOK, HasTask
  <2> HIDE DEF running
  <2>3. finished \subseteq Tasks
    BY DEF TypeInv, TypeOK
  <2>4. ToSet(accepted) = ToSet(tasks) \cup running \cup finished
    BY <2>1, <2>2, <2>3 DEF PlaceInv, OnePlace
  <2>5. ToSet(tasks) \cap running = {} /\ (ToSet(tasks) \cup running) \cap finished = {}
    BY <2>1, <2>2, <2>3 DEF PlaceInv, OnePlace
  <2>6. Cardinality(ToSet(tasks)) = Len(tasks)
    BY NoRepetition DEF TypeInv, TypeOK, PlaceInv, OneCopy
  <2>7. \A v, w \in Workers :
           v # w /\ wpc[v] = "running" /\ wpc[w] = "running" => wtask[v] # wtask[w]
    BY DEF TypeInv, TypeOK, HasTask, PlaceInv, OneCopy
  <2> QED
    BY <2>4, <2>5, <2>6, <2>7 DEF ExactlyOnce, running
<1> QED
  BY <1>1, <1>2, <1>3, TypeInit, TypeNext, PTL DEF Spec

=============================================================================
