--------------------------- MODULE EpollSocketProofs ---------------------------
(***************************************************************************)
(* Theorems about EpollSocket for any connections, workers, descriptors,   *)
(* limits and faults, with and without an idle time.                       *)
(***************************************************************************)
EXTENDS EpollSocket, FiniteSetTheorems, TLAPS

\* The loop has accepted cur and has not registered it yet.
Adding == lpc \in {"adding", "registering"}

\* The contexts that others may refer to.
Registered == {c \in Conns : mem[c] # "none" /\ ~(Adding /\ cur = c)}

\* Where a thread is goes with what it has.
WorkerShape ==
    \A w \in Workers : /\ pc[w] = "idle" <=> job[w] = None
                       /\ pc[w] = "closing" <=> stage[w] # "none"

LoopShape ==
    /\ Adding => cur \in Conns /\ mem[cur] = "live" /\ stage[Loop] = "none"
    /\ stage[Loop] # "none" => cur \in Conns /\ lpc \in {"batch", "reaping"}
    /\ cur # None => Adding \/ stage[Loop] # "none"
    /\ ~Adding /\ lpc \notin {"batch", "accepting"} => batch = {}
    /\ reap # {} => lpc = "reaping"

Shape == WorkerShape /\ LoopShape

\* Whatever refers to a context refers to one that was registered.
Refs ==
    /\ \A f \in FDs : reg[f] # None => reg[f].ptr \in Registered
    /\ \A e \in batch : e # ListenEvent => e.ptr \in Registered
    /\ \A i \in DOMAIN queue : queue[i].ptr \in Registered
    /\ \A w \in Workers : job[w] # None => job[w].ptr \in Registered
    /\ \A c \in reap : c \in Registered
    /\ stage[Loop] # "none" => cur \in Registered
    /\ \A c \in backlog : mem[c] = "none"

\* From on_close to close(fd).
Deleting(p) == stage[p] \in {"remove", "check", "last", "free", "shut"}

\* One thread closes a context, whoever else has begun to.
Closers ==
    /\ \A p \in Threads : stage[p] \in {"remove", "check", "last", "free"} => mem[Cur(p)] = "closed"
    /\ \A p \in Threads : stage[p] = "shut" => mem[Cur(p)] = "freed"
    /\ \A p, q \in Threads : Deleting(p) /\ Deleting(q) /\ Cur(p) = Cur(q) => p = q

\* The table has the contexts from add_client to remove_client.
Table ==
    /\ ClientsMatch
    /\ \A c \in Conns : mem[c] = "live" => c \in eclients \/ (lpc = "adding" /\ cur = c)
    /\ lpc = "adding" => cur \notin eclients
    /\ \A p \in Threads : stage[p] = "remove" => Cur(p) \in eclients
    /\ \A p \in Threads : stage[p] \in {"check", "last", "free", "shut"} => Cur(p) \notin eclients

\* A descriptor is taken from accept to close(fd).
Sockets ==
    /\ \A f \in FDs : sock[f] # None => fdof[sock[f]] = f /\ mem[sock[f]] # "none"
    /\ \A c \in Conns : Held(c) => fdof[c] \in FDs /\ sock[fdof[c]] = c
    /\ \A p \in Threads :
          stage[p] = "shut" => fdof[Cur(p)] \in FDs /\ sock[fdof[Cur(p)]] = Cur(p)

Inv == TypeOK /\ Shape /\ Refs /\ Closers /\ Table /\ Sockets


\* The context a thread closes.
LEMMA CurType ==
  ASSUME Inv, NEW p \in Threads, stage[p] # "none"
  PROVE  Cur(p) \in Conns /\ Cur(p) \in Registered
<1>1. CASE p = Loop
  BY <1>1 DEF Inv, Shape, WorkerShape, LoopShape, Refs, Cur
<1>2. CASE p # Loop
  <2>1. p \in Workers /\ job[p] # None
    BY <1>2 DEF Inv, Shape, WorkerShape, LoopShape, Threads
  <2> QED
    BY <1>2, <2>1 DEF Inv, TypeOK, Refs, Cur, Task
<1> QED
  BY <1>1, <1>2

LEMMA ClosersFrame ==
  ASSUME Inv, UNCHANGED <<mem, stage>>,
         \A p \in Threads : stage[p] # "none" => Cur(p)' = Cur(p)
  PROVE  Closers'
BY DEF Inv, Closers, Deleting

LEMMA ClosersLoop ==
  ASSUME Inv, LoopStep
  PROVE  Closers'
<1> USE SocketAssumption DEF Inv, TypeOK, Shape, WorkerShape, LoopShape, Closers, Deleting, Cur, Threads, pool, contexts, loop, table, peers, epoll, workers, Handles
<1>1. CASE UNCHANGED <<mem, job, cur, stage>>
  BY <1>1
<1>2. ASSUME NEW c \in Conns, Accept(c) PROVE Closers'
  BY <1>2 DEF Accept, Refs, Registered
<1>3. CASE Register
  BY <1>3 DEF Register
<1>4. CASE RegisterFails
  BY <1>4 DEF RegisterFails
<1>5. ASSUME NEW e \in batch, EnqueueFails(e) PROVE Closers'
  BY <1>5 DEF EnqueueFails
<1>6. ASSUME NEW c \in Conns, Reap(c) PROVE Closers'
  BY <1>6 DEF Reap
<1> QED
  BY <1>1, <1>2, <1>3, <1>4, <1>5, <1>6 DEF LoopStep, Boot, BootFails, Run, Wait, LoopExit, AcceptRefused, Admit, AcceptFails, AddClient, Enqueue, Collect, CheckStop, InitTp, Pool!Open, Pool!Submit

LEMMA ClosersWorker ==
  ASSUME Inv, NEW w \in Workers, WorkerStep(w)
  PROVE  Closers'
<1> USE SocketAssumption DEF Inv, TypeOK, Shape, WorkerShape, LoopShape, Closers, Deleting, Cur, Threads, pool, contexts, loop, table, peers, epoll, workers, Closes, Wants
<1>1. CASE UNCHANGED <<mem, job, cur, stage>>
  BY <1>1
<1>2. CASE StartTask(w) \/ EndTask(w)
  <2>1. stage[w] = "none" /\ UNCHANGED <<mem, cur, stage>>
    BY <1>2 DEF StartTask, Pool!Start, EndTask
  <2>2. \A p \in Threads : p # w => Cur(p)' = Cur(p)
    <3>1. \A v \in Workers : v # w => job'[v] = job[v]
      BY <1>2 DEF StartTask, Pool!Start, EndTask, Pool!Finish
    <3> QED
      BY <2>1, <3>1
  <2> QED
    BY <2>1, <2>2, ClosersFrame
<1>3. CASE Read(w) \/ WriteLast(w)
  <2>1. UNCHANGED <<mem, job, cur>> /\ (stage' = stage \/ stage' = [stage EXCEPT ![w] = "del"])
    BY <1>3 DEF Read, WriteLast
  <2>2. CASE stage' = stage
    BY <1>1, <2>1, <2>2
  <2>3. CASE stage' = [stage EXCEPT ![w] = "del"]
    <3>1. stage'[w] = "del" /\ \A p \in Threads : p # w => stage'[p] = stage[p]
      BY <2>3
    <3> QED
      BY <2>1, <3>1
  <2> QED
    BY <2>1, <2>2, <2>3
<1> QED
  BY <1>1, <1>2, <1>3 DEF WorkerStep, Interrupted, List, ListClient, Listed, Mark, WritePart, Rearm, Late

LEMMA ClosersClose ==
  ASSUME Inv, NEW p \in Threads, CloseStep(p)
  PROVE  Closers'
<1> USE DEF Inv, TypeOK, Closers, Deleting, contexts
<1>1. CASE CloseShut(p)
  <2>1. \A q \in Threads : q # p => Cur(q)' = Cur(q)
    BY <1>1, SocketAssumption DEF CloseShut, Cur, pool, Threads
  <2> QED
    BY <1>1, <2>1 DEF CloseShut
<1>2. CASE ~CloseShut(p)
  <2>1. \A q \in Threads : Cur(q)' = Cur(q)
    BY <1>2 DEF CloseStep, CloseDel, CloseRemove, CloseCheck, CloseLast, CloseFree, Cur, pool, loop
  <2>2. CASE CloseDel(p)
    <3>1. mem[Cur(p)] = "live" /\ Cur(p) \in Conns
      BY <2>2, CurType DEF CloseDel, Broken
    <3> QED
      BY <2>1, <2>2, <3>1 DEF CloseDel
  <2>3. CASE CloseRemove(p)
    BY <2>1, <2>3 DEF CloseRemove
  <2>4. CASE CloseCheck(p) \/ CloseLast(p)
    <3>1. UNCHANGED mem /\ \E s \in {"last", "free"} : stage' = [stage EXCEPT ![p] = s]
      BY <2>4 DEF CloseCheck, CloseLast
    <3>2. stage[p] \in {"check", "last"} /\ stage'[p] \in {"last", "free"}
      BY <2>4, <3>1 DEF CloseCheck, CloseLast
    <3>3. \A q \in Threads : q # p => stage'[q] = stage[q]
      BY <3>1
    <3> QED
      BY <2>1, <3>1, <3>2, <3>3
  <2>5. CASE CloseFree(p)
    <3>1. Cur(p) \in Conns
      BY <2>5, CurType DEF CloseFree
    <3> QED
      BY <2>1, <2>5, <3>1 DEF CloseFree
  <2> QED
    BY <1>2, <2>2, <2>3, <2>4, <2>5 DEF CloseStep
<1> QED
  BY <1>1, <1>2

\* Steps that touch neither contexts nor threads nor what refers to a context.
Outside == PeerStep \/ Tick \/ StopStep \/ Abort \/ UNCHANGED vars

LEMMA OutsideKeeps ==
  ASSUME Inv, Outside
  PROVE  Shape' /\ Refs' /\ Closers' /\ Table' /\ Sockets'
<1>1. UNCHANGED <<clients, eclients, mem, fdof, sock, reg, lpc, batch, reap, cur, queue, job, pc, stage>>
  BY DEF Outside, PeerStep, Tick, StopStep, StopReject, StopPool, StopReturns, JoinReturns,
         Abort, Pool!Close, vars, table, contexts, epoll, loop, pool, workers
<1>2. \A c \in backlog' : mem[c] = "none"
  BY DEF Inv, Refs, Outside, PeerStep, Connect, Send, Hangup, Tick, StopStep, Abort, vars, peers
<1>3. \A p \in Threads : Cur(p)' = Cur(p)
  BY <1>1 DEF Cur
<1>4. Registered' = Registered /\ \A c : Held(c)' = Held(c)
  BY <1>1 DEF Registered, Adding, Held
<1>5. Shape'
  BY <1>1 DEF Inv, Shape, WorkerShape, LoopShape, Adding
<1>6. Refs'
  BY <1>1, <1>2, <1>4 DEF Inv, Refs
<1>7. Closers'
  BY <1>1, <1>3, ClosersFrame
<1>8. Table'
  BY <1>1, <1>3, <1>4 DEF Inv, Table, ClientsMatch
<1>9. Sockets'
  BY <1>1, <1>3, <1>4 DEF Inv, Sockets
<1> QED
  BY <1>5, <1>6, <1>7, <1>8, <1>9

LEMMA ShapeLoop ==
  ASSUME Inv, LoopStep
  PROVE  Shape'
<1> USE SocketAssumption DEF Inv, TypeOK, Shape, WorkerShape, LoopShape, Adding, Threads, contexts, loop, pool, workers
<1>1. CASE Boot \/ BootFails \/ Run \/ LoopExit \/ Wait
  BY <1>1 DEF Boot, BootFails, Run, LoopExit, Wait, InitTp, Pool!Open
<1>2. CASE AcceptRefused \/ Admit \/ AcceptFails
  BY <1>2 DEF AcceptRefused, Admit, AcceptFails, Handles
<1>3. ASSUME NEW c \in Conns, Accept(c) PROVE Shape'
  BY <1>3 DEF Accept, Handles
<1>4. CASE AddClient \/ Register \/ RegisterFails
  BY <1>4 DEF AddClient, Register, RegisterFails
<1>5. ASSUME NEW e \in batch, Enqueue(e) PROVE Shape'
  BY <1>5 DEF Enqueue, Handles, Pool!Submit
<1>6. ASSUME NEW e \in batch, EnqueueFails(e) PROVE Shape'
  BY <1>6 DEF EnqueueFails, Handles, Event
<1>7. CASE Collect \/ CheckStop
  BY <1>7 DEF Collect, CheckStop
<1>8. ASSUME NEW c \in Conns, Reap(c) PROVE Shape'
  BY <1>8 DEF Reap
<1> QED
  BY <1>1, <1>2, <1>3, <1>4, <1>5, <1>6, <1>7, <1>8 DEF LoopStep

\* What the pool does with its queue and its workers.
LEMMA TaskTaken ==
  ASSUME Inv, NEW w \in Workers, StartTask(w)
  PROVE  /\ Head(queue) \in Task /\ Head(queue) = queue[1] /\ 1 \in DOMAIN queue
         /\ queue' \in Seq(Task) /\ Len(queue') = Len(queue) - 1
         /\ \A i \in DOMAIN queue' : i + 1 \in DOMAIN queue /\ queue'[i] = queue[i + 1]
         /\ job' = [job EXCEPT ![w] = Head(queue)] /\ job[w] = None
<1>1. queue \in Seq(Task) /\ queue # <<>> /\ queue' = Tail(queue)
  BY DEF Inv, TypeOK, StartTask, Pool!Start
<1>2. Head(queue) \in Task /\ queue' \in Seq(Task)
  BY <1>1
<1>3. Head(queue) = queue[1] /\ 1 \in DOMAIN queue /\ Len(queue') = Len(queue) - 1
  BY <1>1
<1>4. \A i \in DOMAIN queue' : i + 1 \in DOMAIN queue /\ queue'[i] = queue[i + 1]
  BY <1>1
<1> QED
  BY <1>2, <1>3, <1>4 DEF StartTask, Pool!Start

LEMMA TaskQueued ==
  ASSUME Inv, NEW t \in Task, Pool!Submit(t)
  PROVE  /\ queue' \in Seq(Task) /\ Len(queue') = Len(queue) + 1
         /\ \A i \in DOMAIN queue : i \in DOMAIN queue' /\ queue'[i] = queue[i]
         /\ \A i \in DOMAIN queue' : i \in DOMAIN queue \/ (i = Len(queue) + 1 /\ queue'[i] = t)
         /\ Len(queue) + 1 \in DOMAIN queue' /\ queue'[Len(queue) + 1] = t
         /\ job' = job
<1>1. queue \in Seq(Task) /\ queue' = Append(queue, t) /\ job' = job
  BY DEF Inv, TypeOK, Pool!Submit
<1> QED
  BY <1>1

LEMMA ShapeWorker ==
  ASSUME Inv, NEW w \in Workers, WorkerStep(w)
  PROVE  Shape'
<1>1. LoopShape'
  <2>1. UNCHANGED <<mem, lpc, batch, reap, cur>> /\ stage'[Loop] = stage[Loop]
    BY SocketAssumption
       DEF WorkerStep, StartTask, EndTask, Read, Interrupted, WriteLast, List, ListClient, Listed, Mark,
           WritePart, Rearm, Late, Closes, Wants, contexts, loop, Inv, TypeOK, Threads
  <2> QED
    BY <2>1 DEF Inv, Shape, LoopShape, Adding
<1>2. WorkerShape'
  <2> USE DEF Inv, TypeOK, Shape, WorkerShape, Threads
  <2>1. CASE StartTask(w)
    <3>1. Head(queue) # None /\ job' = [job EXCEPT ![w] = Head(queue)] /\ job[w] = None
      BY <2>1, TaskTaken, SocketAssumption
    <3> QED
      BY <2>1, <3>1 DEF StartTask
  <2>2. CASE EndTask(w)
    <3>1. job' = [job EXCEPT ![w] = None] /\ pc' = [pc EXCEPT ![w] = "idle"] /\ stage[w] = "none"
      BY <2>2 DEF EndTask, Pool!Finish
    <3> QED
      BY <2>2, <3>1 DEF EndTask
  <2>3. CASE Read(w) \/ Interrupted(w) \/ WriteLast(w)
    <3>1. UNCHANGED job /\ pc[w] = "io"
      BY <2>3 DEF Read, Interrupted, WriteLast, pool
    <3>2. CASE Closes(w)
      BY <3>1, <3>2 DEF Closes
    <3>3. CASE \E m \in {"in", "out"}, next \in {"mark", "rearm"} : Wants(w, m, next)
      BY <3>1, <3>3 DEF Wants
    <3> QED
      BY <2>3, <3>2, <3>3 DEF Read, Interrupted, WriteLast
  <2>4. CASE List(w) \/ ListClient(w) \/ Listed(w)
    BY <2>4 DEF List, ListClient, Listed, Wants, pool
  <2>5. CASE Mark(w) \/ WritePart(w) \/ Rearm(w) \/ Late(w)
    BY <2>5 DEF Mark, WritePart, Rearm, Late, Wants, pool
  <2> QED
    BY <2>1, <2>2, <2>3, <2>4, <2>5 DEF WorkerStep
<1> QED
  BY <1>1, <1>2 DEF Shape

LEMMA ShapeClose ==
  ASSUME Inv, NEW p \in Threads, CloseStep(p)
  PROVE  Shape'
<1> USE SocketAssumption DEF Inv, TypeOK, Shape, WorkerShape, LoopShape, Adding, Threads, contexts, loop, pool, workers
<1>1. CASE CloseDel(p) \/ CloseFree(p)
  <2>1. Cur(p) \in Registered
    BY <1>1, CurType DEF CloseDel, CloseFree
  <2>2. Adding => mem'[cur] = "live"
    BY <1>1, <2>1 DEF CloseDel, CloseFree, Registered
  <2> QED
    BY <1>1, <2>2 DEF CloseDel, CloseFree
<1>2. CASE CloseRemove(p) \/ CloseCheck(p) \/ CloseLast(p)
  BY <1>2 DEF CloseRemove, CloseCheck, CloseLast
<1>3. CASE CloseShut(p)
  BY <1>3 DEF CloseShut
<1> QED
  BY <1>1, <1>2, <1>3 DEF CloseStep

\* What is registered once stays so.
LEMMA RegisteredKept ==
  ASSUME Inv, Next
  PROVE  Registered \subseteq Registered'
<1> USE DEF Inv, TypeOK, Shape, WorkerShape, LoopShape, Registered, Adding, Threads, contexts, loop
<1>1. CASE Outside
  BY <1>1, OutsideKeeps DEF Outside, PeerStep, Tick, StopStep, Abort, vars
<1>2. CASE LoopStep
  <2>1. ASSUME NEW c \in Conns, Accept(c) PROVE Registered \subseteq Registered'
    BY <2>1 DEF Accept, Refs
  <2>2. CASE UNCHANGED mem /\ (Adding' => Adding /\ cur' = cur)
    BY <2>2
  <2> QED
    BY <1>2, <2>1, <2>2 DEF LoopStep, Boot, BootFails, Run, LoopExit, Wait, AcceptRefused, Admit, AcceptFails, Handles,
        AddClient, Register, RegisterFails, Enqueue, EnqueueFails, Collect, CheckStop, Reap
<1>3. ASSUME NEW w \in Workers, WorkerStep(w) PROVE Registered \subseteq Registered'
  BY <1>3 DEF WorkerStep, StartTask, EndTask, Read, Interrupted, WriteLast, List, ListClient, Listed, Mark,
              WritePart, Rearm, Late
<1>4. ASSUME NEW p \in Threads, CloseStep(p) PROVE Registered \subseteq Registered'
  BY <1>4, SocketAssumption DEF CloseStep, CloseDel, CloseRemove, CloseCheck, CloseLast, CloseFree, CloseShut
<1> QED
  BY <1>1, <1>2, <1>3, <1>4 DEF Next, Outside, Terminated

\* Which steps change what refers to contexts, and the tables.
LEMMA Writers ==
  ASSUME Next
  PROVE  /\ UNCHANGED reg \/ Wait \/ Register \/ (\E w \in Workers : Rearm(w))
            \/ \E p \in Threads : CloseDel(p) \/ CloseShut(p)
         /\ UNCHANGED batch \/ Wait \/ \E e \in batch : batch' = batch \ {e}
         /\ UNCHANGED queue \/ (\E e \in batch : Enqueue(e)) \/ \E w \in Workers : StartTask(w)
         /\ UNCHANGED job \/ \E w \in Workers : StartTask(w) \/ EndTask(w)
         /\ UNCHANGED reap \/ Collect \/ \E c \in Conns : Reap(c)
         /\ UNCHANGED mem \/ (\E c \in Conns : Accept(c)) \/ \E p \in Threads : CloseDel(p) \/ CloseFree(p)
         /\ UNCHANGED <<sock, fdof>> \/ (\E c \in Conns : Accept(c)) \/ \E p \in Threads : CloseShut(p)
         /\ UNCHANGED table \/ AddClient \/ \E p \in Threads : CloseRemove(p)
<1> USE DEF table, contexts, peers, epoll, loop, pool, workers
<1>1. CASE LoopStep
  BY <1>1 DEF LoopStep, Boot, BootFails, Run, LoopExit, Wait, AcceptRefused, Admit, AcceptFails, Accept, Handles,
      AddClient, Register, RegisterFails, Enqueue, EnqueueFails, Collect, CheckStop, Reap,
      InitTp, Pool!Open, Pool!Submit
<1>2. ASSUME NEW w \in Workers, WorkerStep(w) PROVE UNCHANGED <<batch, reap, mem, sock, fdof, table>>
  BY <1>2 DEF WorkerStep, StartTask, EndTask, Read, Interrupted, WriteLast, List, ListClient, Listed, Mark,
              WritePart, Rearm, Late
<1>3. ASSUME NEW w \in Workers, WorkerStep(w)
      PROVE  /\ Rearm(w) \/ UNCHANGED reg
             /\ StartTask(w) \/ UNCHANGED queue
             /\ StartTask(w) \/ EndTask(w) \/ UNCHANGED job
  BY <1>3 DEF WorkerStep, StartTask, EndTask, Read, Interrupted, WriteLast, List, ListClient, Listed, Mark,
              WritePart, Rearm, Late, Pool!Finish
<1>4. ASSUME NEW p \in Threads, CloseStep(p) 
      PROVE  /\ UNCHANGED <<batch, queue, job, reap>>
             /\ CloseDel(p) \/ CloseShut(p) \/ UNCHANGED reg
             /\ CloseDel(p) \/ CloseFree(p) \/ UNCHANGED mem
             /\ CloseShut(p) \/ UNCHANGED <<sock, fdof>>
             /\ CloseRemove(p) \/ UNCHANGED table
  BY <1>4 DEF CloseStep, CloseDel, CloseRemove, CloseCheck, CloseLast, CloseFree, CloseShut, Deregister
<1>5. CASE Outside
  BY <1>5 DEF Outside, PeerStep, Tick, StopStep, StopReject, StopPool, StopReturns, JoinReturns,
              Abort, Pool!Close, vars
<1> QED
  BY <1>1, <1>2, <1>3, <1>4, <1>5 DEF Next, Outside, Terminated

LEMMA LoopCloses ==
  ASSUME Inv, Next, stage'[Loop] # "none"
  PROVE  \/ cur' = cur /\ stage[Loop] # "none"
         \/ RegisterFails \/ (\E e \in batch : EnqueueFails(e)) \/ \E c \in Conns : Reap(c)
<1> USE DEF contexts, loop, workers
<1>1. CASE LoopStep
  BY <1>1 DEF LoopStep, Boot, BootFails, Run, LoopExit, Wait, AcceptRefused, Admit, AcceptFails, Accept, Handles,
      AddClient, Register, Enqueue, Collect, CheckStop, Inv, Shape, LoopShape, Adding
<1>2. ASSUME NEW w \in Workers, WorkerStep(w) PROVE cur' = cur /\ stage'[Loop] = stage[Loop]
  BY <1>2, SocketAssumption
     DEF WorkerStep, StartTask, EndTask, Read, Interrupted, WriteLast, List, ListClient, Listed, Mark,
         WritePart, Rearm, Late, Closes, Wants, Inv, TypeOK, Threads
<1>3. ASSUME NEW p \in Threads, CloseStep(p) PROVE cur' = cur /\ stage[Loop] # "none"
  BY <1>3 DEF CloseStep, CloseDel, CloseRemove, CloseCheck, CloseLast, CloseFree, CloseShut, Inv, TypeOK, Threads
<1>4. CASE Outside
  BY <1>4 DEF Outside, PeerStep, Tick, StopStep, Abort, vars
<1> QED
  BY <1>1, <1>2, <1>3, <1>4 DEF Next, Outside, Terminated

LEMMA BacklogNew ==
  ASSUME Next
  PROVE  \A c \in backlog' : c \in backlog \/ mem[c] = "none"
<1> USE DEF peers
<1>1. CASE LoopStep
  BY <1>1 DEF LoopStep, Boot, BootFails, Run, LoopExit, Wait, AcceptRefused, Admit, AcceptFails, Accept,
      AddClient, Register, RegisterFails, Enqueue, EnqueueFails, Collect, CheckStop, Reap
<1>2. ASSUME NEW w \in Workers, WorkerStep(w) PROVE UNCHANGED backlog
  BY <1>2 DEF WorkerStep, StartTask, EndTask, Read, Interrupted, WriteLast, List, ListClient, Listed, Mark,
              WritePart, Rearm, Late
<1>3. ASSUME NEW p \in Threads, CloseStep(p) PROVE UNCHANGED backlog
  BY <1>3 DEF CloseStep, CloseDel, CloseRemove, CloseCheck, CloseLast, CloseFree, CloseShut
<1>4. CASE Outside
  BY <1>4 DEF Outside, PeerStep, Connect, Send, Hangup, Tick, StopStep, Abort, vars
<1> QED
  BY <1>1, <1>2, <1>3, <1>4 DEF Next, Outside, Terminated

\* What epoll_wait returns is of a registration, and what it leaves disarmed is, too.
LEMMA WaitEvents ==
  ASSUME Inv, Wait
  PROVE  /\ \A e \in batch' : e # ListenEvent =>
                \E f \in FDs : f \in Armed /\ reg[f] \in Registration /\ e = EventAt(f)
         /\ \A f \in FDs : reg'[f] # None =>
                /\ reg[f] # None /\ reg'[f].ptr = reg[f].ptr
                /\ reg'[f].mask = IF \E e \in batch' : e.fd = f THEN "off" ELSE reg[f].mask
         /\ \A f \in FDs : reg[f] # None => reg'[f] \in Registration
<1> PICK B \in Reports : batch' = B /\ Disarm(B)
  BY DEF Wait
<1>1. \A f \in FDs : reg[f] # None => reg[f] \in Registration
  BY DEF Inv, TypeOK
<1>2. \A e \in B : e # ListenEvent => \E f \in FDs : f \in Armed /\ e = EventAt(f)
  <2>1. B \subseteq MustReport \cup MayReport
    BY DEF Reports
  <2>2. \A e \in MayReport : \E f \in Armed : e = EventAt(f)
    BY DEF MayReport
  <2>3. \A e \in MustReport : e = ListenEvent \/ \E f \in Armed : e = EventAt(f)
    BY DEF MustReport
  <2> QED
    BY <2>1, <2>2, <2>3 DEF Armed
<1>3. \A f \in Armed : reg[f] # None
  BY DEF Armed
<1>4. ASSUME NEW f \in FDs, reg[f] # None
      PROVE  /\ reg'[f] \in Registration /\ reg'[f].ptr = reg[f].ptr
             /\ reg'[f].mask = IF \E e \in B : e.fd = f THEN "off" ELSE reg[f].mask
  BY <1>1, <1>4 DEF Disarm, Registration
<1>5. ASSUME NEW f \in FDs, reg[f] = None
      PROVE  reg'[f] = None
  <2>1. ~\E e \in B : e.fd = f
    BY <1>2, <1>3, <1>5, SocketAssumption DEF EventAt, ListenEvent, FDs
  <2> QED
    BY <1>5, <2>1 DEF Disarm
<1> QED
  BY <1>1, <1>2, <1>3, <1>4, <1>5

\* The only new references are copies of others, what is in the table, and the loop's
\* own registration.
LEMMA RefsNext ==
  ASSUME Inv, Next
  PROVE  Refs'
<1>1. Registered \subseteq Registered'
  BY RegisteredKept
<1>2. \A f \in FDs : reg'[f] # None => reg'[f].ptr \in Registered'
  <2>1. \A f \in FDs : reg[f] # None => reg[f].ptr \in Registered
    BY DEF Inv, Refs
  <2>2. CASE Wait
    BY <1>1, <2>1, <2>2, WaitEvents
  <2>3. CASE Register
    <3>1. cur \in Conns /\ cur \in Registered'
      BY <2>3 DEF Register, Inv, Shape, LoopShape, Adding, Registered, contexts
    <3>2. reg' = [reg EXCEPT ![fdof[cur]] = [ptr |-> cur, mask |-> "in"]]
      BY <2>3 DEF Register
    <3>3. \A f \in FDs : reg'[f] = reg[f] \/ reg'[f].ptr = cur
      BY <3>2 DEF Inv, TypeOK
    <3> QED
      BY <1>1, <2>1, <3>1, <3>3
  <2>4. ASSUME NEW w \in Workers, Rearm(w)
        PROVE  \A f \in FDs : reg'[f] # None => reg'[f].ptr \in Registered'
    <3>1. job[w].ptr \in Registered
      BY <2>4 DEF Rearm, Inv, Shape, WorkerShape, Refs
    <3>2. \A f \in FDs : reg'[f] = reg[f] \/ reg'[f].ptr = job[w].ptr
      BY <2>4 DEF Rearm, Modify, Inv, TypeOK
    <3> QED
      BY <1>1, <2>1, <3>1, <3>2
  <2>5. ASSUME NEW p \in Threads, CloseDel(p) \/ CloseShut(p)
        PROVE  \A f \in FDs : reg'[f] # None => reg'[f].ptr \in Registered'
    <3>1. \A f \in FDs : reg'[f] = reg[f] \/ reg'[f] = None
      BY <2>5 DEF CloseDel, Deregister, CloseShut, Inv, TypeOK
    <3> QED
      BY <1>1, <2>1, <3>1
  <2>6. CASE UNCHANGED reg
    BY <1>1, <2>1, <2>6
  <2> QED
    BY <2>2, <2>3, <2>4, <2>5, <2>6, Writers
<1>3. \A e \in batch' : e # ListenEvent => e.ptr \in Registered'
  <2>1. \A e \in batch : e # ListenEvent => e.ptr \in Registered
    BY DEF Inv, Refs
  <2>2. CASE Wait
    <3>1. \A f \in Armed : EventAt(f).ptr = reg[f].ptr /\ reg[f] # None
      BY DEF Armed, EventAt
    <3> QED
      BY <1>1, <2>2, <3>1, WaitEvents DEF Inv, Refs, Registration
  <2> QED
    BY <1>1, <2>1, <2>2, Writers
<1>4. \A i \in DOMAIN queue' : queue'[i].ptr \in Registered'
  <2>1. \A i \in DOMAIN queue : queue[i].ptr \in Registered
    BY DEF Inv, Refs
  <2>2. ASSUME NEW e \in batch, Enqueue(e) PROVE \A i \in DOMAIN queue' : queue'[i].ptr \in Registered'
    <3> DEFINE t == [kind |-> IF e.mask = "in" THEN "read" ELSE "write", ptr |-> e.ptr]
    <3>1. t \in Task /\ t.ptr = e.ptr /\ e.ptr \in Registered /\ e.ptr \in Conns
      BY <2>2 DEF Enqueue, Inv, TypeOK, Refs, Task, Event
    <3>2. Pool!Submit(t)
      BY <2>2 DEF Enqueue
    <3> HIDE DEF t
    <3> QED
      BY <1>1, <2>1, <3>1, <3>2, TaskQueued
  <2>3. ASSUME NEW w \in Workers, StartTask(w) PROVE \A i \in DOMAIN queue' : queue'[i].ptr \in Registered'
    BY <1>1, <2>1, <2>3, TaskTaken
  <2>4. CASE UNCHANGED queue
    BY <1>1, <2>1, <2>4
  <2> QED
    BY <2>2, <2>3, <2>4, Writers
<1>5. \A w \in Workers : job'[w] # None => job'[w].ptr \in Registered'
  <2>1. \A w \in Workers : job[w] # None => job[w].ptr \in Registered
    BY DEF Inv, Refs
  <2>2. ASSUME NEW v \in Workers, StartTask(v)
        PROVE  \A w \in Workers : job'[w] # None => job'[w].ptr \in Registered'
    <3>1. queue[1].ptr \in Registered
      BY <2>2, TaskTaken DEF Inv, Refs
    <3>2. \A w \in Workers : job'[w] = job[w] \/ job'[w] = queue[1]
      BY <2>2, TaskTaken DEF Inv, TypeOK
    <3> QED
      BY <1>1, <2>1, <3>1, <3>2
  <2>3. ASSUME NEW v \in Workers, EndTask(v)
        PROVE  \A w \in Workers : job'[w] # None => job'[w].ptr \in Registered'
    <3>1. \A w \in Workers : job'[w] = job[w] \/ job'[w] = None
      BY <2>3 DEF EndTask, Pool!Finish, Inv, TypeOK
    <3> QED
      BY <1>1, <2>1, <3>1
  <2>4. CASE UNCHANGED job
    BY <1>1, <2>1, <2>4
  <2> QED
    BY <2>2, <2>3, <2>4, Writers
<1>6. \A c \in reap' : c \in Registered'
  <2>1. \A c \in reap : c \in Registered
    BY DEF Inv, Refs
  <2>2. CASE Collect
    <3>1. \A c \in reap' : c \in eclients /\ c \in Conns
      BY <2>2 DEF Collect, IdleClients, Inv, TypeOK
    <3>2. \A c \in eclients : c \in Registered
      BY <2>2 DEF Collect, Inv, TypeOK, Table, ClientsMatch, Held, Registered, Adding
    <3> QED
      BY <1>1, <3>1, <3>2
  <2>3. ASSUME NEW c \in Conns, Reap(c) PROVE \A d \in reap' : d \in Registered'
    BY <1>1, <2>1, <2>3 DEF Reap
  <2> QED
    BY <1>1, <2>1, <2>2, <2>3, Writers
<1>7. stage'[Loop] # "none" => cur' \in Registered'
  <2>1. stage[Loop] # "none" => cur \in Registered
    BY DEF Inv, Refs
  <2>2. CASE stage'[Loop] # "none" /\ cur' = cur /\ stage[Loop] # "none"
    BY <1>1, <2>1, <2>2
  <2>3. CASE RegisterFails
    <3>1. cur' = cur /\ cur \in Conns /\ mem'[cur] = "live" /\ ~Adding'
      BY <2>3 DEF RegisterFails, Inv, Shape, LoopShape, Adding, contexts
    <3> QED
      BY <3>1 DEF Registered
  <2>4. ASSUME NEW e \in batch, EnqueueFails(e) PROVE cur' \in Registered'
    <3>1. e.ptr \in Registered /\ cur' = e.ptr
      BY <2>4 DEF EnqueueFails, Inv, Refs
    <3> QED
      BY <1>1, <3>1
  <2>5. ASSUME NEW c \in Conns, Reap(c) PROVE cur' \in Registered'
    BY <1>1, <2>5 DEF Reap, Inv, Refs
  <2> QED
    BY <2>2, <2>3, <2>4, <2>5, LoopCloses
<1>8. \A c \in backlog' : mem'[c] = "none"
  <2>1. \A c \in backlog : c \in Conns /\ mem[c] = "none"
    BY DEF Inv, TypeOK, Refs
  <2>2. \A c \in backlog' : mem[c] = "none"
    BY <2>1, BacklogNew
  <2>3. ASSUME NEW c \in Conns, Accept(c) PROVE \A d \in backlog' : mem'[d] = "none"
    BY <2>1, <2>3 DEF Accept
  <2>4. ASSUME NEW p \in Threads, CloseDel(p) \/ CloseFree(p) PROVE \A d \in backlog' : mem'[d] = "none"
    <3>1. mem[Cur(p)] # "none"
      BY <2>4, CurType DEF CloseDel, CloseFree, Registered
    <3>2. \A d \in Conns : mem'[d] = mem[d] \/ d = Cur(p)
      BY <2>4 DEF CloseDel, CloseFree, Inv, TypeOK
    <3>3. backlog' = backlog
      BY <2>4 DEF CloseDel, CloseFree, peers
    <3> QED
      BY <2>1, <3>1, <3>2, <3>3
  <2> QED
    BY <2>2, <2>3, <2>4, Writers
<1> QED
  BY <1>2, <1>3, <1>4, <1>5, <1>6, <1>7, <1>8 DEF Refs

\* The table, when neither it nor a context changes.
LEMMA TableFrame ==
  ASSUME Inv, UNCHANGED <<clients, eclients, mem>>, lpc' = "adding" <=> lpc = "adding",
         lpc = "adding" => cur' = cur,
         \A p \in Threads : stage'[p] \in {"remove", "check", "last", "free", "shut"} =>
            stage'[p] = stage[p] /\ Cur(p)' = Cur(p)
  PROVE  Table'
BY DEF Inv, Table, ClientsMatch, Held

LEMMA TableLoop ==
  ASSUME Inv, LoopStep
  PROVE  Table'
<1> USE SocketAssumption DEF Inv, Threads, contexts, loop, table, peers, epoll, workers, pool
<1>1. CASE Boot \/ BootFails \/ Run \/ LoopExit \/ Wait \/ AcceptRefused \/ Admit \/ AcceptFails \/ Collect \/ CheckStop
  <2>1. UNCHANGED <<clients, eclients, mem, job, cur, stage>>
    BY <1>1 DEF Boot, BootFails, Run, LoopExit, Wait, AcceptRefused, Admit, AcceptFails, Collect, CheckStop,
        InitTp, Pool!Open
  <2>2. lpc # "adding" /\ lpc' # "adding"
    BY <1>1 DEF Boot, BootFails, Run, LoopExit, Wait, AcceptRefused, Admit, AcceptFails, Handles, Collect, CheckStop
  <2> QED
    BY <2>1, <2>2, TableFrame DEF Cur
<1>2. CASE Register \/ RegisterFails
  <2>1. UNCHANGED <<clients, eclients, mem, job>> /\ lpc # "adding" /\ lpc' # "adding"
    BY <1>2 DEF Register, RegisterFails
  <2>2. \A p \in Threads : stage'[p] \in {"remove", "check", "last", "free", "shut"} =>
            stage'[p] = stage[p] /\ Cur(p)' = Cur(p)
    BY <1>2, <2>1 DEF Register, RegisterFails, TypeOK, Shape, LoopShape, Adding, Cur
  <2> QED
    BY <2>1, <2>2, TableFrame
<1>3. ASSUME NEW e \in batch, Enqueue(e) \/ EnqueueFails(e) PROVE Table'
  <2>1. UNCHANGED <<clients, eclients, mem, job, lpc>> /\ lpc = "batch"
    BY <1>3 DEF Enqueue, EnqueueFails, Handles, Pool!Submit
  <2>2. \A p \in Threads : stage'[p] \in {"remove", "check", "last", "free", "shut"} =>
            stage'[p] = stage[p] /\ Cur(p)' = Cur(p)
    BY <1>3, <2>1 DEF Enqueue, EnqueueFails, Handles, TypeOK, Cur
  <2> QED
    BY <2>1, <2>2, TableFrame
<1>4. ASSUME NEW c \in Conns, Reap(c) PROVE Table'
  <2>1. UNCHANGED <<clients, eclients, mem, job, lpc>> /\ lpc = "reaping"
    BY <1>4 DEF Reap
  <2>2. \A p \in Threads : stage'[p] \in {"remove", "check", "last", "free", "shut"} =>
            stage'[p] = stage[p] /\ Cur(p)' = Cur(p)
    BY <1>4, <2>1 DEF Reap, TypeOK, Cur
  <2> QED
    BY <2>1, <2>2, TableFrame
<1>5. ASSUME NEW c \in Conns, Accept(c) PROVE Table'
  <2>1. UNCHANGED <<clients, eclients, stage, job>> /\ stage[Loop] = "none"
        /\ mem[c] = "none" /\ mem' = [mem EXCEPT ![c] = "live"] /\ cur' = c /\ lpc' = "adding"
        /\ lpc = "accepting"
    BY <1>5 DEF Accept, Shape, LoopShape, Refs
  <2>2. c \notin eclients
    BY <2>1 DEF Table, ClientsMatch, Held
  <2>3. \A d \in Conns : d # c => mem'[d] = mem[d]
    BY <2>1 DEF TypeOK
  <2>4. ClientsMatch'
    BY <2>1, <2>2, <2>3 DEF Table, ClientsMatch, Held, TypeOK
  <2>5. \A d \in Conns : mem'[d] = "live" => d \in eclients' \/ (lpc' = "adding" /\ cur' = d)
    BY <2>1, <2>3 DEF Table
  <2>6. \A p \in Threads : stage[p] # "none" => Cur(p)' = Cur(p)
    BY <2>1 DEF Cur
  <2> QED
    BY <2>1, <2>2, <2>4, <2>5, <2>6 DEF Table
<1>6. CASE AddClient
  <2>1. /\ clients' = clients + 1 /\ eclients' = eclients \cup {cur} /\ lpc = "adding"
        /\ lpc' = "registering" /\ UNCHANGED <<mem, cur, stage, job>>
    BY <1>6 DEF AddClient, InsertClient
  <2>2. cur \in Conns /\ mem[cur] = "live" /\ stage[Loop] = "none" /\ cur \notin eclients
    BY <2>1 DEF Shape, LoopShape, Adding, Table
  <2>3. IsFiniteSet(eclients) /\ clients = Cardinality(eclients)
    BY FS_Subset DEF TypeOK, Table, ClientsMatch
  <2>4. clients' = Cardinality(eclients')
    BY <2>1, <2>2, <2>3, FS_AddElement
  <2>5. ClientsMatch'
    BY <2>1, <2>2, <2>4 DEF Table, ClientsMatch, Held
  <2>6. \A p \in Threads : stage[p] # "none" => Cur(p)' = Cur(p) /\ Cur(p) # cur
    <3>1. \A p \in Threads : stage[p] # "none" => Cur(p) \in Registered
      BY CurType
    <3> QED
      BY <2>1, <3>1 DEF Cur, Registered, Adding
  <2> QED
    BY <2>1, <2>2, <2>5, <2>6 DEF Table
<1> QED
  BY <1>1, <1>2, <1>3, <1>4, <1>5, <1>6 DEF LoopStep

LEMMA TableWorker ==
  ASSUME Inv, NEW w \in Workers, WorkerStep(w)
  PROVE  Table'
<1>1. UNCHANGED <<clients, eclients, mem, lpc, cur>>
  BY DEF WorkerStep, StartTask, EndTask, Read, Interrupted, WriteLast, List, ListClient, Listed, Mark,
         WritePart, Rearm, Late, table, contexts, loop
<1>2. \A p \in Threads : stage'[p] \in {"remove", "check", "last", "free", "shut"} => stage'[p] = stage[p]
  BY DEF WorkerStep, StartTask, EndTask, Read, Interrupted, WriteLast, List, ListClient, Listed, Mark,
         WritePart, Rearm, Late, Closes, Wants, Inv, TypeOK
<1>3. \A p \in Threads : stage[p] # "none" => Cur(p)' = Cur(p)
  <2>1. CASE UNCHANGED job
    BY <1>1, <2>1 DEF Cur
  <2>2. CASE StartTask(w) \/ EndTask(w)
    <3>1. stage[w] = "none"
      BY <2>2 DEF StartTask, Pool!Start, EndTask, Inv, Shape, WorkerShape
    <3>2. \A v \in Workers : v # w => job'[v] = job[v]
      BY <2>2 DEF StartTask, Pool!Start, EndTask, Pool!Finish, Inv, TypeOK
    <3> QED
      BY <1>1, <3>1, <3>2 DEF Cur, Threads
  <2> QED
    BY <2>1, <2>2 DEF WorkerStep, Read, Interrupted, WriteLast, List, ListClient, Listed, Mark,
         WritePart, Rearm, Late, pool
<1> QED
  BY <1>1, <1>2, <1>3, TableFrame

LEMMA TableClose ==
  ASSUME Inv, NEW p \in Threads, CloseStep(p)
  PROVE  Table'
<1>1. lpc' = lpc /\ (lpc = "adding" => cur' = cur)
  BY SocketAssumption DEF CloseStep, CloseDel, CloseRemove, CloseCheck, CloseLast, CloseFree, CloseShut,
      loop, Inv, Shape, LoopShape, Adding
<1>2. \A q \in Threads : stage[q] # "none" /\ q # p => stage'[q] = stage[q] /\ Cur(q)' = Cur(q)
  BY DEF CloseStep, CloseDel, CloseRemove, CloseCheck, CloseLast, CloseFree, CloseShut, loop, pool, Cur,
      Inv, TypeOK, Threads
<1>3. ASSUME stage[p] # "none" PROVE Cur(p) \in Conns /\ Cur(p) \in Registered
  BY <1>3, CurType
<1>4. lpc = "adding" /\ stage[p] # "none" => Cur(p) # cur
  BY <1>3 DEF Registered, Adding
<1>5. CASE CloseDel(p)
  <2>1. /\ mem[Cur(p)] = "live" /\ mem' = [mem EXCEPT ![Cur(p)] = "closed"]
        /\ stage' = [stage EXCEPT ![p] = "remove"] /\ stage[p] = "del"
        /\ UNCHANGED <<clients, eclients>>
    BY <1>5 DEF CloseDel, Broken, table
  <2>2. Cur(p) \in eclients /\ Cur(p)' = Cur(p)
    BY <1>3, <1>4, <1>5, <2>1 DEF Inv, Table, Cur, CloseDel, loop, pool
  <2>3. \A c \in Conns : mem'[c] = mem[c] \/ (c = Cur(p) /\ mem'[c] = "closed")
    BY <2>1 DEF Inv, TypeOK
  <2>4. ClientsMatch' /\ \A c \in Conns : mem'[c] = "live" => c \in eclients' \/ (lpc' = "adding" /\ cur' = c)
    BY <1>1, <2>1, <2>3 DEF Inv, Table, ClientsMatch, Held, TypeOK
  <2>5. stage'[p] = "remove"
    BY <2>1 DEF Inv, TypeOK
  <2> QED
    BY <1>1, <1>2, <2>1, <2>2, <2>4, <2>5 DEF Inv, Table
<1>6. CASE CloseRemove(p)
  <2>1. /\ clients' = clients - 1 /\ eclients' = eclients \ {Cur(p)} /\ stage[p] = "remove"
        /\ stage' = [stage EXCEPT ![p] = "check"] /\ UNCHANGED mem
    BY <1>6 DEF CloseRemove, RemoveClient, contexts
  <2>2. Cur(p) \in eclients /\ mem[Cur(p)] = "closed" /\ Cur(p)' = Cur(p)
    BY <1>6, <2>1 DEF Inv, Table, Closers, Cur, CloseRemove, loop, pool
  <2>3. IsFiniteSet(eclients) /\ clients = Cardinality(eclients)
    BY SocketAssumption, FS_Subset DEF Inv, TypeOK, Table, ClientsMatch
  <2>4. ClientsMatch'
    BY <2>1, <2>2, <2>3, FS_RemoveElement DEF Inv, Table, ClientsMatch, Held
  <2>5. stage'[p] = "check"
    BY <2>1 DEF Inv, TypeOK
  <2>6. \A q \in Threads : stage[q] = "remove" /\ q # p => Cur(q) # Cur(p)
    BY <2>1 DEF Inv, Closers, Deleting
  <2>7. \A c \in Conns : mem[c] = "live" => c # Cur(p)
    BY <2>2
  <2>8. \A q \in Threads : stage'[q] = "remove" => Cur(q)' \in eclients'
    BY <1>2, <2>1, <2>5, <2>6 DEF Inv, Table
  <2>9. \A q \in Threads : stage'[q] \in {"check", "last", "free", "shut"} => Cur(q)' \notin eclients'
    BY <1>2, <2>1, <2>2, <2>5 DEF Inv, Table
  <2> QED
    BY <1>1, <2>1, <2>4, <2>7, <2>8, <2>9 DEF Inv, Table
<1>7. CASE CloseCheck(p) \/ CloseLast(p)
  <2>1. /\ stage[p] \in {"check", "last"} /\ UNCHANGED <<mem, clients, eclients>>
        /\ \E s \in {"last", "free"} : stage' = [stage EXCEPT ![p] = s]
        /\ Cur(p)' = Cur(p)
    BY <1>7 DEF CloseCheck, CloseLast, contexts, table, Cur, loop, pool
  <2>2. stage'[p] \in {"last", "free"}
    BY <2>1 DEF Inv, TypeOK
  <2> QED
    BY <1>1, <1>2, <2>1, <2>2 DEF Inv, Table, ClientsMatch, Held
<1>8. CASE CloseFree(p)
  <2>1. /\ stage[p] = "free" /\ mem' = [mem EXCEPT ![Cur(p)] = "freed"]
        /\ stage' = [stage EXCEPT ![p] = "shut"] /\ UNCHANGED <<clients, eclients>>
        /\ Cur(p)' = Cur(p)
    BY <1>8 DEF CloseFree, table, Cur, loop, pool
  <2>2. Cur(p) \notin eclients
    BY <2>1 DEF Inv, Table
  <2>3. \A c \in Conns : mem'[c] = mem[c] \/ (c = Cur(p) /\ mem'[c] = "freed")
    BY <2>1 DEF Inv, TypeOK
  <2>4. ClientsMatch' /\ \A c \in Conns : mem'[c] = "live" => c \in eclients' \/ (lpc' = "adding" /\ cur' = c)
    BY <1>1, <2>1, <2>2, <2>3 DEF Inv, Table, ClientsMatch, Held, TypeOK
  <2>5. stage'[p] = "shut"
    BY <2>1 DEF Inv, TypeOK
  <2> QED
    BY <1>1, <1>2, <2>1, <2>2, <2>4, <2>5 DEF Inv, Table
<1>9. CASE CloseShut(p)
  <2>1. UNCHANGED <<mem, clients, eclients>> /\ stage' = [stage EXCEPT ![p] = "none"]
    BY <1>9 DEF CloseShut, contexts, table
  <2>2. stage'[p] = "none" /\ \A q \in Threads : q # p => stage'[q] = stage[q]
    BY <2>1 DEF Inv, TypeOK
  <2> QED
    BY <1>1, <1>2, <2>1, <2>2, TableFrame
<1> QED
  BY <1>5, <1>6, <1>7, <1>8, <1>9 DEF CloseStep

LEMMA TableNext ==
  ASSUME Inv, Next
  PROVE  Table'
BY OutsideKeeps, TableLoop, TableWorker, TableClose DEF Next, Outside, Terminated

\* Who closes what, from step to step.
LEMMA CurKept ==
  ASSUME Inv, Next, NEW p \in Threads, stage[p] # "none", stage'[p] # "none"
  PROVE  Cur(p)' = Cur(p)
<1>1. CASE p = Loop
  <2>1. CASE cur' = cur
    BY <1>1, <2>1 DEF Cur
  <2>2. CASE RegisterFails \/ (\E e \in batch : EnqueueFails(e)) \/ \E c \in Conns : Reap(c)
    BY <1>1, <2>2 DEF RegisterFails, EnqueueFails, Handles, Reap, Inv, Shape, LoopShape, Adding
  <2> QED
    BY <1>1, <2>1, <2>2, LoopCloses
<1>2. CASE p # Loop
  <2>1. p \in Workers
    BY <1>2 DEF Threads
  <2>2. ASSUME NEW w \in Workers, StartTask(w) \/ EndTask(w) PROVE job'[p] = job[p]
    <3>1. stage[w] = "none"
      BY <2>2 DEF StartTask, Pool!Start, EndTask, Inv, Shape, WorkerShape
    <3> QED
      BY <2>1, <2>2, <3>1 DEF StartTask, Pool!Start, EndTask, Pool!Finish, Inv, TypeOK
  <2> QED
    BY <1>2, <2>2, Writers DEF Cur
<1> QED
  BY <1>1, <1>2

\* A thread gets to close(fd) only after it has deleted the context.
LEMMA StageShut ==
  ASSUME Inv, Next, NEW p \in Threads, stage'[p] = "shut"
  PROVE  stage[p] = "shut" \/ CloseFree(p)
<1> USE DEF Inv, TypeOK, contexts, peers, loop, workers
<1>1. CASE LoopStep
  BY <1>1 DEF LoopStep, Boot, BootFails, Run, LoopExit, Wait, AcceptRefused, Admit, AcceptFails, Accept, Handles,
      AddClient, Register, RegisterFails, Enqueue, EnqueueFails, Collect, CheckStop, Reap
<1>2. ASSUME NEW w \in Workers, WorkerStep(w) PROVE stage[p] = "shut"
  BY <1>2 DEF WorkerStep, StartTask, EndTask, Read, Interrupted, WriteLast, List, ListClient, Listed, Mark,
              WritePart, Rearm, Late, Closes, Wants
<1>3. ASSUME NEW q \in Threads, CloseStep(q) PROVE stage[p] = "shut" \/ CloseFree(p)
  BY <1>3 DEF CloseStep, CloseDel, CloseRemove, CloseCheck, CloseLast, CloseFree, CloseShut
<1>4. CASE Outside
  BY <1>4 DEF Outside, PeerStep, Tick, StopStep, Abort, vars
<1> QED
  BY <1>1, <1>2, <1>3, <1>4 DEF Next, Outside, Terminated

\* A context is new, and gets the lowest free descriptor; or it keeps its own.
LEMMA SocketsAccept ==
  ASSUME Inv, Next, NEW c \in Conns, Accept(c)
  PROVE  Sockets'
<1>1. PICK f \in FDs : /\ sock[f] = None
                       /\ sock' = [sock EXCEPT ![f] = c] /\ fdof' = [fdof EXCEPT ![c] = f]
  BY DEF Accept, Gets, FreeFDs
<1>2. mem[c] = "none" /\ mem' = [mem EXCEPT ![c] = "live"] /\ UNCHANGED stage
  BY DEF Accept, Inv, Refs
<1>3. \A g \in FDs : sock'[g] = (IF g = f THEN c ELSE sock[g])
  BY <1>1 DEF Inv, TypeOK
<1>4. \A d \in Conns : /\ fdof'[d] = (IF d = c THEN f ELSE fdof[d])
                       /\ mem'[d] = (IF d = c THEN "live" ELSE mem[d])
  BY <1>1, <1>2 DEF Inv, TypeOK
<1>5. \A g \in FDs : sock[g] # None => sock[g] \in Conns /\ fdof[sock[g]] = g /\ mem[sock[g]] # "none"
  BY DEF Inv, TypeOK, Sockets
<1>6. \A g \in FDs : sock'[g] # None => fdof'[sock'[g]] = g /\ mem'[sock'[g]] # "none"
  BY <1>2, <1>3, <1>4, <1>5
<1>7. \A d \in Conns : Held(d)' => fdof'[d] \in FDs /\ sock'[fdof'[d]] = d
  <2>1. \A d \in Conns : mem[d] \in {"live", "closed"} => fdof[d] \in FDs /\ sock[fdof[d]] = d
    BY DEF Inv, Sockets, Held
  <2>2. \A d \in Conns : mem[d] \in {"live", "closed"} => fdof[d] # f
    BY <1>1, <2>1, SocketAssumption
  <2> QED
    BY <1>3, <1>4, <2>1, <2>2 DEF Held
<1>8. ASSUME NEW p \in Threads, stage'[p] = "shut"
      PROVE  fdof'[Cur(p)'] \in FDs /\ sock'[fdof'[Cur(p)']] = Cur(p)'
  <2>1. stage[p] = "shut"
    BY <1>2, <1>8
  <2>2. Cur(p) \in Conns /\ mem[Cur(p)] = "freed" /\ Cur(p)' = Cur(p)
    BY <1>8, <2>1, CurType, CurKept DEF Inv, Closers
  <2>3. fdof[Cur(p)] \in FDs /\ sock[fdof[Cur(p)]] = Cur(p)
    BY <2>1 DEF Inv, Sockets
  <2> QED
    BY <1>1, <1>2, <1>3, <1>4, <2>2, <2>3, SocketAssumption
<1> QED
  BY <1>6, <1>7, <1>8 DEF Sockets

LEMMA SocketsShut ==
  ASSUME Inv, Next, NEW p \in Threads, CloseShut(p)
  PROVE  Sockets'
<1> DEFINE f == fdof[Cur(p)]
<1>1. /\ stage[p] = "shut" /\ sock' = [sock EXCEPT ![f] = None] /\ UNCHANGED <<mem, fdof>>
      /\ stage' = [stage EXCEPT ![p] = "none"]
  BY DEF CloseShut, contexts
<1>2. Cur(p) \in Conns /\ mem[Cur(p)] = "freed" /\ f \in FDs /\ sock[f] = Cur(p)
  BY <1>1, CurType DEF Inv, Closers, Sockets
<1> HIDE DEF f
<1>3. \A g \in FDs : sock'[g] = (IF g = f THEN None ELSE sock[g])
  BY <1>1 DEF Inv, TypeOK
<1>4. \A g \in FDs : sock'[g] # None => fdof'[sock'[g]] = g /\ mem'[sock'[g]] # "none"
  BY <1>1, <1>3 DEF Inv, Sockets
<1>5. \A d \in Conns : Held(d)' => fdof'[d] \in FDs /\ sock'[fdof'[d]] = d
  BY <1>1, <1>2, <1>3 DEF Inv, Sockets, Held
<1>6. ASSUME NEW q \in Threads, stage'[q] = "shut"
      PROVE  fdof'[Cur(q)'] \in FDs /\ sock'[fdof'[Cur(q)']] = Cur(q)'
  <2>1. q # p /\ stage[q] = "shut"
    BY <1>1, <1>6 DEF Inv, TypeOK
  <2>2. Cur(q)' = Cur(q) /\ Cur(q) # Cur(p)
    BY <1>1, <1>6, <2>1, CurKept DEF Inv, Closers, Deleting
  <2>3. fdof[Cur(q)] \in FDs /\ sock[fdof[Cur(q)]] = Cur(q)
    BY <2>1 DEF Inv, Sockets
  <2> QED
    BY <1>1, <1>2, <1>3, <2>2, <2>3
<1> QED
  BY <1>4, <1>5, <1>6 DEF Sockets

LEMMA SocketsNext ==
  ASSUME Inv, Next
  PROVE  Sockets'
<1>1. CASE UNCHANGED <<sock, fdof>>
  <2>1. \A c \in Conns : Held(c)' => Held(c)
    <3>1. CASE UNCHANGED mem
      BY <3>1 DEF Held
    <3>2. ASSUME NEW c \in Conns, Accept(c) PROVE FALSE
      <4>1. \E f \in FDs : sock[f] = None /\ sock' = [sock EXCEPT ![f] = c]
        BY <3>2 DEF Accept, Gets, FreeFDs
      <4> QED
        BY <1>1, <4>1, SocketAssumption DEF Inv, TypeOK
    <3>3. ASSUME NEW p \in Threads, CloseDel(p) \/ CloseFree(p)
          PROVE  \A c \in Conns : Held(c)' => Held(c)
      <4>1. mem[Cur(p)] \in {"live", "closed"}
        BY <3>3 DEF CloseDel, CloseFree, Broken, Inv, Closers
      <4>2. \A c \in Conns : mem'[c] = mem[c] \/ c = Cur(p)
        BY <3>3 DEF CloseDel, CloseFree, Inv, TypeOK
      <4> QED
        BY <4>1, <4>2 DEF Held
    <3> QED
      BY <3>1, <3>2, <3>3, Writers
  <2>2. \A c \in Conns : mem[c] # "none" => mem'[c] # "none"
    <3>1. ASSUME NEW c \in Conns, Accept(c) PROVE \A d \in Conns : mem[d] # "none" => mem'[d] # "none"
      BY <3>1 DEF Accept, Inv, TypeOK
    <3>2. ASSUME NEW p \in Threads, CloseDel(p) \/ CloseFree(p)
          PROVE  \A c \in Conns : mem[c] # "none" => mem'[c] # "none"
      BY <3>2 DEF CloseDel, CloseFree, Inv, TypeOK
    <3> QED
      BY <3>1, <3>2, Writers
  <2>3. ASSUME NEW p \in Threads, stage'[p] = "shut"
        PROVE  fdof[Cur(p)'] \in FDs /\ sock[fdof[Cur(p)']] = Cur(p)'
    <3>1. CASE stage[p] = "shut"
      BY <2>3, <3>1, CurKept DEF Inv, Sockets
    <3>2. CASE CloseFree(p)
      <4>1. Cur(p) \in Conns /\ mem[Cur(p)] = "closed" /\ stage[p] = "free"
        BY <3>2, CurType DEF CloseFree, Inv, Closers
      <4>2. Cur(p)' = Cur(p)
        BY <2>3, <4>1, CurKept
      <4> QED
        BY <4>1, <4>2 DEF Inv, Sockets, Held
    <3> QED
      BY <2>3, <3>1, <3>2, StageShut
  <2>4. \A f \in FDs : sock[f] # None => sock[f] \in Conns
    BY DEF Inv, TypeOK
  <2> QED
    BY <1>1, <2>1, <2>2, <2>3, <2>4 DEF Inv, Sockets
<1> QED
  BY <1>1, SocketsAccept, SocketsShut, Writers

-----------------------------------------------------------------------------
(* Types *)

\* TypeOK but for the table, whose counter is bounded by what ClientsMatch says.
LEMMA TypesTable ==
  ASSUME Inv, Next
  PROVE  clients' \in 0..Cardinality(Conns) /\ eclients' \subseteq Conns
<1>1. eclients' \subseteq Conns
  <2>1. CASE AddClient
    BY <2>1 DEF AddClient, InsertClient, Inv, TypeOK, Shape, LoopShape, Adding
  <2>2. ASSUME NEW p \in Threads, CloseRemove(p) PROVE eclients' \subseteq Conns
    BY <2>2 DEF CloseRemove, RemoveClient, Inv, TypeOK
  <2>3. CASE UNCHANGED table
    BY <2>3 DEF table, Inv, TypeOK
  <2> QED
    BY <2>1, <2>2, <2>3, Writers
<1>2. clients' = Cardinality(eclients')
  BY TableNext DEF Table, ClientsMatch
<1>3. IsFiniteSet(eclients') /\ Cardinality(eclients') <= Cardinality(Conns)
  BY <1>1, FS_Subset, SocketAssumption
<1>4. Cardinality(eclients') \in Nat /\ Cardinality(Conns) \in Nat
  BY <1>3, FS_CardinalityType, SocketAssumption
<1> QED
  BY <1>1, <1>2, <1>3, <1>4

\* TypeOK in parts, by what changes together.
StatusTypes ==
    /\ status \in {"init", "run", "reject", "stop"}
    /\ lpc \in {"start", "booted", "wait", "batch", "accepting", "adding", "registering",
                "reaping", "done"}
    /\ pool_open \in BOOLEAN
    /\ ctl \in {"up", "closing", "joining", "stopped", "done"}
    /\ aborted \in {"no", "context", "listing", "pool"}

ContextTypes ==
    /\ mem \in [Conns -> {"none", "live", "closed", "freed"}]
    /\ fdof \in [Conns -> 0..NumFDs]
    /\ cstat \in [Conns -> {"none", "busy", "over"}]
    /\ idle \in [Conns -> 0..IdleMax]

PeerTypes == backlog \subseteq Conns /\ data \subseteq Conns /\ hup \subseteq Conns

EpollTypes ==
    /\ sock \in [FDs -> Conns \cup {None}]
    /\ reg \in [FDs -> Registration \cup {None}]

LoopTypes ==
    /\ batch \subseteq Event \cup {ListenEvent}
    /\ reap \subseteq Conns /\ cur \in Conns \cup {None}

TaskTypes == queue \in Seq(Task) /\ job \in [Workers -> Task \cup {None}]

WorkerTypes ==
    /\ pc \in [Workers -> {"idle", "io", "listing", "mark", "rearm", "late", "closing",
                            "end"}]
    /\ mask \in [Workers -> {"in", "out"}] /\ snap \in [Workers -> SUBSET Conns]
    /\ stage \in [Threads -> {"none", "del", "remove", "check", "last", "free", "shut"}]

LEMMA TypeParts ==
  TypeOK <=> /\ clients \in 0..Cardinality(Conns) /\ eclients \subseteq Conns
             /\ StatusTypes /\ ContextTypes /\ PeerTypes /\ EpollTypes /\ LoopTypes
             /\ TaskTypes /\ WorkerTypes
BY DEF TypeOK, StatusTypes, ContextTypes, PeerTypes, EpollTypes, LoopTypes, TaskTypes, WorkerTypes

\* The connection an event, a task or a thread is about.
LEMMA PtrTypes ==
  ASSUME Inv
  PROVE  /\ \A e \in batch : e # ListenEvent => e \in Event /\ e.ptr \in Conns
         /\ \A w \in Workers : pc[w] # "idle" => job[w] \in Task /\ job[w].ptr \in Conns
         /\ Adding => cur \in Conns
<1>1. \A e \in batch : e # ListenEvent => e \in Event /\ e.ptr \in Conns
  BY DEF Inv, TypeOK, Event
<1>2. \A w \in Workers : pc[w] # "idle" => job[w] \in Task
  BY DEF Inv, TypeOK, Shape, WorkerShape
<1>3. \A t \in Task : t.ptr \in Conns
  BY DEF Task
<1> QED
  BY <1>1, <1>2, <1>3 DEF Inv, Shape, LoopShape

LEMMA TypesStatus ==
  ASSUME Inv, Next
  PROVE  StatusTypes'
<1>1. StatusTypes
  BY TypeParts DEF Inv
<1> USE <1>1 DEF StatusTypes, loop, pool, Pool!Open, Pool!Close
<1>2. CASE LoopStep
  BY <1>2 DEF LoopStep, Boot, BootFails, Run, LoopExit, Wait, AcceptRefused, Admit, AcceptFails, Accept, InitTp,
      AddClient, Register, RegisterFails, Enqueue, EnqueueFails, Collect, CheckStop, Reap, Pool!Submit
<1>3. ASSUME NEW w \in Workers, WorkerStep(w) PROVE StatusTypes'
  BY <1>3 DEF WorkerStep, StartTask, EndTask, Read, Interrupted, WriteLast, List, ListClient, Listed, Mark,
              WritePart, Rearm, Late, Pool!Start, Pool!Finish
<1>4. ASSUME NEW p \in Threads, CloseStep(p) PROVE StatusTypes'
  BY <1>4 DEF CloseStep, CloseDel, CloseRemove, CloseCheck, CloseLast, CloseFree, CloseShut
<1>5. CASE PeerStep \/ Tick \/ StopStep \/ Abort \/ UNCHANGED vars
  BY <1>5 DEF PeerStep, Tick, StopStep, StopReject, StopPool, StopReturns, JoinReturns, Abort, vars
<1> QED
  BY <1>2, <1>3, <1>4, <1>5 DEF Next, Terminated

LEMMA TypesContext ==
  ASSUME Inv, Next
  PROVE  ContextTypes'
<1>1. ContextTypes
  BY TypeParts DEF Inv
<1> USE <1>1 DEF ContextTypes, contexts
<1>2. ASSUME NEW c \in Conns, Accept(c) PROVE ContextTypes'
  <2>1. fdof' \in [Conns -> 0..NumFDs]
    BY <1>2, SocketAssumption DEF Accept, Gets, FreeFDs, FDs
  <2> QED
    BY <1>2, <2>1 DEF Accept
<1>3. ASSUME NEW e \in batch, Enqueue(e) \/ EnqueueFails(e) PROVE ContextTypes'
  <2>1. e.ptr \in Conns
    BY <1>3, PtrTypes DEF Enqueue, EnqueueFails
  <2>2. UNCHANGED <<mem, fdof>> /\ Touch(e.ptr)
    BY <1>3 DEF Enqueue, EnqueueFails
  <2> QED
    BY <2>1, <2>2, SocketAssumption DEF Touch
<1>4. CASE UNCHANGED contexts
  BY <1>4
<1>5. ASSUME NEW w \in Workers, Mark(w) PROVE ContextTypes'
  BY <1>5, PtrTypes DEF Mark, MarkOver
<1>6. ASSUME NEW w \in Workers, Late(w) PROVE ContextTypes'
  <2>1. UNCHANGED <<mem, fdof, idle>>
    BY <1>6 DEF Late
  <2>2. cstat' \in [Conns -> {"none", "busy", "over"}]
    BY <1>6 DEF Late
  <2> QED
    BY <2>1, <2>2
<1>7. ASSUME NEW p \in Threads, CloseDel(p) \/ CloseFree(p) PROVE ContextTypes'
  <2>1. Cur(p) \in Conns
    BY <1>7, CurType DEF CloseDel, CloseFree
  <2>2. mem' \in [Conns -> {"none", "live", "closed", "freed"}] /\ UNCHANGED fdof
    BY <1>7, <2>1 DEF CloseDel, CloseFree
  <2>3. cstat' \in [Conns -> {"none", "busy", "over"}] /\ idle' \in [Conns -> 0..IdleMax]
    BY <1>7, <2>1, SocketAssumption DEF CloseDel, CloseFree
  <2> QED
    BY <2>2, <2>3
<1>8. CASE Tick
  <2>1. UNCHANGED <<mem, fdof, cstat>>
    BY <1>8 DEF Tick
  <2>2. idle' \in [Conns -> 0..IdleMax]
    BY <1>8, SocketAssumption DEF Tick
  <2> QED
    BY <2>1, <2>2
<1>9. CASE LoopStep
  BY <1>2, <1>3, <1>4, <1>9 DEF LoopStep, Boot, BootFails, Run, LoopExit, Wait, AcceptRefused, Admit, AcceptFails,
      AddClient, Register, RegisterFails, Collect, CheckStop, Reap
<1>10. ASSUME NEW w \in Workers, WorkerStep(w) PROVE ContextTypes'
  BY <1>4, <1>5, <1>6, <1>10 DEF WorkerStep, StartTask, EndTask, Read, Interrupted, WriteLast, List,
      ListClient, Listed, WritePart, Rearm
<1>11. ASSUME NEW p \in Threads, CloseStep(p) PROVE ContextTypes'
  BY <1>4, <1>7, <1>11 DEF CloseStep, CloseRemove, CloseCheck, CloseLast, CloseShut
<1> QED
  BY <1>4, <1>8, <1>9, <1>10, <1>11 DEF Next, PeerStep, StopStep, Abort, Terminated, vars

LEMMA TypesPeer ==
  ASSUME Inv, Next
  PROVE  PeerTypes'
<1>1. PeerTypes
  BY TypeParts DEF Inv
<1> USE <1>1 DEF PeerTypes, peers
<1>2. CASE LoopStep
  BY <1>2 DEF LoopStep, Boot, BootFails, Run, LoopExit, Wait, AcceptRefused, Admit, AcceptFails, Accept,
      AddClient, Register, RegisterFails, Enqueue, EnqueueFails, Collect, CheckStop, Reap
<1>3. ASSUME NEW w \in Workers, WorkerStep(w) PROVE PeerTypes'
  BY <1>3 DEF WorkerStep, StartTask, EndTask, Read, Interrupted, WriteLast, List, ListClient, Listed, Mark,
              WritePart, Rearm, Late
<1>4. ASSUME NEW p \in Threads, CloseStep(p) PROVE PeerTypes'
  BY <1>4 DEF CloseStep, CloseDel, CloseRemove, CloseCheck, CloseLast, CloseFree, CloseShut
<1>5. CASE PeerStep \/ Tick \/ StopStep \/ Abort \/ UNCHANGED vars
  BY <1>5 DEF PeerStep, Connect, Send, Hangup, Tick, StopStep, Abort, vars
<1> QED
  BY <1>2, <1>3, <1>4, <1>5 DEF Next, Terminated

LEMMA TypesEpoll ==
  ASSUME Inv, Next
  PROVE  EpollTypes'
<1>1. EpollTypes
  BY TypeParts DEF Inv
<1> USE <1>1 DEF EpollTypes
<1>2. sock' \in [FDs -> Conns \cup {None}]
  <2>1. ASSUME NEW c \in Conns, Accept(c) PROVE sock' \in [FDs -> Conns \cup {None}]
    BY <2>1 DEF Accept, Gets
  <2>2. ASSUME NEW p \in Threads, CloseShut(p) PROVE sock' \in [FDs -> Conns \cup {None}]
    BY <2>2 DEF CloseShut
  <2> QED
    BY <2>1, <2>2, Writers
<1>3. reg' \in [FDs -> Registration \cup {None}]
  <2>1. CASE Wait
    <3>1. \A f \in FDs : reg'[f] \in Registration \cup {None}
      BY <2>1, WaitEvents
    <3>2. PICK B : Disarm(B)
      BY <2>1 DEF Wait
    <3> QED
      BY <3>1, <3>2 DEF Disarm
  <2>2. CASE Register
    BY <2>2, PtrTypes DEF Register, Adding, Registration
  <2>3. ASSUME NEW w \in Workers, Rearm(w) PROVE reg' \in [FDs -> Registration \cup {None}]
    <3>1. job[w].ptr \in Conns /\ mask[w] \in {"in", "out"}
      BY <2>3, PtrTypes DEF Rearm, Inv, TypeOK
    <3>2. [ptr |-> job[w].ptr, mask |-> mask[w]] \in Registration
      BY <3>1 DEF Registration
    <3> QED
      BY <2>3, <3>2 DEF Rearm, Modify
  <2>4. ASSUME NEW p \in Threads, CloseDel(p) \/ CloseShut(p)
        PROVE  reg' \in [FDs -> Registration \cup {None}]
    BY <2>4 DEF CloseDel, CloseShut, Deregister
  <2> QED
    BY <2>1, <2>2, <2>3, <2>4, Writers
<1> QED
  BY <1>2, <1>3

LEMMA TypesOfLoop ==
  ASSUME Inv, Next
  PROVE  LoopTypes'
<1>1. LoopTypes
  BY TypeParts DEF Inv
<1> USE <1>1 DEF LoopTypes, loop
<1>2. batch' \subseteq Event \cup {ListenEvent}
  <2>1. CASE Wait
    <3>1. \A f \in Armed : reg[f] \in Registration => EventAt(f) \in Event
      BY DEF Armed, EventAt, Event, Registration
    <3> QED
      BY <2>1, <3>1, WaitEvents
  <2> QED
    BY <2>1, Writers
<1>3. reap' \subseteq Conns
  <2>1. CASE Collect
    BY <2>1 DEF Collect, IdleClients, Inv, TypeOK
  <2> QED
    BY <2>1, Writers DEF Reap
<1>4. cur' \in Conns \cup {None}
  <2>1. ASSUME NEW e \in batch, EnqueueFails(e) PROVE cur' \in Conns
    BY <2>1, PtrTypes DEF EnqueueFails
  <2>2. CASE LoopStep
    BY <2>1, <2>2 DEF LoopStep, Boot, BootFails, Run, LoopExit, Wait, AcceptRefused, Admit, AcceptFails, Accept,
      AddClient, Register, RegisterFails, Enqueue, Collect, CheckStop, Reap
  <2>3. ASSUME NEW w \in Workers, WorkerStep(w) PROVE cur' = cur
    BY <2>3 DEF WorkerStep, StartTask, EndTask, Read, Interrupted, WriteLast, List, ListClient, Listed, Mark,
              WritePart, Rearm, Late
  <2>4. ASSUME NEW p \in Threads, CloseStep(p) PROVE cur' \in {cur, None}
    BY <2>4 DEF CloseStep, CloseDel, CloseRemove, CloseCheck, CloseLast, CloseFree, CloseShut
  <2>5. CASE PeerStep \/ Tick \/ StopStep \/ Abort \/ UNCHANGED vars
    BY <2>5 DEF PeerStep, Tick, StopStep, Abort, vars
  <2> QED
    BY <2>2, <2>3, <2>4, <2>5 DEF Next, Terminated
<1> QED
  BY <1>2, <1>3, <1>4

LEMMA TypesTask ==
  ASSUME Inv, Next
  PROVE  TaskTypes'
<1>1. TaskTypes
  BY TypeParts DEF Inv
<1>2. ASSUME NEW e \in batch, Enqueue(e) PROVE queue' \in Seq(Task)
  <2>1. [kind |-> IF e.mask = "in" THEN "read" ELSE "write", ptr |-> e.ptr] \in Task
    BY <1>2, PtrTypes DEF Enqueue, Task
  <2> QED
    BY <1>1, <1>2, <2>1 DEF Enqueue, Pool!Submit, TaskTypes
<1>3. queue' \in Seq(Task)
  BY <1>1, <1>2, TaskTaken, Writers DEF TaskTypes
<1>4. job' \in [Workers -> Task \cup {None}]
  BY <1>1, TaskTaken, Writers DEF TaskTypes, EndTask, Pool!Finish
<1> QED
  BY <1>3, <1>4 DEF TaskTypes

LEMMA TypesOfWorkers ==
  ASSUME Inv, Next
  PROVE  WorkerTypes'
<1>1. WorkerTypes /\ eclients \subseteq Conns
  BY TypeParts DEF Inv
<1> USE <1>1 DEF WorkerTypes, workers
<1>2. CASE LoopStep
  BY <1>2 DEF LoopStep, Boot, BootFails, Run, LoopExit, Wait, AcceptRefused, Admit, AcceptFails, Accept,
      AddClient, Register, RegisterFails, Enqueue, EnqueueFails, Collect, CheckStop, Reap
<1>3. ASSUME NEW w \in Workers, WorkerStep(w) PROVE WorkerTypes'
  <2>1. CASE StartTask(w) \/ EndTask(w)
    BY <2>1 DEF StartTask, EndTask
  <2>2. CASE Read(w) \/ Interrupted(w) \/ WriteLast(w)
    <3>1. snap' = snap
      BY <2>2 DEF Read, Interrupted, WriteLast
    <3>2. Closes(w) \/ \E m \in {"in", "out"}, next \in {"mark", "rearm"} : Wants(w, m, next)
      BY <2>2 DEF Read, Interrupted, WriteLast
    <3> QED
      BY <3>1, <3>2 DEF Closes, Wants
  <2>3. CASE List(w) \/ ListClient(w) \/ Listed(w)
    BY <2>3 DEF List, ListClient, Listed, Wants
  <2>4. CASE Mark(w) \/ WritePart(w) \/ Rearm(w) \/ Late(w)
    BY <2>4 DEF Mark, WritePart, Rearm, Late, Wants
  <2> QED
    BY <1>3, <2>1, <2>2, <2>3, <2>4 DEF WorkerStep
<1>4. ASSUME NEW p \in Threads, CloseStep(p) PROVE WorkerTypes'
  BY <1>4 DEF CloseStep, CloseDel, CloseRemove, CloseCheck, CloseLast, CloseFree, CloseShut
<1>5. CASE PeerStep \/ Tick \/ StopStep \/ Abort \/ UNCHANGED vars
  BY <1>5 DEF PeerStep, Tick, StopStep, Abort, vars
<1> QED
  BY <1>2, <1>3, <1>4, <1>5 DEF Next, Terminated

LEMMA TypesNext ==
  ASSUME Inv, Next
  PROVE  TypeOK'
<1>1. TypeOK' <=> /\ clients' \in 0..Cardinality(Conns) /\ eclients' \subseteq Conns
                  /\ StatusTypes' /\ ContextTypes' /\ PeerTypes' /\ EpollTypes' /\ LoopTypes'
                  /\ TaskTypes' /\ WorkerTypes'
  BY DEF TypeOK, StatusTypes, ContextTypes, PeerTypes, EpollTypes, LoopTypes, TaskTypes, WorkerTypes
<1> QED
  BY <1>1, TypesTable, TypesStatus, TypesContext, TypesPeer, TypesEpoll, TypesOfLoop, TypesTask,
     TypesOfWorkers

-----------------------------------------------------------------------------

LEMMA InvInit ==
  ASSUME Init
  PROVE  Inv
<1> USE SocketAssumption
<1>1. TypeOK
  <2>1. 0 \in 0..Cardinality(Conns)
    BY FS_CardinalityType
  <2>2. queue \in Seq(Task)
    BY DEF Init, Pool!Init
  <2>3. ContextTypes /\ PeerTypes
    BY DEF Init, ContextTypes, PeerTypes
  <2>4. EpollTypes /\ LoopTypes /\ StatusTypes /\ TaskTypes
    BY <2>2 DEF Init, Pool!Init, EpollTypes, LoopTypes, StatusTypes, TaskTypes
  <2>5. WorkerTypes
    BY DEF Init, WorkerTypes
  <2> QED
    BY <2>1, <2>3, <2>4, <2>5, TypeParts DEF Init
<1>2. Shape
  BY DEF Init, Pool!Init, Shape, WorkerShape, LoopShape, Adding, Threads
<1>3. Refs
  BY DEF Init, Pool!Init, Refs, Threads
<1>4. Closers
  BY DEF Init, Closers, Deleting, Threads
<1>5. Table
  BY FS_EmptySet DEF Init, Table, ClientsMatch, Threads
<1>6. Sockets
  BY DEF Init, Sockets, Held, Threads
<1> QED
  BY <1>1, <1>2, <1>3, <1>4, <1>5, <1>6 DEF Inv

LEMMA InvNext ==
  ASSUME Inv, [Next]_vars
  PROVE  Inv'
<1>1. CASE UNCHANGED vars
  <2>1. TypeOK'
    BY <1>1 DEF vars, table, contexts, peers, epoll, loop, pool, workers, Inv, TypeOK
  <2> QED
    BY <1>1, <2>1, OutsideKeeps DEF Inv, Outside
<1>2. CASE Next
  <2>1. Shape'
    BY <1>2, OutsideKeeps, ShapeLoop, ShapeWorker, ShapeClose DEF Next, Outside, Terminated
  <2>2. Closers'
    BY <1>2, OutsideKeeps, ClosersLoop, ClosersWorker, ClosersClose DEF Next, Outside, Terminated
  <2> QED
    BY <1>2, <2>1, <2>2, TypesNext, RefsNext, TableNext, SocketsNext DEF Inv
<1> QED
  BY <1>1, <1>2

\* The invariant, in every state of every behaviour.
THEOREM InvAlways == Spec => []Inv
BY InvInit, InvNext, PTL DEF Spec

\* Every variable has its type; the client counter is never negative, nor over
\* the number of connections.
THEOREM TypeCorrect == Spec => []TypeOK
<1>1. Inv => TypeOK
  BY DEF Inv
<1> QED
  BY <1>1, InvAlways, PTL

\* The counter and the table of clients agree, and no entry is of a deleted
\* context, though two threads close connections at once and the loop reaps what
\* a worker may be closing.
THEOREM ClientsAgree == Spec => []ClientsMatch
<1>1. Inv => ClientsMatch
  BY DEF Inv, Table
<1> QED
  BY <1>1, InvAlways, PTL

\* A context owns exactly its descriptor as long as it exists.
THEOREM SocketsOwned == Spec => []SocketOwned
<1>1. ASSUME Inv, NEW c \in Conns, Held(c)
      PROVE  {f \in FDs : sock[f] = c} = {fdof[c]}
  <2>1. fdof[c] \in FDs /\ sock[fdof[c]] = c
    BY <1>1 DEF Inv, Sockets
  <2>2. \A f \in FDs : sock[f] = c => f = fdof[c]
    BY <1>1, SocketAssumption DEF Inv, Sockets
  <2> QED
    BY <2>1, <2>2
<1>2. Inv => SocketOwned
  BY <1>1 DEF SocketOwned
<1> QED
  BY <1>2, InvAlways, PTL

=============================================================================
