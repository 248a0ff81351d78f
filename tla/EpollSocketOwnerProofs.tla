------------------------ MODULE EpollSocketOwnerProofs ------------------------
(***************************************************************************)
(* Who may touch a context: theorems about EpollSocket for any             *)
(* connections, workers, descriptors, limits and faults when no idle time  *)
(* is set (IdleMax = 0). With one the loop closes contexts that others     *)
(* have in hand. And, from that, that EpollSocket implements HttpService,  *)
(* when stop_epoll is not called before the loop runs (start_event_loop    *)
(* overwrites the status of an earlier stop).                              *)
(***************************************************************************)
EXTENDS EpollSocketProofs

\* The places a context may be in, as in Places.
IsArmed(c) == \E f \in Armed : reg[f].ptr = c
IsEvent(c) == \E e \in batch : e.ptr = c
IsQueued(c) == \E i \in DOMAIN queue : queue[i].ptr = c
OnIt(w, c) ==
    /\ pc[w] \in {"io", "listing", "mark", "rearm", "closing"} /\ stage[w] # "shut"
    /\ job[w].ptr = c
IsWorked(c) == \E w \in Workers : OnIt(w, c)
IsLooped(c) == cur = c /\ stage[Loop] # "shut"

\* At most once in a place.
OneEvent(c) == \A d, e \in batch : d.ptr = c /\ e.ptr = c => d = e
OneTask(c) == \A i, j \in DOMAIN queue : queue[i].ptr = c /\ queue[j].ptr = c => i = j
OneWorker(c) == \A v, w \in Workers : OnIt(v, c) /\ OnIt(w, c) => v = w

\* At most in one place.
Apart(c) ==
    /\ IsArmed(c) => ~IsEvent(c) /\ ~IsQueued(c) /\ ~IsWorked(c) /\ ~IsLooped(c)
    /\ IsEvent(c) => ~IsQueued(c) /\ ~IsWorked(c) /\ ~IsLooped(c)
    /\ IsQueued(c) => ~IsWorked(c) /\ ~IsLooped(c)
    /\ IsWorked(c) => ~IsLooped(c)

\* A context that exists is somewhere.
Placed(c) == Held(c) => IsArmed(c) \/ IsEvent(c) \/ IsQueued(c) \/ IsWorked(c) \/ IsLooped(c)

\* Who has it finds it live, until it deletes it.
FindsLive(c) ==
    /\ IsArmed(c) \/ IsEvent(c) \/ IsQueued(c) => mem[c] = "live"
    /\ \A w \in Workers : OnIt(w, c) /\ ~Deleting(w) => mem[c] = "live"
    /\ IsLooped(c) /\ ~Deleting(Loop) => mem[c] = "live"

Owned(c) == OneEvent(c) /\ OneTask(c) /\ OneWorker(c) /\ Apart(c) /\ Placed(c) /\ FindsLive(c)

\* A registration, armed or not, is of the live context that owns the socket, and
\* such a context has one as soon as the loop is done with it.
Attached ==
    /\ \A f \in FDs : reg[f] # None => mem[reg[f].ptr] = "live" /\ sock[f] = reg[f].ptr
    /\ \A c \in Conns : mem[c] = "live" /\ cur # c => reg[fdof[c]] # None

OwnInv == Inv /\ (\A c \in Conns : Owned(c)) /\ Attached /\ reap = {} /\ aborted # "context"

-----------------------------------------------------------------------------

\* A context whose places do not change.
LEMMA OwnedFrame ==
  ASSUME NEW c \in Conns, Owned(c), mem'[c] = mem[c],
         IsArmed(c)' <=> IsArmed(c),
         \A e : e.ptr = c => (e \in batch' <=> e \in batch),
         OneTask(c)', IsQueued(c)' <=> IsQueued(c),
         \A w \in Workers : OnIt(w, c)' <=> OnIt(w, c),
         \A w \in Workers : OnIt(w, c) => (Deleting(w)' <=> Deleting(w)),
         IsLooped(c)' <=> IsLooped(c),
         IsLooped(c) => (Deleting(Loop)' <=> Deleting(Loop))
  PROVE  Owned(c)'
<1>1. OneEvent(c)' /\ (IsEvent(c)' <=> IsEvent(c))
  BY DEF Owned, OneEvent, IsEvent
<1>2. OneWorker(c)' /\ (IsWorked(c)' <=> IsWorked(c))
  BY DEF Owned, OneWorker, IsWorked
<1>3. Apart(c)'
  BY <1>1, <1>2 DEF Owned, Apart
<1>4. Placed(c)'
  BY <1>1, <1>2 DEF Owned, Placed, Held
<1>5. FindsLive(c)'
  BY <1>1 DEF Owned, FindsLive
<1> QED
  BY <1>1, <1>2, <1>3, <1>4, <1>5 DEF Owned

\* Who is at the start of a step of the loop that takes an event, or of one that
\* accepts: the loop has no context.
LEMMA LoopFree ==
  ASSUME Inv, stage[Loop] = "none", ~Adding
  PROVE  cur = None
BY DEF Inv, Shape, LoopShape

\* Where a connection that is not Registered is.
LEMMA Nowhere ==
  ASSUME Inv, NEW c \in Conns, c \notin Registered
  PROVE  ~IsArmed(c) /\ ~IsEvent(c) /\ ~IsQueued(c) /\ ~IsWorked(c)
<1>1. ~IsArmed(c)
  BY DEF Inv, Refs, IsArmed, Armed
<1>2. ~IsEvent(c)
  BY SocketAssumption DEF Inv, Refs, IsEvent, ListenEvent
<1>3. ~IsQueued(c)
  BY DEF Inv, Refs, IsQueued
<1>4. ~IsWorked(c)
  BY DEF Inv, Refs, IsWorked, OnIt, Shape, WorkerShape
<1> QED
  BY <1>1, <1>2, <1>3, <1>4

LEMMA OwnedAccept ==
  ASSUME OwnInv, NEW a \in Conns, Accept(a), NEW c \in Conns
  PROVE  Owned(c)'
<1>1. /\ mem[a] = "none" /\ mem' = [mem EXCEPT ![a] = "live"] /\ cur' = a /\ cur = None
      /\ stage[Loop] = "none" /\ UNCHANGED <<reg, batch, queue, job, pc, stage>>
  BY DEF Accept, OwnInv, Inv, Shape, LoopShape, Refs, Adding, pool, workers
<1>2. \A e : e.ptr = c => (e \in batch' <=> e \in batch)
  BY <1>1
<1>3. /\ IsArmed(c)' <=> IsArmed(c)
      /\ OneTask(c)' <=> OneTask(c)
      /\ IsQueued(c)' <=> IsQueued(c)
  BY <1>1 DEF IsArmed, Armed, OneTask, IsQueued
<1>4. \A w \in Workers : (OnIt(w, c)' <=> OnIt(w, c)) /\ (Deleting(w)' <=> Deleting(w))
  BY <1>1 DEF OnIt, Deleting
<1>5. CASE c # a
  <2>1. IsLooped(c)' <=> IsLooped(c)
    BY <1>1, <1>5, SocketAssumption DEF IsLooped
  <2>2. mem'[c] = mem[c] /\ (Deleting(Loop)' <=> Deleting(Loop))
    BY <1>1, <1>5 DEF OwnInv, Inv, TypeOK, Deleting
  <2>3. Owned(c) /\ OneTask(c)'
    BY <1>3 DEF OwnInv, Owned
  <2> QED
    BY <1>2, <1>3, <1>4, <2>1, <2>2, <2>3, OwnedFrame
<1>6. CASE c = a
  <2>1. ~IsArmed(c) /\ ~IsEvent(c) /\ ~IsQueued(c) /\ ~IsWorked(c)
    BY <1>1, <1>6, Nowhere DEF OwnInv, Registered
  <2>2. ~IsArmed(c)' /\ ~IsEvent(c)' /\ ~IsQueued(c)' /\ ~IsWorked(c)'
    BY <1>2, <1>3, <1>4, <2>1 DEF IsEvent, IsWorked
  <2>3. IsLooped(c)' /\ mem'[c] = "live"
    BY <1>1, <1>6 DEF IsLooped, OwnInv, Inv, TypeOK
  <2>4. OneEvent(c)' /\ OneTask(c)' /\ OneWorker(c)'
    BY <2>2 DEF OneEvent, OneTask, OneWorker, IsEvent, IsQueued, IsWorked
  <2>5. Apart(c)' /\ Placed(c)' /\ FindsLive(c)'
    BY <2>2, <2>3 DEF Apart, Placed, FindsLive, IsWorked
  <2> QED
    BY <2>4, <2>5 DEF Owned
<1> QED
  BY <1>5, <1>6

LEMMA OwnedRegister ==
  ASSUME OwnInv, Register, NEW c \in Conns
  PROVE  Owned(c)'
<1>1. /\ cur \in Conns /\ cur \notin Registered /\ mem[cur] = "live" /\ cur' = None
      /\ stage[Loop] = "none" /\ UNCHANGED <<mem, batch, queue, job, pc, stage>>
      /\ reg' = [reg EXCEPT ![fdof[cur]] = [ptr |-> cur, mask |-> "in"]]
  BY DEF Register, OwnInv, Inv, Shape, LoopShape, Adding, Registered, contexts, pool, workers
<1>2. fdof[cur] \in FDs /\ sock[fdof[cur]] = cur
  BY <1>1 DEF OwnInv, Inv, Sockets, Held
<1>3. reg[fdof[cur]] = None
  BY <1>1, <1>2 DEF OwnInv, Attached, Inv, Refs
<1>4. \A f \in FDs : reg'[f] = (IF f = fdof[cur] THEN [ptr |-> cur, mask |-> "in"] ELSE reg[f])
  BY <1>1 DEF OwnInv, Inv, TypeOK
<1>5. /\ OneTask(c)' <=> OneTask(c)
      /\ IsQueued(c)' <=> IsQueued(c)
      /\ OneEvent(c)' <=> OneEvent(c)
      /\ IsEvent(c)' <=> IsEvent(c)
  BY <1>1 DEF OneTask, IsQueued, OneEvent, IsEvent
<1>6. \A w \in Workers : (OnIt(w, c)' <=> OnIt(w, c)) /\ (Deleting(w)' <=> Deleting(w))
  BY <1>1 DEF OnIt, Deleting
<1>7. CASE c # cur
  <2>1. IsLooped(c)' <=> IsLooped(c)
    BY <1>1, <1>7, SocketAssumption DEF IsLooped
  <2>2. IsArmed(c)' <=> IsArmed(c)
    BY <1>2, <1>3, <1>4, <1>7 DEF IsArmed, Armed
  <2>3. Owned(c) /\ OneTask(c)' /\ (Deleting(Loop)' <=> Deleting(Loop))
    BY <1>1, <1>5 DEF OwnInv, Owned, Deleting
  <2> QED
    BY <1>1, <1>5, <1>6, <2>1, <2>2, <2>3, OwnedFrame
<1>8. CASE c = cur
  <2>1. ~IsEvent(c)' /\ ~IsQueued(c)' /\ ~IsWorked(c)'
    BY <1>1, <1>5, <1>6, <1>8, Nowhere DEF OwnInv, IsWorked
  <2>2. ~IsLooped(c)' /\ mem'[c] = "live"
    BY <1>1, <1>8, SocketAssumption DEF IsLooped
  <2>3. IsArmed(c)'
    BY <1>2, <1>4, <1>8, SocketAssumption DEF IsArmed, Armed, Registration
  <2>4. OneEvent(c)' /\ OneTask(c)' /\ OneWorker(c)'
    BY <2>1 DEF OneEvent, OneTask, OneWorker, IsEvent, IsQueued, IsWorked
  <2>5. Apart(c)' /\ Placed(c)' /\ FindsLive(c)'
    BY <2>1, <2>2, <2>3 DEF Apart, Placed, FindsLive, IsWorked
  <2> QED
    BY <2>4, <2>5 DEF Owned
<1> QED
  BY <1>7, <1>8

\* epoll_wait takes a reported registration out of the armed ones.
LEMMA OwnedWait ==
  ASSUME OwnInv, Wait, NEW c \in Conns
  PROVE  Owned(c)'
<1>1. batch = {} /\ UNCHANGED <<mem, queue, job, pc, cur, stage>>
  BY DEF Wait, OwnInv, Inv, Shape, LoopShape, Adding, contexts, pool, workers
<1>2. \A e \in batch' : e # ListenEvent =>
         \E f \in FDs : f \in Armed /\ e.fd = f /\ e.ptr = reg[f].ptr /\ e = EventAt(f)
  BY WaitEvents DEF OwnInv, EventAt
<1>3. \A f \in FDs : reg'[f] # None =>
                /\ reg[f] # None /\ reg'[f].ptr = reg[f].ptr
                /\ reg'[f].mask = IF \E e \in batch' : e.fd = f THEN "off" ELSE reg[f].mask
  BY WaitEvents DEF OwnInv
<1>4. \A f \in FDs : reg[f] # None => reg'[f] # None
  BY WaitEvents, SocketAssumption DEF OwnInv
<1>5. \A f \in FDs : reg[f] # None /\ reg[f].ptr = c => f = fdof[c]
  BY SocketAssumption DEF OwnInv, Attached, Inv, Sockets
<1>6. \A e \in batch' : e.ptr = c => e # ListenEvent
  BY SocketAssumption DEF ListenEvent
<1>7. /\ OneTask(c)' <=> OneTask(c)
      /\ IsQueued(c)' <=> IsQueued(c)
      /\ IsLooped(c)' <=> IsLooped(c)
      /\ Deleting(Loop)' <=> Deleting(Loop)
  BY <1>1 DEF OneTask, IsQueued, IsLooped, Deleting
<1>8. \A w \in Workers : (OnIt(w, c)' <=> OnIt(w, c)) /\ (Deleting(w)' <=> Deleting(w))
  BY <1>1 DEF OnIt, Deleting
<1>9. \A e \in batch' : e.ptr = c => IsArmed(c) /\ e = EventAt(fdof[c])
  BY <1>2, <1>5, <1>6 DEF IsArmed, Armed
<1>10. IsArmed(c)' => IsArmed(c) /\ ~IsEvent(c)'
  <2>1. ASSUME NEW f \in FDs, f \in Armed', reg'[f].ptr = c PROVE IsArmed(c) /\ ~IsEvent(c)'
    <3>1. reg[f] # None /\ reg[f].ptr = c /\ reg'[f].mask # "off" /\ f = fdof[c]
      BY <1>3, <1>5, <2>1 DEF Armed
    <3>2. ~\E e \in batch' : e.fd = f
      BY <1>3, <2>1, <3>1 DEF Armed
    <3>3. reg[f].mask # "off"
      BY <1>3, <2>1, <3>1, <3>2 DEF Armed
    <3>4. ~\E e \in batch' : e.ptr = c
      BY <1>2, <1>5, <1>6, <3>1, <3>2 DEF Armed
    <3> QED
      BY <3>1, <3>3, <3>4 DEF IsArmed, Armed, IsEvent
  <2> QED
    BY <2>1 DEF IsArmed, Armed
<1>11. IsArmed(c) => IsArmed(c)' \/ IsEvent(c)'
  <2>1. ASSUME NEW f \in FDs, f \in Armed, reg[f].ptr = c PROVE IsArmed(c)' \/ IsEvent(c)'
    <3>1. reg[f] # None /\ reg[f].mask # "off" /\ reg'[f] # None /\ reg'[f].ptr = c
      BY <1>3, <1>4, <2>1 DEF Armed
    <3>2. CASE \E e \in batch' : e.fd = f
      <4>1. PICK e \in batch' : e.fd = f
        BY <3>2
      <4>2. e # ListenEvent
        BY <4>1, SocketAssumption DEF ListenEvent, FDs
      <4>3. e.ptr = c
        BY <1>2, <2>1, <4>1, <4>2
      <4> QED
        BY <4>3 DEF IsEvent
    <3>3. CASE ~\E e \in batch' : e.fd = f
      BY <1>3, <3>1, <3>3 DEF IsArmed, Armed
    <3> QED
      BY <3>2, <3>3
  <2> QED
    BY <2>1 DEF IsArmed, Armed
<1>12. Owned(c) /\ ~IsEvent(c)
  BY <1>1 DEF OwnInv, IsEvent
<1>13. IsEvent(c)' => IsArmed(c)
  BY <1>9 DEF IsEvent
<1>14. OneEvent(c)' /\ OneTask(c)' /\ OneWorker(c)'
  BY <1>7, <1>8, <1>9, <1>12 DEF OneEvent, Owned, OneWorker
<1>15. IsWorked(c)' <=> IsWorked(c)
  BY <1>8 DEF IsWorked
<1>16. Apart(c)'
  BY <1>7, <1>10, <1>12, <1>13, <1>15 DEF Owned, Apart
<1>17. Placed(c)'
  BY <1>1, <1>7, <1>11, <1>12, <1>15 DEF Owned, Placed, Held
<1>18. FindsLive(c)'
  BY <1>1, <1>7, <1>8, <1>10, <1>12, <1>13 DEF Owned, FindsLive
<1> QED
  BY <1>14, <1>16, <1>17, <1>18 DEF Owned

\* The loop takes the event of a connection out of its batch.
LEMMA EventTaken ==
  ASSUME OwnInv, NEW e \in batch, e # ListenEvent, Handles(e)
  PROVE  /\ e.ptr \in Conns /\ mem[e.ptr] = "live" /\ cur = None /\ stage[Loop] = "none"
         /\ ~IsArmed(e.ptr) /\ ~IsQueued(e.ptr) /\ ~IsWorked(e.ptr)
         /\ ~IsEvent(e.ptr)' /\ OneEvent(e.ptr)'
         /\ \A c \in Conns : c # e.ptr => \A d : d.ptr = c => (d \in batch' <=> d \in batch)
<1>1. batch' = batch \ {e} /\ stage[Loop] = "none" /\ cur = None
  BY LoopFree DEF Handles, Adding, OwnInv
<1>2. e.ptr \in Conns /\ Owned(e.ptr) /\ IsEvent(e.ptr)
  BY PtrTypes DEF OwnInv, IsEvent
<1>3. mem[e.ptr] = "live" /\ ~IsArmed(e.ptr) /\ ~IsQueued(e.ptr) /\ ~IsWorked(e.ptr)
  BY <1>2 DEF Owned, FindsLive, Apart
<1>4. ~IsEvent(e.ptr)' /\ OneEvent(e.ptr)'
  BY <1>1, <1>2 DEF Owned, OneEvent, IsEvent
<1> QED
  BY <1>1, <1>2, <1>3, <1>4

LEMMA OwnedEnqueue ==
  ASSUME OwnInv, NEW e \in batch, Enqueue(e), NEW c \in Conns
  PROVE  Owned(c)'
<1> DEFINE t == [kind |-> IF e.mask = "in" THEN "read" ELSE "write", ptr |-> e.ptr]
<1>1. /\ e # ListenEvent /\ Handles(e) /\ Pool!Submit(t)
      /\ UNCHANGED <<mem, reg, job, pc, cur, stage>>
  BY DEF Enqueue, Pool!Submit, epoll, workers
<1>2. t \in Task /\ t.ptr = e.ptr
  BY <1>1, PtrTypes DEF OwnInv, Task
<1> HIDE DEF t
<1>3. /\ \A i \in DOMAIN queue : i \in DOMAIN queue' /\ queue'[i] = queue[i]
      /\ \A i \in DOMAIN queue' : i \in DOMAIN queue \/ (i = Len(queue) + 1 /\ queue'[i] = t)
      /\ Len(queue) + 1 \in DOMAIN queue' /\ queue'[Len(queue) + 1] = t
  BY <1>1, <1>2, TaskQueued DEF OwnInv
<1>4. /\ IsArmed(c)' <=> IsArmed(c)
      /\ IsLooped(c)' <=> IsLooped(c)
      /\ Deleting(Loop)' <=> Deleting(Loop)
  BY <1>1 DEF IsArmed, Armed, IsLooped, Deleting
<1>5. \A w \in Workers : (OnIt(w, c)' <=> OnIt(w, c)) /\ (Deleting(w)' <=> Deleting(w))
  BY <1>1 DEF OnIt, Deleting
<1>6. Owned(c)
  BY DEF OwnInv
<1>7. CASE c # e.ptr
  <2>1. OneTask(c)' /\ (IsQueued(c)' <=> IsQueued(c))
    BY <1>2, <1>3, <1>6, <1>7 DEF OneTask, IsQueued, Owned
  <2>2. \A d : d.ptr = c => (d \in batch' <=> d \in batch)
    BY <1>1, <1>7, EventTaken
  <2> QED
    BY <1>1, <1>4, <1>5, <1>6, <2>1, <2>2, OwnedFrame
<1>8. CASE c = e.ptr
  <2>1. mem'[c] = "live" /\ ~IsArmed(c)' /\ ~IsWorked(c)' /\ ~IsEvent(c)' /\ OneEvent(c)' /\ ~IsLooped(c)'
    BY <1>1, <1>4, <1>5, <1>8, EventTaken, SocketAssumption DEF IsWorked, IsLooped
  <2>2. IsQueued(c)' /\ OneTask(c)'
    BY <1>1, <1>2, <1>3, <1>8, EventTaken DEF IsQueued, OneTask
  <2>3. OneWorker(c)'
    BY <2>1 DEF IsWorked, OneWorker
  <2>4. Apart(c)' /\ Placed(c)' /\ FindsLive(c)'
    BY <2>1, <2>2 DEF Apart, Placed, FindsLive, IsWorked
  <2> QED
    BY <2>1, <2>2, <2>3, <2>4 DEF Owned
<1> QED
  BY <1>7, <1>8

LEMMA OwnedEnqueueFails ==
  ASSUME OwnInv, NEW e \in batch, EnqueueFails(e), NEW c \in Conns
  PROVE  Owned(c)'
<1>1. /\ e # ListenEvent /\ Handles(e) /\ cur' = e.ptr
      /\ stage' = [stage EXCEPT ![Loop] = "del"]
      /\ UNCHANGED <<mem, reg, queue, job, pc>>
  BY DEF EnqueueFails, epoll, workers, pool
<1>2. stage'[Loop] = "del" /\ \A w \in Workers : stage'[w] = stage[w]
  BY <1>1, SocketAssumption DEF OwnInv, Inv, TypeOK, Threads
<1>3. /\ IsArmed(c)' <=> IsArmed(c)
      /\ OneTask(c)' <=> OneTask(c)
      /\ IsQueued(c)' <=> IsQueued(c)
  BY <1>1 DEF IsArmed, Armed, OneTask, IsQueued
<1>4. \A w \in Workers : (OnIt(w, c)' <=> OnIt(w, c)) /\ (Deleting(w)' <=> Deleting(w))
  BY <1>1, <1>2 DEF OnIt, Deleting
<1>5. Owned(c)
  BY DEF OwnInv
<1>6. CASE c # e.ptr
  <2>1. ~IsLooped(c) /\ ~IsLooped(c)'
    BY <1>1, <1>6, EventTaken, SocketAssumption DEF IsLooped
  <2>2. \A d : d.ptr = c => (d \in batch' <=> d \in batch)
    BY <1>1, <1>6, EventTaken
  <2>3. OneTask(c)'
    BY <1>3, <1>5 DEF Owned
  <2> QED
    BY <1>1, <1>3, <1>4, <1>5, <2>1, <2>2, <2>3, OwnedFrame
<1>7. CASE c = e.ptr
  <2>1. /\ mem'[c] = "live" /\ ~IsArmed(c)' /\ ~IsWorked(c)' /\ ~IsEvent(c)' /\ OneEvent(c)'
        /\ ~IsQueued(c)'
    BY <1>1, <1>3, <1>4, <1>7, EventTaken DEF IsWorked
  <2>2. IsLooped(c)'
    BY <1>1, <1>2, <1>7 DEF IsLooped
  <2>3. OneWorker(c)' /\ OneTask(c)'
    BY <2>1 DEF IsWorked, OneWorker, IsQueued, OneTask
  <2>4. Apart(c)' /\ Placed(c)' /\ FindsLive(c)'
    BY <2>1, <2>2 DEF Apart, Placed, FindsLive, IsWorked
  <2> QED
    BY <2>1, <2>3, <2>4 DEF Owned
<1> QED
  BY <1>6, <1>7

\* The other steps of the loop move no context.
LEMMA OwnedLoop ==
  ASSUME OwnInv, IdleMax = 0, LoopStep, NEW c \in Conns
  PROVE  Owned(c)'
<1>1. ASSUME UNCHANGED <<mem, reg, queue, job, pc, cur>>, UNCHANGED batch \/ batch' = batch \ {ListenEvent},
             UNCHANGED stage \/ (stage[Loop] = "none" /\ stage' = [stage EXCEPT ![Loop] = "del"])
      PROVE  Owned(c)'
  <2>1. \A w \in Workers : stage'[w] = stage[w]
    BY <1>1, SocketAssumption DEF OwnInv, Inv, TypeOK, Threads
  <2>2. stage'[Loop] = stage[Loop] \/ (stage[Loop] = "none" /\ stage'[Loop] = "del")
    BY <1>1 DEF OwnInv, Inv, TypeOK, Threads
  <2>3. /\ IsArmed(c)' <=> IsArmed(c)
        /\ OneTask(c)' <=> OneTask(c)
        /\ IsQueued(c)' <=> IsQueued(c)
    BY <1>1 DEF IsArmed, Armed, OneTask, IsQueued
  <2>4. /\ IsLooped(c)' <=> IsLooped(c)
        /\ Deleting(Loop)' <=> Deleting(Loop)
    BY <1>1, <2>2 DEF IsLooped, Deleting
  <2>5. \A w \in Workers : (OnIt(w, c)' <=> OnIt(w, c)) /\ (Deleting(w)' <=> Deleting(w))
    BY <1>1, <2>1 DEF OnIt, Deleting
  <2>6. \A e : e.ptr = c => (e \in batch' <=> e \in batch)
    BY <1>1, SocketAssumption DEF ListenEvent
  <2>7. Owned(c) /\ OneTask(c)' /\ mem'[c] = mem[c]
    BY <1>1, <2>3 DEF OwnInv, Owned
  <2> QED
    BY <2>3, <2>4, <2>5, <2>6, <2>7, OwnedFrame
<1>2. CASE Boot \/ BootFails \/ Run \/ LoopExit \/ AcceptRefused \/ Admit \/ AcceptFails \/ AddClient \/ Collect \/ CheckStop
  <2>1. /\ UNCHANGED <<mem, reg, queue, job, pc, cur, stage>>
        /\ UNCHANGED batch \/ batch' = batch \ {ListenEvent}
    BY <1>2 DEF Boot, BootFails, Run, LoopExit, AcceptRefused, Admit, AcceptFails, Handles, AddClient, Collect,
        CheckStop, InitTp, Pool!Open, contexts, epoll, pool, workers
  <2> QED
    BY <1>1, <2>1
<1>3. CASE RegisterFails
  <2>1. stage[Loop] = "none"
    BY <1>3 DEF RegisterFails, OwnInv, Inv, Shape, LoopShape, Adding
  <2> QED
    BY <1>1, <1>3, <2>1 DEF RegisterFails, contexts, epoll, pool, workers
<1>4. ASSUME NEW d \in Conns, Reap(d) PROVE FALSE
  BY <1>4 DEF Reap, OwnInv
<1> QED
  BY <1>2, <1>3, <1>4, OwnedAccept, OwnedRegister, OwnedWait, OwnedEnqueue, OwnedEnqueueFails
     DEF LoopStep

\* A worker takes the oldest task.
LEMMA OwnedStart ==
  ASSUME OwnInv, NEW w \in Workers, StartTask(w), NEW c \in Conns
  PROVE  Owned(c)'
<1> DEFINE b == queue[1].ptr
<1>1. /\ Head(queue) \in Task /\ Head(queue) = queue[1] /\ 1 \in DOMAIN queue
      /\ \A i \in DOMAIN queue' : i + 1 \in DOMAIN queue /\ queue'[i] = queue[i + 1]
      /\ \A i \in DOMAIN queue : i # 1 => \E j \in DOMAIN queue' : i = j + 1
      /\ \A i \in DOMAIN queue' : i \in Nat \ {0}
      /\ job' = [job EXCEPT ![w] = Head(queue)] /\ job[w] = None
  <2>1. \A i \in DOMAIN queue : i # 1 => i - 1 \in DOMAIN queue' /\ i = (i - 1) + 1
    BY TaskTaken DEF OwnInv, Inv, TypeOK
  <2>2. \A i \in DOMAIN queue' : i \in Nat \ {0}
    BY TaskTaken DEF OwnInv
  <2> QED
    BY <2>1, <2>2, TaskTaken DEF OwnInv
<1>2. UNCHANGED <<mem, reg, batch, cur, stage>> /\ pc' = [pc EXCEPT ![w] = "io"]
  BY DEF StartTask, contexts, epoll, loop
<1>3. /\ pc'[w] = "io" /\ job'[w] = queue[1] /\ stage'[w] = "none" /\ pc[w] = "idle"
      /\ \A v \in Workers : v # w => pc'[v] = pc[v] /\ job'[v] = job[v]
  BY <1>1, <1>2 DEF OwnInv, Inv, TypeOK, Shape, WorkerShape
<1>4. b \in Conns
  BY <1>1 DEF Task
<1>5. \A v \in Workers : v # w => (OnIt(v, c)' <=> OnIt(v, c)) /\ (Deleting(v)' <=> Deleting(v))
  BY <1>2, <1>3 DEF OnIt, Deleting
<1>6. ~OnIt(w, c) /\ (OnIt(w, c)' <=> b = c) /\ ~Deleting(w)'
  BY <1>3 DEF OnIt, Deleting
<1>7. /\ IsArmed(c)' <=> IsArmed(c)
      /\ IsEvent(c)' <=> IsEvent(c)
      /\ OneEvent(c)' <=> OneEvent(c)
      /\ IsLooped(c)' <=> IsLooped(c)
      /\ Deleting(Loop)' <=> Deleting(Loop)
  BY <1>2 DEF IsArmed, Armed, IsEvent, OneEvent, IsLooped, Deleting
<1>8. Owned(c)
  BY DEF OwnInv
<1>9. OneTask(c)'
  BY <1>1, <1>8 DEF OneTask, Owned
<1>10. CASE c # b
  <2>1. IsQueued(c)' <=> IsQueued(c)
    BY <1>1, <1>10 DEF IsQueued
  <2> QED
    BY <1>2, <1>5, <1>6, <1>7, <1>8, <1>9, <1>10, <2>1, OwnedFrame
<1>11. CASE c = b
  <2>1. IsQueued(c)
    BY <1>1, <1>11 DEF IsQueued
  <2>2. ~IsQueued(c)'
    BY <1>1, <1>8, <1>11 DEF IsQueued, OneTask, Owned
  <2>3. /\ mem[c] = "live" /\ ~IsArmed(c) /\ ~IsEvent(c) /\ ~IsWorked(c) /\ ~IsLooped(c)
        /\ OneEvent(c)
    BY <1>8, <2>1 DEF Owned, FindsLive, Apart
  <2>4. \A v \in Workers : OnIt(v, c)' <=> v = w
    BY <1>5, <1>6, <1>11, <2>3 DEF IsWorked
  <2>5. OneWorker(c)' /\ IsWorked(c)'
    BY <2>4 DEF OneWorker, IsWorked
  <2>6. Apart(c)' /\ Placed(c)' /\ FindsLive(c)'
    BY <1>2, <1>7, <2>2, <2>3, <2>5 DEF Apart, Placed, FindsLive
  <2> QED
    BY <1>7, <1>9, <2>3, <2>5, <2>6 DEF Owned
<1> QED
  BY <1>10, <1>11

\* It re-arms the connection and is done with it.
LEMMA OwnedRearm ==
  ASSUME OwnInv, NEW w \in Workers, Rearm(w), NEW c \in Conns
  PROVE  Owned(c)'
<1> DEFINE b == job[w].ptr
<1>1. b \in Conns /\ OnIt(w, b) /\ ~Deleting(w)
  BY PtrTypes DEF Rearm, OnIt, Deleting, OwnInv, Inv, Shape, WorkerShape
<1>2. Owned(b) /\ mem[b] = "live" /\ ~IsLooped(b)
  BY <1>1 DEF OwnInv, Owned, FindsLive, Apart, IsWorked
<1>3. cur # b
  BY <1>2 DEF IsLooped, OwnInv, Inv, Closers, Cur, Threads
<1>4. fdof[b] \in FDs /\ reg[fdof[b]] # None /\ reg[fdof[b]].ptr = b
  BY <1>1, <1>2, <1>3 DEF OwnInv, Attached, Inv, Sockets, Held
<1>5. /\ reg' = [reg EXCEPT ![fdof[b]] = [ptr |-> b, mask |-> mask[w]]]
      /\ mask[w] \in {"in", "out"}
      /\ UNCHANGED <<mem, batch, queue, job, cur, stage>>
  BY <1>4 DEF Rearm, Modify, contexts, loop, pool, OwnInv, Inv, TypeOK
<1>6. /\ pc'[w] \in {"late", "end"}
      /\ \A v \in Workers : v # w => pc'[v] = pc[v]
  BY DEF Rearm, OwnInv, Inv, TypeOK
<1> HIDE DEF b
<1>7. \A f \in FDs : reg'[f] = (IF f = fdof[b] THEN [ptr |-> b, mask |-> mask[w]] ELSE reg[f])
  BY <1>5 DEF OwnInv, Inv, TypeOK
<1>8. \A v \in Workers : v # w => (OnIt(v, c)' <=> OnIt(v, c)) /\ (Deleting(v)' <=> Deleting(v))
  BY <1>5, <1>6 DEF OnIt, Deleting
<1>9. ~OnIt(w, c)'
  BY <1>6 DEF OnIt
<1>10. /\ OneTask(c)' <=> OneTask(c)
       /\ IsQueued(c)' <=> IsQueued(c)
       /\ IsEvent(c)' <=> IsEvent(c)
       /\ OneEvent(c)' <=> OneEvent(c)
       /\ IsLooped(c)' <=> IsLooped(c)
       /\ Deleting(Loop)' <=> Deleting(Loop)
  BY <1>5 DEF OneTask, IsQueued, IsEvent, OneEvent, IsLooped, Deleting
<1>11. Owned(c)
  BY DEF OwnInv
<1>12. CASE c # b
  <2>1. ~OnIt(w, c)
    BY <1>12 DEF OnIt, b
  <2>2. IsArmed(c)' <=> IsArmed(c)
    BY <1>4, <1>7, <1>12 DEF IsArmed, Armed
  <2>3. OneTask(c)'
    BY <1>10, <1>11 DEF Owned
  <2> QED
    BY <1>5, <1>8, <1>9, <1>10, <1>11, <2>1, <2>2, <2>3, OwnedFrame
<1>13. CASE c = b
  <2>1. /\ ~IsArmed(c) /\ ~IsEvent(c) /\ ~IsQueued(c) /\ ~IsLooped(c)
        /\ \A v \in Workers : OnIt(v, c) => v = w
    BY <1>1, <1>2, <1>13 DEF Owned, Apart, OneWorker, IsWorked
  <2>2. ~IsWorked(c)' /\ OneWorker(c)'
    BY <1>8, <1>9, <2>1 DEF IsWorked, OneWorker
  <2>3. [ptr |-> b, mask |-> mask[w]] \in Registration
    BY <1>1, <1>5 DEF Registration
  <2>4. IsArmed(c)'
    BY <1>4, <1>5, <1>7, <1>13, <2>3, SocketAssumption DEF IsArmed, Armed
  <2>5. Apart(c)' /\ Placed(c)' /\ FindsLive(c)'
    BY <1>2, <1>5, <1>10, <1>13, <2>1, <2>2, <2>4 DEF Apart, Placed, FindsLive, IsWorked
  <2> QED
    BY <1>10, <1>11, <2>2, <2>5 DEF Owned
<1> QED
  BY <1>12, <1>13

\* A step in which every thread keeps the contexts it has.
LEMMA OwnedKept ==
  ASSUME OwnInv, NEW c \in Conns, UNCHANGED <<mem, reg, batch, queue, cur>>,
         \A w \in Workers : OnIt(w, c)' <=> OnIt(w, c),
         \A w \in Workers : OnIt(w, c) => (Deleting(w)' <=> Deleting(w)),
         IsLooped(c)' <=> IsLooped(c), Deleting(Loop)' <=> Deleting(Loop)
  PROVE  Owned(c)'
<1>1. /\ OneTask(c)' <=> OneTask(c)
      /\ IsQueued(c)' <=> IsQueued(c)
      /\ IsArmed(c)' <=> IsArmed(c)
  BY DEF OneTask, IsQueued, IsArmed, Armed
<1>2. Owned(c) /\ OneTask(c)'
  BY <1>1 DEF OwnInv, Owned
<1> QED
  BY <1>1, <1>2, OwnedFrame

LEMMA OwnedWorker ==
  ASSUME OwnInv, NEW w \in Workers, WorkerStep(w), NEW c \in Conns
  PROVE  Owned(c)'
<1> DEFINE Busy == {"io", "listing", "mark", "rearm", "closing"}
<1>1. CASE Read(w) \/ Interrupted(w) \/ WriteLast(w) \/ List(w) \/ ListClient(w) \/ Listed(w) \/ Mark(w) \/ WritePart(w)
  <2>1. UNCHANGED <<mem, reg, batch, queue, cur, job>>
    BY <1>1 DEF Read, Interrupted, WriteLast, List, ListClient, Listed, Mark, WritePart, contexts, epoll, loop, pool
  <2>2. /\ pc[w] \in Busy \ {"closing"} /\ pc'[w] \in Busy /\ stage'[w] \in {stage[w], "del"}
        /\ \A v \in Workers : v # w => pc'[v] = pc[v]
        /\ \A p \in Threads : p # w => stage'[p] = stage[p]
    BY <1>1 DEF Read, Interrupted, WriteLast, List, ListClient, Listed, Mark, WritePart, Wants, Closes,
        OwnInv, Inv, TypeOK
  <2>3. stage[w] = "none"
    BY <2>2 DEF OwnInv, Inv, Shape, WorkerShape
  <2>4. \A v \in Workers : (OnIt(v, c)' <=> OnIt(v, c)) /\ (Deleting(v)' <=> Deleting(v))
    BY <2>1, <2>2, <2>3 DEF OnIt, Deleting, Threads
  <2>5. (IsLooped(c)' <=> IsLooped(c)) /\ (Deleting(Loop)' <=> Deleting(Loop))
    BY <2>1, <2>2, SocketAssumption DEF Threads, IsLooped, Deleting
  <2> QED
    BY <2>1, <2>4, <2>5, OwnedKept
<1>2. CASE Late(w) \/ EndTask(w)
  <2>1. UNCHANGED <<mem, reg, batch, queue, cur, stage>>
    BY <1>2 DEF Late, EndTask, Pool!Finish, contexts, epoll, loop, pool
  <2>2. /\ pc[w] \notin Busy /\ pc'[w] \notin Busy
        /\ \A v \in Workers : v # w => pc'[v] = pc[v] /\ job'[v] = job[v]
    BY <1>2 DEF Late, EndTask, Pool!Finish, pool, OwnInv, Inv, TypeOK
  <2>3. \A v \in Workers : (OnIt(v, c)' <=> OnIt(v, c)) /\ (Deleting(v)' <=> Deleting(v))
    BY <2>1, <2>2 DEF OnIt, Deleting
  <2>4. (IsLooped(c)' <=> IsLooped(c)) /\ (Deleting(Loop)' <=> Deleting(Loop))
    BY <2>1 DEF IsLooped, Deleting
  <2> QED
    BY <2>1, <2>3, <2>4, OwnedKept
<1> QED
  BY <1>1, <1>2, OwnedStart, OwnedRearm DEF WorkerStep

\* A thread that closes a context, up to delete, is its only place.
LEMMA CloserAlone ==
  ASSUME OwnInv, NEW p \in Threads, stage[p] \notin {"none", "shut"}
  PROVE  /\ Cur(p) \in Conns
         /\ ~IsArmed(Cur(p)) /\ ~IsEvent(Cur(p)) /\ ~IsQueued(Cur(p))
         /\ \A w \in Workers : OnIt(w, Cur(p)) <=> w = p
         /\ IsLooped(Cur(p)) <=> p = Loop
         /\ stage[p] = "del" => mem[Cur(p)] = "live"
<1>1. Cur(p) \in Conns /\ Owned(Cur(p))
  BY CurType DEF OwnInv
<1>2. CASE p = Loop
  <2>1. IsLooped(Cur(p)) /\ p \notin Workers
    BY <1>2, SocketAssumption DEF IsLooped, Cur
  <2>2. /\ ~IsArmed(Cur(p)) /\ ~IsEvent(Cur(p)) /\ ~IsQueued(Cur(p))
        /\ \A w \in Workers : ~OnIt(w, Cur(p))
    BY <1>1, <2>1 DEF Owned, Apart, IsWorked
  <2>3. stage[p] = "del" => mem[Cur(p)] = "live"
    BY <1>1, <1>2, <2>1 DEF Owned, FindsLive, Deleting
  <2> QED
    BY <1>1, <1>2, <2>1, <2>2, <2>3
<1>3. CASE p # Loop
  <2>1. p \in Workers /\ OnIt(p, Cur(p))
    BY <1>3 DEF Threads, OnIt, Cur, OwnInv, Inv, Shape, WorkerShape
  <2>2. /\ ~IsArmed(Cur(p)) /\ ~IsEvent(Cur(p)) /\ ~IsQueued(Cur(p)) /\ ~IsLooped(Cur(p))
        /\ \A w \in Workers : OnIt(w, Cur(p)) => w = p
    BY <1>1, <2>1 DEF Owned, Apart, IsWorked, OneWorker
  <2>3. stage[p] = "del" => mem[Cur(p)] = "live"
    BY <1>1, <2>1 DEF Owned, FindsLive, Deleting
  <2> QED
    BY <1>1, <1>3, <2>1, <2>2, <2>3
<1> QED
  BY <1>2, <1>3

\* The registration a closing thread takes out is the context's.
LEMMA OwnRegistration ==
  ASSUME OwnInv, NEW p \in Threads, stage[p] # "none"
  PROVE  /\ fdof[Cur(p)] \in FDs /\ sock[fdof[Cur(p)]] = Cur(p)
         /\ \A f \in FDs : reg[f] # None /\ reg[f].ptr = Cur(p) => f = fdof[Cur(p)]
         /\ reg[fdof[Cur(p)]] # None => reg[fdof[Cur(p)]].ptr = Cur(p) /\ mem[Cur(p)] = "live"
<1>1. Cur(p) \in Conns
  BY CurType DEF OwnInv
<1>2. fdof[Cur(p)] \in FDs /\ sock[fdof[Cur(p)]] = Cur(p)
  <2>1. CASE stage[p] = "shut"
    BY <2>1 DEF OwnInv, Inv, Sockets
  <2>2. CASE stage[p] = "del"
    BY <1>1, <2>2, CloserAlone DEF OwnInv, Inv, Sockets, Held
  <2>3. CASE stage[p] \in {"remove", "check", "last", "free"}
    BY <1>1, <2>3 DEF OwnInv, Inv, Sockets, Held, Closers
  <2> QED
    BY <2>1, <2>2, <2>3 DEF OwnInv, Inv, TypeOK
<1>3. \A f \in FDs : reg[f] # None /\ reg[f].ptr = Cur(p) => f = fdof[Cur(p)]
  BY <1>1, SocketAssumption DEF OwnInv, Attached, Inv, Sockets
<1> QED
  BY <1>2, <1>3 DEF OwnInv, Attached

LEMMA OwnedDel ==
  ASSUME OwnInv, NEW p \in Threads, CloseDel(p), NEW c \in Conns
  PROVE  Owned(c)'
<1> DEFINE b == Cur(p)
<1>1. /\ stage[p] = "del" /\ mem' = [mem EXCEPT ![b] = "closed"]
      /\ reg' = [reg EXCEPT ![fdof[b]] = None] /\ stage' = [stage EXCEPT ![p] = "remove"]
      /\ UNCHANGED <<batch, queue, job, pc, cur>>
  BY DEF CloseDel, Deregister, loop, pool, workers
<1>2. /\ b \in Conns /\ ~IsArmed(b) /\ ~IsEvent(b) /\ ~IsQueued(b)
      /\ \A w \in Workers : OnIt(w, b) <=> w = p
      /\ IsLooped(b) <=> p = Loop
  BY <1>1, CloserAlone
<1>3. /\ fdof[b] \in FDs
      /\ reg[fdof[b]] # None => reg[fdof[b]].ptr = b
  BY <1>1, OwnRegistration
<1>4. \A w \in Workers : w # p => ~OnIt(w, b)
  BY <1>2
<1> HIDE DEF b
<1>5. /\ stage'[p] = "remove" /\ \A q \in Threads : q # p => stage'[q] = stage[q]
      /\ \A f \in FDs : reg'[f] = (IF f = fdof[b] THEN None ELSE reg[f])
      /\ mem'[c] = IF c = b THEN "closed" ELSE mem[c]
  BY <1>1, <1>2 DEF OwnInv, Inv, TypeOK
<1>6. \A w \in Workers : OnIt(w, c)' <=> OnIt(w, c)
  BY <1>1, <1>5 DEF OnIt, Threads
<1>7. /\ IsLooped(c)' <=> IsLooped(c)
      /\ OneTask(c)' <=> OneTask(c)
      /\ IsQueued(c)' <=> IsQueued(c)
      /\ IsEvent(c)' <=> IsEvent(c)
      /\ OneEvent(c)' <=> OneEvent(c)
  BY <1>1, <1>5 DEF IsLooped, OneTask, IsQueued, IsEvent, OneEvent, Threads
<1>8. Owned(c)
  BY DEF OwnInv
<1>9. CASE c # b
  <2>1. IsArmed(c)' <=> IsArmed(c)
    BY <1>3, <1>5, <1>9 DEF IsArmed, Armed
  <2>2. \A w \in Workers : OnIt(w, c) => (Deleting(w)' <=> Deleting(w))
    BY <1>2, <1>5, <1>9 DEF Deleting, OnIt, Threads
  <2>3. IsLooped(c) => (Deleting(Loop)' <=> Deleting(Loop))
    BY <1>2, <1>5, <1>9 DEF Deleting, IsLooped, Threads
  <2>4. OneTask(c)'
    BY <1>7, <1>8 DEF Owned
  <2> QED
    BY <1>1, <1>5, <1>6, <1>7, <1>8, <1>9, <2>1, <2>2, <2>3, <2>4, OwnedFrame
<1>10. CASE c = b
  <2>1. ~IsArmed(c)' /\ ~IsEvent(c)' /\ ~IsQueued(c)' /\ (IsWorked(c)' <=> IsWorked(c))
    BY <1>2, <1>5, <1>6, <1>7, <1>10 DEF IsArmed, Armed, IsWorked
  <2>2. OneWorker(c)'
    BY <1>6, <1>8 DEF OneWorker, Owned
  <2>3. Apart(c)'
    BY <1>7, <1>8, <2>1 DEF Apart, Owned
  <2>4. Placed(c)'
    BY <1>2, <1>6, <1>7, <1>10 DEF Placed, IsWorked, Threads
  <2>5. FindsLive(c)'
    BY <1>2, <1>5, <1>6, <1>7, <1>10, <2>1 DEF FindsLive, Deleting
  <2> QED
    BY <1>7, <1>8, <2>2, <2>3, <2>4, <2>5 DEF Owned
<1> QED
  BY <1>9, <1>10

LEMMA OwnedFree ==
  ASSUME OwnInv, NEW p \in Threads, CloseFree(p), NEW c \in Conns
  PROVE  Owned(c)'
<1> DEFINE b == Cur(p)
<1>1. /\ stage[p] = "free" /\ mem' = [mem EXCEPT ![b] = "freed"]
      /\ stage' = [stage EXCEPT ![p] = "shut"]
      /\ UNCHANGED <<reg, batch, queue, job, pc, cur>>
  BY DEF CloseFree, epoll, loop, pool, workers
<1>2. /\ b \in Conns /\ ~IsArmed(b) /\ ~IsEvent(b) /\ ~IsQueued(b)
      /\ \A w \in Workers : OnIt(w, b) <=> w = p
      /\ IsLooped(b) <=> p = Loop
  BY <1>1, CloserAlone
<1> HIDE DEF b
<1>3. /\ stage'[p] = "shut" /\ \A q \in Threads : q # p => stage'[q] = stage[q]
      /\ mem'[c] = IF c = b THEN "freed" ELSE mem[c]
  BY <1>1, <1>2 DEF OwnInv, Inv, TypeOK
<1>4. \A w \in Workers : OnIt(w, c)' <=> OnIt(w, c) /\ w # p
  BY <1>1, <1>3 DEF OnIt, Threads
<1>5. IsLooped(c)' <=> IsLooped(c) /\ p # Loop
  BY <1>1, <1>3 DEF IsLooped, Threads
<1>6. /\ IsArmed(c)' <=> IsArmed(c)
      /\ OneTask(c)' <=> OneTask(c)
      /\ IsQueued(c)' <=> IsQueued(c)
      /\ IsEvent(c)' <=> IsEvent(c)
      /\ OneEvent(c)' <=> OneEvent(c)
  BY <1>1 DEF IsArmed, Armed, OneTask, IsQueued, IsEvent, OneEvent
<1>7. Owned(c)
  BY DEF OwnInv
<1>8. CASE c # b
  <2>1. \A w \in Workers : OnIt(w, c) => w # p
    BY <1>8, SocketAssumption DEF b, OnIt, Cur
  <2>2. IsLooped(c) => p # Loop
    BY <1>8 DEF b, Cur, IsLooped
  <2>3. \A w \in Workers : OnIt(w, c) => (Deleting(w)' <=> Deleting(w))
    BY <1>3, <2>1 DEF Deleting, Threads
  <2>4. IsLooped(c) => (Deleting(Loop)' <=> Deleting(Loop))
    BY <1>3, <2>2 DEF Deleting, Threads
  <2>5. OneTask(c)' /\ (IsLooped(c)' <=> IsLooped(c)) /\ \A w \in Workers : OnIt(w, c)' <=> OnIt(w, c)
    BY <1>4, <1>5, <1>6, <1>7, <2>1, <2>2 DEF Owned
  <2> QED
    BY <1>1, <1>3, <1>6, <1>7, <1>8, <2>3, <2>4, <2>5, OwnedFrame
<1>9. CASE c = b
  <2>1. ~IsArmed(c)' /\ ~IsEvent(c)' /\ ~IsQueued(c)' /\ ~IsWorked(c)' /\ ~IsLooped(c)'
    BY <1>2, <1>4, <1>5, <1>6, <1>9 DEF IsWorked
  <2>2. OneWorker(c)' /\ Apart(c)' /\ FindsLive(c)'
    BY <2>1 DEF OneWorker, Apart, FindsLive, IsWorked
  <2>3. Placed(c)'
    BY <1>3, <1>9 DEF Placed, Held
  <2> QED
    BY <1>6, <1>7, <2>2, <2>3 DEF Owned
<1> QED
  BY <1>8, <1>9

LEMMA OwnedClose ==
  ASSUME OwnInv, NEW p \in Threads, CloseStep(p), NEW c \in Conns
  PROVE  Owned(c)'
<1>1. CASE CloseRemove(p) \/ CloseCheck(p) \/ CloseLast(p)
  <2>1. UNCHANGED <<mem, reg, batch, queue, job, pc, cur>>
    BY <1>1 DEF CloseRemove, CloseCheck, CloseLast, contexts, epoll, loop, pool, workers
  <2>2. /\ stage[p] \in {"remove", "check", "last"} /\ stage'[p] \in {"check", "last", "free"}
        /\ \A q \in Threads : q # p => stage'[q] = stage[q]
    BY <1>1 DEF CloseRemove, CloseCheck, CloseLast, OwnInv, Inv, TypeOK
  <2>3. \A w \in Workers : (OnIt(w, c)' <=> OnIt(w, c)) /\ (Deleting(w)' <=> Deleting(w))
    BY <2>1, <2>2 DEF OnIt, Deleting, Threads
  <2>4. (IsLooped(c)' <=> IsLooped(c)) /\ (Deleting(Loop)' <=> Deleting(Loop))
    BY <2>1, <2>2 DEF IsLooped, Deleting, Threads
  <2> QED
    BY <2>1, <2>3, <2>4, OwnedKept
<1>2. CASE CloseShut(p)
  <2>1. /\ stage[p] = "shut" /\ reg' = [reg EXCEPT ![fdof[Cur(p)]] = None]
        /\ stage' = [stage EXCEPT ![p] = "none"]
        /\ UNCHANGED <<mem, batch, queue, job>>
    BY <1>2 DEF CloseShut, contexts, pool
  <2>2. reg' = reg
    <3>1. mem[Cur(p)] = "freed"
      BY <2>1 DEF OwnInv, Inv, Closers
    <3>2. reg[fdof[Cur(p)]] = None
      BY <2>1, <3>1, OwnRegistration
    <3>3. reg \in [FDs -> Registration \cup {None}]
      BY DEF OwnInv, Inv, TypeOK
    <3> QED
      BY <2>1, <3>2, <3>3
  <2>3. stage'[p] = "none" /\ \A q \in Threads : q # p => stage'[q] = stage[q]
    BY <2>1 DEF OwnInv, Inv, TypeOK
  <2>4. CASE p = Loop
    <3>1. cur' = None /\ pc' = pc /\ \A w \in Workers : stage'[w] = stage[w]
      BY <1>2, <2>3, <2>4, SocketAssumption DEF CloseShut, Threads
    <3>2. ~IsLooped(c) /\ ~IsLooped(c)'
      BY <2>1, <2>4, <3>1, SocketAssumption DEF IsLooped
    <3>3. \A w \in Workers : (OnIt(w, c)' <=> OnIt(w, c)) /\ (Deleting(w)' <=> Deleting(w))
      BY <2>1, <3>1 DEF OnIt, Deleting
    <3>4. /\ IsArmed(c)' <=> IsArmed(c)
          /\ OneTask(c)' <=> OneTask(c)
          /\ IsQueued(c)' <=> IsQueued(c)
      BY <2>1, <2>2 DEF IsArmed, Armed, OneTask, IsQueued
    <3>5. Owned(c) /\ OneTask(c)'
      BY <3>4 DEF OwnInv, Owned
    <3> QED
      BY <2>1, <3>2, <3>3, <3>4, <3>5, OwnedFrame
  <2>5. CASE p # Loop
    <3>1. cur' = cur /\ stage'[Loop] = stage[Loop] /\ pc' = [pc EXCEPT ![p] = "end"]
      BY <1>2, <2>3, <2>5 DEF CloseShut, Threads
    <3>2. p \in Workers /\ pc'[p] = "end" /\ \A w \in Workers : w # p => pc'[w] = pc[w]
      BY <2>5, <3>1 DEF Threads, OwnInv, Inv, TypeOK
    <3>3. ~OnIt(p, c) /\ ~OnIt(p, c)'
      BY <2>1, <3>2 DEF OnIt
    <3>4. \A w \in Workers : w # p => (OnIt(w, c)' <=> OnIt(w, c)) /\ (Deleting(w)' <=> Deleting(w))
      BY <2>1, <2>3, <3>2 DEF OnIt, Deleting, Threads
    <3>5. (IsLooped(c)' <=> IsLooped(c)) /\ (Deleting(Loop)' <=> Deleting(Loop))
      BY <3>1 DEF IsLooped, Deleting
    <3> QED
      BY <2>1, <2>2, <3>1, <3>3, <3>4, <3>5, OwnedKept
  <2> QED
    BY <2>4, <2>5
<1> QED
  BY <1>1, <1>2, OwnedDel, OwnedFree DEF CloseStep

LEMMA OwnedOutside ==
  ASSUME OwnInv, Outside, NEW c \in Conns
  PROVE  Owned(c)'
<1>1. UNCHANGED <<mem, reg, batch, queue, cur, job, pc, stage>>
  BY DEF Outside, PeerStep, Tick, StopStep, StopReject, StopPool, StopReturns, JoinReturns,
         Abort, Pool!Close, vars, contexts, epoll, loop, pool, workers
<1>2. \A w \in Workers : (OnIt(w, c)' <=> OnIt(w, c)) /\ (Deleting(w)' <=> Deleting(w))
  BY <1>1 DEF OnIt, Deleting
<1>3. (IsLooped(c)' <=> IsLooped(c)) /\ (Deleting(Loop)' <=> Deleting(Loop))
  BY <1>1 DEF IsLooped, Deleting
<1> QED
  BY <1>1, <1>2, <1>3, OwnedKept

LEMMA OwnedNext ==
  ASSUME OwnInv, IdleMax = 0, Next, NEW c \in Conns
  PROVE  Owned(c)'
BY OwnedOutside, OwnedLoop, OwnedWorker, OwnedClose DEF Next, Outside, Terminated

-----------------------------------------------------------------------------

\* What may change a registration, a context or a descriptor.
LEMMA CurWriters ==
  ASSUME OwnInv, Next
  PROVE  cur' = cur \/ cur = None \/ Register \/ \E p \in Threads : CloseShut(p)
<1> USE DEF contexts, loop
<1>1. CASE LoopStep
  <2>1. ASSUME NEW e \in batch, EnqueueFails(e) PROVE cur = None
    BY <2>1, EventTaken DEF EnqueueFails
  <2>2. ASSUME NEW c \in Conns, Accept(c) PROVE cur = None
    BY <2>2 DEF Accept, Adding, OwnInv, Inv, Shape, LoopShape
  <2>3. ASSUME NEW c \in Conns, Reap(c) PROVE FALSE
    BY <2>3 DEF Reap, OwnInv
  <2> QED
    BY <1>1, <2>1, <2>2, <2>3 DEF LoopStep, Boot, BootFails, Run, LoopExit, Wait, AcceptRefused, Admit, AcceptFails,
      AddClient, RegisterFails, Enqueue, Collect, CheckStop
<1>2. ASSUME NEW w \in Workers, WorkerStep(w) PROVE cur' = cur
  BY <1>2 DEF WorkerStep, StartTask, EndTask, Read, Interrupted, WriteLast, List, ListClient, Listed, Mark,
              WritePart, Rearm, Late
<1>3. ASSUME NEW p \in Threads, CloseStep(p) PROVE cur' = cur \/ CloseShut(p)
  BY <1>3 DEF CloseStep, CloseDel, CloseRemove, CloseCheck, CloseLast, CloseFree
<1>4. CASE Outside
  BY <1>4 DEF Outside, PeerStep, Tick, StopStep, Abort, vars
<1> QED
  BY <1>1, <1>2, <1>3, <1>4 DEF Next, Outside, Terminated

LEMMA AttachedNext ==
  ASSUME OwnInv, Next
  PROVE  Attached'
<1>1. \A f \in FDs : reg[f] # None => mem[reg[f].ptr] = "live" /\ sock[f] = reg[f].ptr
  BY DEF OwnInv, Attached
<1>2. \A c \in Conns : mem[c] = "live" /\ cur # c => reg[fdof[c]] # None
  BY DEF OwnInv, Attached
<1>3. \A f \in FDs : reg[f] # None => reg[f].ptr \in Conns
  BY DEF OwnInv, Inv, Refs, Registered
<1>4. \A c \in Conns : mem[c] = "live" => fdof[c] \in FDs /\ sock[fdof[c]] = c
  BY DEF OwnInv, Inv, Sockets, Held
<1>5. ASSUME NEW a \in Conns, Accept(a) PROVE Attached'
  <2>1. PICK f \in FDs : /\ sock[f] = None
                         /\ sock' = [sock EXCEPT ![f] = a] /\ fdof' = [fdof EXCEPT ![a] = f]
    BY <1>5 DEF Accept, Gets, FreeFDs
  <2>2. /\ mem[a] = "none" /\ mem' = [mem EXCEPT ![a] = "live"] /\ cur' = a /\ cur = None
        /\ UNCHANGED reg
    BY <1>5 DEF Accept, Adding, OwnInv, Inv, Shape, LoopShape, Refs
  <2>3. reg[f] = None
    BY <1>1, <1>3, <2>1, SocketAssumption
  <2>4. /\ \A g \in FDs : g # f => sock'[g] = sock[g]
        /\ \A c \in Conns : mem[c] = "live" => mem'[c] = "live"
        /\ \A c \in Conns : c # a => mem'[c] = mem[c] /\ fdof'[c] = fdof[c]
    BY <2>1, <2>2 DEF OwnInv, Inv, TypeOK
  <2> QED
    BY <1>1, <1>2, <1>3, <2>2, <2>3, <2>4, SocketAssumption DEF Attached
<1>6. CASE Register
  <2>1. /\ cur \in Conns /\ mem[cur] = "live" /\ cur' = None /\ UNCHANGED <<mem, fdof, sock>>
        /\ reg' = [reg EXCEPT ![fdof[cur]] = [ptr |-> cur, mask |-> "in"]]
    BY <1>6 DEF Register, contexts, OwnInv, Inv, Shape, LoopShape, Adding
  <2>2. [ptr |-> cur, mask |-> "in"] # None
    BY <2>1, SocketAssumption DEF Registration
  <2>3. \A f \in FDs : reg'[f] = IF f = fdof[cur] THEN [ptr |-> cur, mask |-> "in"] ELSE reg[f]
    BY <2>1 DEF OwnInv, Inv, TypeOK
  <2> QED
    BY <1>1, <1>2, <1>4, <2>1, <2>2, <2>3 DEF Attached
<1>7. CASE Wait
  <2>1. UNCHANGED <<mem, fdof, sock, cur>>
    BY <1>7 DEF Wait, contexts
  <2>2. \A f \in FDs : /\ reg'[f] # None => reg[f] # None /\ reg'[f].ptr = reg[f].ptr
                       /\ reg[f] # None => reg'[f] # None
    BY <1>7, WaitEvents, SocketAssumption DEF OwnInv
  <2> QED
    BY <1>1, <1>2, <1>4, <2>1, <2>2 DEF Attached
<1>8. ASSUME NEW w \in Workers, Rearm(w) PROVE Attached'
  <2> DEFINE b == job[w].ptr
  <2>1. b \in Conns /\ mem[b] = "live" /\ mask[w] \in {"in", "out"}
    <3>1. job[w].ptr \in Conns /\ OnIt(w, job[w].ptr) /\ ~Deleting(w)
      BY <1>8, PtrTypes DEF Rearm, OnIt, Deleting, OwnInv, Inv, Shape, WorkerShape
    <3> QED
      BY <3>1 DEF OwnInv, Owned, FindsLive, Inv, TypeOK
  <2>2. [ptr |-> b, mask |-> mask[w]] # None
    BY <2>1, SocketAssumption DEF Registration
  <2>3. UNCHANGED <<mem, fdof, sock, cur>>
    BY <1>8 DEF Rearm, contexts, loop
  <2>4. \A f \in FDs : reg'[f] = reg[f] \/ (f = fdof[b] /\ reg'[f] = [ptr |-> b, mask |-> mask[w]])
    BY <1>8 DEF Rearm, Modify, OwnInv, Inv, TypeOK
  <2> HIDE DEF b
  <2> QED
    BY <1>1, <1>2, <1>4, <2>1, <2>2, <2>3, <2>4 DEF Attached
<1>9. ASSUME NEW p \in Threads, CloseDel(p) PROVE Attached'
  <2> DEFINE b == Cur(p)
  <2>1. /\ mem' = [mem EXCEPT ![b] = "closed"] /\ reg' = [reg EXCEPT ![fdof[b]] = None]
        /\ UNCHANGED <<fdof, sock, cur>> /\ stage[p] = "del"
    BY <1>9 DEF CloseDel, Deregister, loop
  <2>2. \A f \in FDs : reg[f] # None /\ reg[f].ptr = b => f = fdof[b]
    BY <2>1, OwnRegistration
  <2>3. b \in Conns /\ fdof[b] \in FDs /\ sock[fdof[b]] = b
    BY <2>1, CurType, OwnRegistration DEF OwnInv
  <2> HIDE DEF b
  <2>4. /\ \A c \in Conns : mem'[c] = IF c = b THEN "closed" ELSE mem[c]
        /\ \A f \in FDs : reg'[f] = IF f = fdof[b] THEN None ELSE reg[f]
    BY <2>1 DEF OwnInv, Inv, TypeOK
  <2>5. \A c \in Conns : mem[c] = "live" /\ c # b => fdof[c] # fdof[b]
    BY <1>4, <2>3
  <2> QED
    BY <1>1, <1>2, <1>3, <1>4, <2>1, <2>2, <2>4, <2>5 DEF Attached
<1>10. ASSUME NEW p \in Threads, CloseFree(p) PROVE Attached'
  <2>1. /\ mem' = [mem EXCEPT ![Cur(p)] = "freed"] /\ UNCHANGED <<fdof, sock, reg, cur>>
        /\ mem[Cur(p)] = "closed"
    BY <1>10 DEF CloseFree, epoll, loop, OwnInv, Inv, Closers
  <2>2. \A c \in Conns : mem'[c] = IF c = Cur(p) THEN "freed" ELSE mem[c]
    BY <2>1 DEF OwnInv, Inv, TypeOK
  <2> QED
    BY <1>1, <1>2, <1>3, <2>1, <2>2 DEF Attached
<1>11. ASSUME NEW p \in Threads, CloseShut(p) PROVE Attached'
  <2> DEFINE b == Cur(p)
  <2>1. /\ stage[p] = "shut" /\ UNCHANGED <<mem, fdof>>
        /\ sock' = [sock EXCEPT ![fdof[b]] = None] /\ reg' = [reg EXCEPT ![fdof[b]] = None]
        /\ cur' = cur \/ (b = cur /\ cur' = None)
    BY <1>11 DEF CloseShut, contexts, Cur
  <2>2. b \in Conns /\ mem[b] = "freed" /\ fdof[b] \in FDs /\ sock[fdof[b]] = b
    BY <2>1, CurType, OwnRegistration DEF OwnInv, Inv, Closers
  <2> HIDE DEF b
  <2>3. \A f \in FDs : /\ reg'[f] = IF f = fdof[b] THEN None ELSE reg[f]
                       /\ sock'[f] = IF f = fdof[b] THEN None ELSE sock[f]
    BY <2>1 DEF OwnInv, Inv, TypeOK
  <2>4. \A c \in Conns : mem[c] = "live" => fdof[c] # fdof[b] /\ c # b
    BY <1>4, <2>2
  <2> QED
    BY <1>1, <1>2, <1>4, <2>1, <2>3, <2>4 DEF Attached
<1>12. CASE UNCHANGED <<mem, reg, sock, fdof>> /\ (cur' = cur \/ cur = None)
  BY <1>1, <1>2, <1>12, SocketAssumption DEF Attached
<1> QED
  BY <1>5, <1>6, <1>7, <1>8, <1>9, <1>10, <1>11, <1>12, Writers, CurWriters

\* No step is about to dereference what is deleted.
LEMMA NoneBroken ==
  ASSUME OwnInv, NEW p \in Threads
  PROVE  ~Broken(p)
<1>1. stage[p] = "del" => mem[Cur(p)] = "live"
  BY CloserAlone
<1>2. stage[p] \in {"remove", "free"} => mem[Cur(p)] = "closed"
  BY DEF OwnInv, Inv, Closers
<1>3. \A e \in batch : e # ListenEvent => mem[e.ptr] = "live"
  BY PtrTypes DEF OwnInv, Owned, FindsLive, IsEvent
<1>4. ASSUME p \in Workers, pc[p] \in {"io", "mark"} PROVE mem[job[p].ptr] = "live"
  <2>1. job[p].ptr \in Conns /\ OnIt(p, job[p].ptr) /\ ~Deleting(p)
    BY <1>4, PtrTypes DEF OnIt, Deleting, OwnInv, Inv, Shape, WorkerShape
  <2> QED
    BY <1>4, <2>1 DEF OwnInv, Owned, FindsLive
<1> QED
  BY <1>1, <1>2, <1>3, <1>4 DEF Broken

LEMMA AbortedNext ==
  ASSUME OwnInv, Next
  PROVE  aborted' # "context"
<1>1. CASE Abort
  BY <1>1, NoneBroken DEF Abort
<1>2. ASSUME NEW p \in Threads, CloseStep(p) PROVE aborted' = aborted
  BY <1>2 DEF CloseStep, CloseDel, CloseRemove, CloseCheck, CloseLast, CloseFree, CloseShut
<1>3. CASE StopStep
  BY <1>3 DEF StopStep, StopReject, StopPool, StopReturns, JoinReturns, OwnInv
<1> QED
  BY <1>1, <1>2, <1>3 DEF Next, LoopStep, WorkerStep, PeerStep, Tick, Terminated, vars, OwnInv

LEMMA OwnInit ==
  ASSUME Init
  PROVE  OwnInv
<1>1. ASSUME NEW c \in Conns PROVE Owned(c)
  <2>1. ~IsArmed(c) /\ ~IsEvent(c) /\ ~IsQueued(c) /\ ~IsWorked(c) /\ ~IsLooped(c) /\ mem[c] = "none"
    BY SocketAssumption
       DEF Init, Pool!Init, IsArmed, Armed, IsEvent, IsQueued, IsWorked, OnIt, IsLooped
  <2>2. OneEvent(c) /\ OneTask(c) /\ OneWorker(c)
    BY <2>1 DEF OneEvent, OneTask, OneWorker, IsEvent, IsQueued, IsWorked
  <2> QED
    BY <2>1, <2>2 DEF Owned, Apart, Placed, Held, FindsLive, IsWorked
<1>2. Attached /\ reap = {} /\ aborted # "context"
  BY DEF Init, Attached
<1> QED
  BY <1>1, <1>2, InvInit DEF OwnInv

LEMMA OwnNext ==
  ASSUME OwnInv, IdleMax = 0, [Next]_vars
  PROVE  OwnInv'
<1>1. Inv'
  BY InvNext DEF OwnInv
<1>2. CASE UNCHANGED vars
  <2>1. Attached' /\ reap' = {} /\ aborted' # "context"
    BY <1>2 DEF OwnInv, Attached, vars, contexts, epoll, loop
  <2> QED
    BY <1>1, <1>2, <2>1, OwnedOutside DEF OwnInv, Outside
<1>3. CASE Next
  <2>1. reap' = {}
    BY <1>3, Writers DEF Collect, IdleClients, Reap, OwnInv
  <2> QED
    BY <1>1, <1>3, <2>1, OwnedNext, AttachedNext, AbortedNext DEF OwnInv
<1> QED
  BY <1>2, <1>3

\* The invariant, without an idle time.
THEOREM OwnAlways ==
  ASSUME IdleMax = 0
  PROVE  Spec => []OwnInv
BY OwnInit, OwnNext, PTL DEF Spec

\* Without an idle time no thread dereferences a context that has been deleted, but
\* the one that lists the clients.
THEOREM ContextsStayLive == Spec => []ContextsLive
<1>1. CASE IdleMax = 0
  <2>1. OwnInv => ContextsLive
    BY DEF OwnInv, ContextsLive
  <2> QED
    BY <1>1, <2>1, OwnAlways, PTL
<1>2. CASE IdleMax # 0
  <2>1. ContextsLive
    BY <1>2 DEF ContextsLive
  <2> QED
    BY <2>1, PTL
<1> QED
  BY <1>1, <1>2

\* Without an idle time what epoll returns for a descriptor is the context of the
\* socket behind it.
THEOREM RegistrationsSound ==
  ASSUME IdleMax = 0
  PROVE  Spec => []RegistrationSound
<1>1. OwnInv => RegistrationSound
  BY DEF OwnInv, Attached, RegistrationSound, Held
<1> QED
  BY <1>1, OwnAlways, PTL

\* Places names the one place the invariant finds, or none.
LEMMA PlacesOfOwned ==
  ASSUME OwnInv, NEW c \in Conns
  PROVE  IF Held(c) THEN \E x : Places(c) = {x} ELSE Places(c) = {}
<1> DEFINE A == {<<"armed", f>> : f \in {g \in Armed : reg[g].ptr = c}}
           E == {<<"event", e.fd>> : e \in {x \in batch : x.ptr = c}}
           Q == {<<"queued", i>> : i \in {j \in DOMAIN queue : queue[j].ptr = c}}
           W == {<<"worker", w>> : w \in {v \in Workers :
                    /\ pc[v] \in {"io", "listing", "mark", "rearm", "closing"} /\ stage[v] # "shut"
                    /\ job[v].ptr = c}}
           L == IF cur = c /\ stage[Loop] # "shut" THEN {<<"loop", 0>>} ELSE {}
<1>1. Owned(c)
  BY DEF OwnInv
<1>2. (~IsArmed(c) => A = {}) /\ (IsArmed(c) => \E x : A = {x})
  <2>1. \A f \in Armed : reg[f].ptr = c => f = fdof[c]
    BY SocketAssumption DEF OwnInv, Attached, Inv, Sockets, Armed
  <2>2. IsArmed(c) => A = {<<"armed", fdof[c]>>}
    BY <2>1 DEF IsArmed
  <2> QED
    BY <2>2 DEF IsArmed
<1>3. (~IsEvent(c) => E = {}) /\ (IsEvent(c) => \E x : E = {x})
  <2>1. ASSUME NEW e \in batch, e.ptr = c PROVE E = {<<"event", e.fd>>}
    BY <1>1, <2>1 DEF Owned, OneEvent
  <2> QED
    BY <2>1 DEF IsEvent
<1>4. (~IsQueued(c) => Q = {}) /\ (IsQueued(c) => \E x : Q = {x})
  <2>1. ASSUME NEW i \in DOMAIN queue, queue[i].ptr = c PROVE Q = {<<"queued", i>>}
    BY <1>1, <2>1 DEF Owned, OneTask
  <2> QED
    BY <2>1 DEF IsQueued
<1>5. (~IsWorked(c) => W = {}) /\ (IsWorked(c) => \E x : W = {x})
  <2>1. W = {<<"worker", w>> : w \in {v \in Workers : OnIt(v, c)}}
    BY DEF OnIt
  <2>2. ASSUME NEW w \in Workers, OnIt(w, c) PROVE W = {<<"worker", w>>}
    BY <1>1, <2>1, <2>2 DEF Owned, OneWorker
  <2> QED
    BY <2>1, <2>2 DEF IsWorked
<1>6. (~IsLooped(c) => L = {}) /\ (IsLooped(c) => L = {<<"loop", 0>>})
  BY DEF IsLooped
<1>7. Places(c) = A \cup E \cup Q \cup W \cup L
  BY DEF Places
<1> HIDE DEF A, E, Q, W, L
<1>8. CASE Held(c)
  <2>1. CASE IsArmed(c)
    BY <1>1, <1>2, <1>3, <1>4, <1>5, <1>6, <1>7, <1>8, <2>1 DEF Owned, Apart
  <2>2. CASE IsEvent(c)
    BY <1>1, <1>2, <1>3, <1>4, <1>5, <1>6, <1>7, <1>8, <2>2 DEF Owned, Apart
  <2>3. CASE IsQueued(c)
    BY <1>1, <1>2, <1>3, <1>4, <1>5, <1>6, <1>7, <1>8, <2>3 DEF Owned, Apart
  <2>4. CASE IsWorked(c)
    BY <1>1, <1>2, <1>3, <1>4, <1>5, <1>6, <1>7, <1>8, <2>4 DEF Owned, Apart
  <2>5. CASE IsLooped(c)
    BY <1>1, <1>2, <1>3, <1>4, <1>5, <1>6, <1>7, <1>8, <2>5 DEF Owned, Apart
  <2> QED
    BY <1>1, <1>8, <2>1, <2>2, <2>3, <2>4, <2>5 DEF Owned, Placed
<1>9. CASE ~Held(c)
  <2>1. ~IsArmed(c) /\ ~IsEvent(c) /\ ~IsQueued(c)
    BY <1>1, <1>9 DEF Owned, FindsLive, Held
  <2>2. ~IsWorked(c)
    <3>1. ASSUME NEW w \in Workers, OnIt(w, c) PROVE FALSE
      <4>1. Deleting(w) /\ w \in Threads /\ c = Cur(w)
        BY <1>1, <1>9, <3>1, SocketAssumption DEF Owned, FindsLive, Held, Threads, Cur, OnIt
      <4> QED
        BY <1>9, <3>1, <4>1 DEF OnIt, Deleting, OwnInv, Inv, Closers, Held
    <3> QED
      BY <3>1 DEF IsWorked
  <2>3. ~IsLooped(c)
    BY <1>1, <1>9 DEF Owned, FindsLive, Held, IsLooped, Deleting, Cur, Threads, OwnInv, Inv, Closers
  <2> QED
    BY <1>2, <1>3, <1>4, <1>5, <1>6, <1>7, <1>9, <2>1, <2>2, <2>3
<1> QED
  BY <1>8, <1>9

\* Without an idle time a context that exists is in one place: no two threads handle
\* a connection at a time, and none is forgotten.
THEOREM OneOwnerAlways ==
  ASSUME IdleMax = 0
  PROVE  Spec => []OneOwner
<1>1. ASSUME OwnInv PROVE OneOwner
  <2> SUFFICES ASSUME NEW c \in Conns
               PROVE  Cardinality(Places(c)) = IF Held(c) THEN 1 ELSE 0
    BY DEF OneOwner
  <2>1. CASE Held(c)
    BY <1>1, <2>1, PlacesOfOwned, FS_Singleton
  <2>2. CASE ~Held(c)
    BY <1>1, <2>2, PlacesOfOwned, FS_EmptySet
  <2> QED
    BY <2>1, <2>2
<1> QED
  BY <1>1, OwnAlways, PTL

-----------------------------------------------------------------------------
(* What HttpService promises *)


\* The status is the initial one until start_event_loop.
ServiceInv == OwnInv /\ (lpc \in {"start", "booted"} => status = "init")

\* A thread has begun to close c.
Closing(c) == \E p \in Threads : stage[p] # "none" /\ Cur(p) = c

\* A response is owed in each of the places, as in Owed.
OwedReg(c) == \E f \in FDs : reg[f] = [ptr |-> c, mask |-> "out"]
OwedEvent(c) == \E e \in batch : e.ptr = c /\ e.mask = "out"
OwedTask(c) == \E i \in DOMAIN queue : queue[i] = [kind |-> "write", ptr |-> c]
OwedBy(w, c) ==
    \/ job[w] = [kind |-> "write", ptr |-> c] /\ pc[w] = "io"
    \/ pc[w] \in {"mark", "rearm"} /\ job[w].ptr = c /\ mask[w] = "out"

\* What a step does to the phases.
Still == \A d \in Conns : Phase(d)' = Phase(d)
Moved(c, from, to) ==
    /\ Phase(c) \in from /\ Phase(c)' = to
    /\ \A d \in Conns : d # c => Phase(d)' = Phase(d)

LEMMA PhaseFrame ==
  ASSUME Inv, NEW c \in Conns, mem'[c] = mem[c], Closing(c)' <=> Closing(c),
         mem[c] = "live" /\ ~Closing(c) => (Owed(c)' <=> Owed(c))
  PROVE  Phase(c)' = Phase(c)
<1>1. mem[c] \in {"none", "live", "closed", "freed"}
  BY DEF Inv, TypeOK
<1> QED
  BY <1>1 DEF Phase, Closing

\* A step that leaves the closing threads as they are.
LEMMA ClosingKept ==
  ASSUME Inv, Next, NEW c \in Conns, UNCHANGED stage
  PROVE  Closing(c)' <=> Closing(c)
<1>1. \A p \in Threads : stage[p] # "none" => stage'[p] # "none" /\ Cur(p)' = Cur(p)
  BY CurKept
<1>2. \A p \in Threads : stage'[p] = stage[p]
  OBVIOUS
<1> QED
  BY <1>1, <1>2 DEF Closing

\* The loop begins to close b.
LEMMA LoopClosing ==
  ASSUME Inv, Next, stage[Loop] = "none", stage' = [stage EXCEPT ![Loop] = "del"],
         NEW c \in Conns, job' = job
  PROVE  Closing(c)' <=> Closing(c) \/ cur' = c
<1>1. stage'[Loop] = "del" /\ \A p \in Threads : p # Loop => stage'[p] = stage[p]
  BY DEF Inv, TypeOK, Threads
<1>2. Cur(Loop)' = cur' /\ \A p \in Threads : p # Loop => Cur(p)' = Cur(p)
  BY DEF Cur
<1> QED
  BY <1>1, <1>2 DEF Closing, Threads

\* Worker w begins to close.
LEMMA WorkerClosing ==
  ASSUME Inv, Next, NEW w \in Workers, stage[w] = "none", stage' = [stage EXCEPT ![w] = "del"],
         NEW c \in Conns, UNCHANGED <<job, cur>>
  PROVE  Closing(c)' <=> Closing(c) \/ job[w].ptr = c
<1>1. stage'[w] = "del" /\ \A p \in Threads : p # w => stage'[p] = stage[p]
  BY DEF Inv, TypeOK, Threads
<1>2. Cur(w) = job[w].ptr /\ \A p \in Threads : Cur(p)' = Cur(p)
  BY SocketAssumption DEF Cur
<1> QED
  BY <1>1, <1>2 DEF Closing, Threads

LEMMA OwedPlaces ==
  ASSUME NEW c
  PROVE  Owed(c) <=> OwedReg(c) \/ OwedEvent(c) \/ OwedTask(c) \/ \E w \in Workers : OwedBy(w, c)
BY DEF Owed, OwedReg, OwedEvent, OwedTask, OwedBy

LEMMA OwedPlacesNext ==
  ASSUME NEW c
  PROVE  Owed(c)' <=> OwedReg(c)' \/ OwedEvent(c)' \/ OwedTask(c)' \/ \E w \in Workers : OwedBy(w, c)'
BY DEF Owed, OwedReg, OwedEvent, OwedTask, OwedBy

\* A place a response is owed in is one of the context's.
LEMMA OwedThere ==
  ASSUME Inv, NEW c \in Conns
  PROVE  /\ OwedReg(c) => IsArmed(c)
         /\ OwedEvent(c) => IsEvent(c)
         /\ OwedTask(c) => IsQueued(c)
         /\ \A w \in Workers : OwedBy(w, c) => OnIt(w, c) /\ stage[w] = "none"
<1>1. OwedReg(c) => IsArmed(c)
  <2>1. \A f \in FDs : reg[f] = [ptr |-> c, mask |-> "out"] =>
           reg[f] \in Registration /\ reg[f].ptr = c /\ reg[f].mask = "out"
    BY DEF Registration
  <2> QED
    BY <2>1, SocketAssumption DEF OwedReg, IsArmed, Armed
<1>2. OwedTask(c) => IsQueued(c)
  BY DEF OwedTask, IsQueued
<1>3. ASSUME NEW w \in Workers, OwedBy(w, c) PROVE OnIt(w, c) /\ stage[w] = "none"
  BY <1>3 DEF OwedBy, OnIt, Inv, Shape, WorkerShape
<1> QED
  BY <1>1, <1>2, <1>3 DEF OwedEvent, IsEvent

\* Who is in a batch, in the queue or with a worker that runs is not being closed.
LEMMA NotClosing ==
  ASSUME OwnInv, NEW c \in Conns, mem[c] = "live",
         IsEvent(c) \/ IsQueued(c) \/ (\E w \in Workers : OnIt(w, c) /\ stage[w] = "none") \/ c \notin Registered
  PROVE  ~Closing(c)
<1> SUFFICES ASSUME NEW p \in Threads, stage[p] # "none", Cur(p) = c PROVE FALSE
  BY DEF Closing
<1>1. stage[p] # "shut"
  BY DEF OwnInv, Inv, Closers
<1>2. c \in Registered
  BY CurType DEF OwnInv
<1> QED
  BY <1>1, <1>2, CloserAlone

-----------------------------------------------------------------------------

\* A step in which nothing moves.
LEMMA StillStep ==
  ASSUME Inv, Next, UNCHANGED <<mem, stage, reg, queue, job, pc, mask>>,
         UNCHANGED batch \/ batch' = batch \ {ListenEvent}
  PROVE  Still
<1> SUFFICES ASSUME NEW c \in Conns PROVE Phase(c)' = Phase(c)
  BY DEF Still
<1>1. OwedEvent(c)' <=> OwedEvent(c)
  BY SocketAssumption DEF OwedEvent, ListenEvent
<1>2. (OwedReg(c)' <=> OwedReg(c)) /\ (OwedTask(c)' <=> OwedTask(c))
  BY DEF OwedReg, OwedTask
<1>3. \A w \in Workers : OwedBy(w, c)' <=> OwedBy(w, c)
  BY DEF OwedBy
<1> QED
  BY <1>1, <1>2, <1>3, PhaseFrame, ClosingKept, OwedPlaces, OwedPlacesNext

LEMMA PhaseAccept ==
  ASSUME OwnInv, Next, NEW a \in Conns, Accept(a)
  PROVE  Moved(a, {"none"}, "reading")
<1>1. /\ mem[a] = "none" /\ mem' = [mem EXCEPT ![a] = "live"]
      /\ UNCHANGED <<reg, batch, queue, job, pc, stage, mask>>
  BY DEF Accept, OwnInv, Inv, Refs, pool, workers
<1>2. ASSUME NEW c \in Conns PROVE Owed(c)' <=> Owed(c)
  <2>1. (OwedEvent(c)' <=> OwedEvent(c)) /\ (OwedReg(c)' <=> OwedReg(c))
        /\ (OwedTask(c)' <=> OwedTask(c))
    BY <1>1 DEF OwedEvent, OwedReg, OwedTask
  <2>2. \A w \in Workers : OwedBy(w, c)' <=> OwedBy(w, c)
    BY <1>1 DEF OwedBy
  <2> QED
    BY <2>1, <2>2, OwedPlaces, OwedPlacesNext
<1>3. \A c \in Conns : Closing(c)' <=> Closing(c)
  BY <1>1, ClosingKept DEF OwnInv
<1>4. a \notin Registered
  BY <1>1 DEF Registered
<1>5. ~Closing(a)
  BY <1>4, CurType DEF Closing, OwnInv
<1>6. ~Owed(a)
  BY <1>4, Nowhere, OwedThere, OwedPlaces DEF OwnInv, IsWorked
<1>7. mem'[a] = "live" /\ \A c \in Conns : c # a => mem'[c] = mem[c]
  BY <1>1 DEF OwnInv, Inv, TypeOK
<1>8. Phase(a) = "none"
  BY <1>1 DEF Phase
<1>9. Phase(a)' = "reading"
  BY <1>2, <1>3, <1>5, <1>6, <1>7 DEF Phase, Closing
<1>10. \A c \in Conns : c # a => Phase(c)' = Phase(c)
  BY <1>2, <1>3, <1>7, PhaseFrame DEF OwnInv
<1> QED
  BY <1>8, <1>9, <1>10 DEF Moved

LEMMA PhaseRegister ==
  ASSUME OwnInv, Next, Register
  PROVE  Still
<1> SUFFICES ASSUME NEW c \in Conns PROVE Phase(c)' = Phase(c)
  BY DEF Still
<1>1. /\ cur \in Conns /\ cur \notin Registered /\ mem[cur] = "live"
      /\ UNCHANGED <<mem, batch, queue, job, pc, mask, stage>>
      /\ reg' = [reg EXCEPT ![fdof[cur]] = [ptr |-> cur, mask |-> "in"]]
  BY DEF Register, OwnInv, Inv, Shape, LoopShape, Adding, Registered, contexts, pool, workers
<1>2. fdof[cur] \in FDs /\ sock[fdof[cur]] = cur
  BY <1>1 DEF OwnInv, Inv, Sockets, Held
<1>3. reg[fdof[cur]] = None
  BY <1>1, <1>2 DEF OwnInv, Attached, Inv, Refs
<1>4. [ptr |-> cur, mask |-> "in"] # [ptr |-> c, mask |-> "out"] /\ None # [ptr |-> c, mask |-> "out"]
  BY SocketAssumption DEF Registration
<1>5. OwedReg(c)' <=> OwedReg(c)
  BY <1>1, <1>3, <1>4 DEF OwedReg, OwnInv, Inv, TypeOK
<1>6. (OwedEvent(c)' <=> OwedEvent(c)) /\ (OwedTask(c)' <=> OwedTask(c))
  BY <1>1 DEF OwedEvent, OwedTask
<1>7. \A w \in Workers : OwedBy(w, c)' <=> OwedBy(w, c)
  BY <1>1 DEF OwedBy
<1> QED
  BY <1>1, <1>5, <1>6, <1>7, PhaseFrame, ClosingKept, OwedPlaces, OwedPlacesNext DEF OwnInv

LEMMA PhaseRegisterFails ==
  ASSUME OwnInv, Next, RegisterFails
  PROVE  Moved(cur, {"reading", "writing"}, "closed")
<1>1. /\ cur \in Conns /\ cur \notin Registered /\ mem[cur] = "live" /\ stage[Loop] = "none"
      /\ stage' = [stage EXCEPT ![Loop] = "del"]
      /\ UNCHANGED <<mem, reg, batch, queue, job, pc, mask, cur>>
  BY DEF RegisterFails, OwnInv, Inv, Shape, LoopShape, Adding, Registered, contexts, epoll, pool, workers
<1>2. \A c \in Conns : Closing(c)' <=> Closing(c) \/ c = cur
  BY <1>1, LoopClosing DEF OwnInv
<1>3. ~Closing(cur)
  BY <1>1, NotClosing
<1>4. \A c \in Conns : Owed(c)' <=> Owed(c)
  BY <1>1 DEF Owed
<1>5. \A c \in Conns : c # cur => Phase(c)' = Phase(c)
  BY <1>1, <1>2, <1>4, PhaseFrame DEF OwnInv
<1>6. Phase(cur) \in {"reading", "writing"}
  BY <1>1, <1>3 DEF Phase, Closing
<1>7. Phase(cur)' = "closed"
  BY <1>1, <1>2 DEF Phase, Closing
<1> QED
  BY <1>1, <1>5, <1>6, <1>7 DEF Moved

\* An event is for what its registration was for.
LEMMA PhaseWait ==
  ASSUME OwnInv, Next, Wait
  PROVE  Still
<1> SUFFICES ASSUME NEW c \in Conns PROVE Phase(c)' = Phase(c)
  BY DEF Still
<1>1. batch = {} /\ UNCHANGED <<mem, queue, job, pc, mask, stage>>
  BY DEF Wait, OwnInv, Inv, Shape, LoopShape, Adding, contexts, pool, workers
<1> DEFINE out == [ptr |-> c, mask |-> "out"]
<1>2. \A e \in batch' : e # ListenEvent =>
         \E f \in FDs : reg[f] \in Registration /\ e.fd = f /\ e.ptr = reg[f].ptr /\ e.mask = reg[f].mask
  BY WaitEvents DEF OwnInv, EventAt
<1>3. \A f \in FDs : reg'[f] # None =>
                /\ reg[f] # None /\ reg'[f].ptr = reg[f].ptr
                /\ reg'[f].mask = IF \E e \in batch' : e.fd = f THEN "off" ELSE reg[f].mask
  BY WaitEvents DEF OwnInv
<1>4. \A f \in FDs : reg[f] # None => reg[f] \in Registration /\ reg'[f] \in Registration
  BY WaitEvents DEF OwnInv, Inv, TypeOK
<1>5. \A r \in Registration : r = out <=> r.ptr = c /\ r.mask = "out"
  BY DEF Registration
<1>6. out \in Registration
  BY DEF Registration
<1> HIDE DEF out
<1>7. \A f \in FDs : reg'[f] = out => reg[f] = out
  BY <1>3, <1>4, <1>5, <1>6, SocketAssumption
<1>8. \A e \in batch' : e.ptr = c /\ e.mask = "out" => \E f \in FDs : reg[f] = out
  <2>1. \A e \in batch' : e.ptr = c => e # ListenEvent
    BY SocketAssumption DEF ListenEvent
  <2> QED
    BY <1>2, <1>5, <2>1
<1>9. ASSUME NEW f \in FDs, reg[f] = out
      PROVE  reg'[f] = out \/ \E e \in batch' : e.ptr = c /\ e.mask = "out"
  <2>1. reg[f] # None /\ reg[f] \in Registration /\ reg[f].ptr = c /\ reg[f].mask = "out"
    BY <1>5, <1>6, <1>9, SocketAssumption
  <2>2. CASE \E e \in batch' : e.fd = f
    <3>1. PICK e \in batch' : e.fd = f
      BY <2>2
    <3>2. e # ListenEvent
      BY <3>1 DEF ListenEvent, FDs
    <3>3. e.ptr = c /\ e.mask = "out"
      BY <1>2, <2>1, <3>1, <3>2
    <3> QED
      BY <3>1, <3>3
  <2>3. CASE ~\E e \in batch' : e.fd = f
    <3>1. reg'[f] # None
      BY <1>4, <2>1, SocketAssumption
    <3>2. reg'[f].ptr = c /\ reg'[f].mask = "out"
      BY <1>3, <2>1, <2>3, <3>1
    <3> QED
      BY <1>4, <1>5, <2>1, <3>2
  <2> QED
    BY <2>2, <2>3
<1>10. OwedReg(c) \/ OwedEvent(c) <=> OwedReg(c)' \/ OwedEvent(c)'
  BY <1>1, <1>7, <1>8, <1>9 DEF OwedReg, OwedEvent, out
<1>11. OwedTask(c)' <=> OwedTask(c)
  BY <1>1 DEF OwedTask
<1>12. \A w \in Workers : OwedBy(w, c)' <=> OwedBy(w, c)
  BY <1>1 DEF OwedBy
<1> QED
  BY <1>1, <1>10, <1>11, <1>12, PhaseFrame, ClosingKept, OwedPlaces, OwedPlacesNext DEF OwnInv

\* A task is for what its event was for.
LEMMA PhaseEnqueue ==
  ASSUME OwnInv, Next, NEW e \in batch, Enqueue(e)
  PROVE  Still
<1> SUFFICES ASSUME NEW c \in Conns PROVE Phase(c)' = Phase(c)
  BY DEF Still
<1> DEFINE t == [kind |-> IF e.mask = "in" THEN "read" ELSE "write", ptr |-> e.ptr]
<1>1. /\ e # ListenEvent /\ Handles(e) /\ Pool!Submit(t)
      /\ UNCHANGED <<mem, reg, job, pc, mask, stage>>
  BY DEF Enqueue, Pool!Submit, epoll, workers
<1>2. t \in Task /\ (t = [kind |-> "write", ptr |-> c] <=> e.ptr = c /\ e.mask = "out")
  <2>1. e.mask \in {"in", "out"} /\ e.ptr \in Conns
    BY <1>1, PtrTypes DEF OwnInv, Event
  <2> QED
    BY <2>1 DEF Task
<1> HIDE DEF t
<1>3. /\ \A i \in DOMAIN queue : i \in DOMAIN queue' /\ queue'[i] = queue[i]
      /\ \A i \in DOMAIN queue' : i \in DOMAIN queue \/ (i = Len(queue) + 1 /\ queue'[i] = t)
      /\ Len(queue) + 1 \in DOMAIN queue' /\ queue'[Len(queue) + 1] = t
  BY <1>1, <1>2, TaskQueued DEF OwnInv
<1>4. OwedTask(c)' <=> OwedTask(c) \/ (e.ptr = c /\ e.mask = "out")
  BY <1>2, <1>3 DEF OwedTask
<1>5. OwedEvent(c) <=> OwedEvent(c)' \/ (e.ptr = c /\ e.mask = "out")
  BY <1>1 DEF OwedEvent, Handles
<1>6. OwedReg(c)' <=> OwedReg(c)
  BY <1>1 DEF OwedReg
<1>7. \A w \in Workers : OwedBy(w, c)' <=> OwedBy(w, c)
  BY <1>1 DEF OwedBy
<1> QED
  BY <1>1, <1>4, <1>5, <1>6, <1>7, PhaseFrame, ClosingKept, OwedPlaces, OwedPlacesNext DEF OwnInv

LEMMA PhaseEnqueueFails ==
  ASSUME OwnInv, Next, NEW e \in batch, EnqueueFails(e)
  PROVE  Moved(e.ptr, {"reading", "writing"}, "closed")
<1>1. /\ e # ListenEvent /\ Handles(e) /\ cur' = e.ptr
      /\ stage' = [stage EXCEPT ![Loop] = "del"]
      /\ UNCHANGED <<mem, reg, queue, job, pc, mask>>
  BY DEF EnqueueFails, epoll, workers, pool
<1>2. /\ e.ptr \in Conns /\ mem[e.ptr] = "live" /\ stage[Loop] = "none"
      /\ \A c \in Conns : c # e.ptr => \A d : d.ptr = c => (d \in batch' <=> d \in batch)
  BY <1>1, EventTaken
<1>3. \A c \in Conns : Closing(c)' <=> Closing(c) \/ c = e.ptr
  BY <1>1, <1>2, LoopClosing DEF OwnInv
<1>4. ~Closing(e.ptr)
  BY <1>2, NotClosing DEF IsEvent
<1>5. ASSUME NEW c \in Conns, c # e.ptr PROVE Phase(c)' = Phase(c)
  <2>1. OwedEvent(c)' <=> OwedEvent(c)
    BY <1>2, <1>5 DEF OwedEvent
  <2>2. (OwedReg(c)' <=> OwedReg(c)) /\ (OwedTask(c)' <=> OwedTask(c))
    BY <1>1 DEF OwedReg, OwedTask
  <2>3. \A w \in Workers : OwedBy(w, c)' <=> OwedBy(w, c)
    BY <1>1 DEF OwedBy
  <2> QED
    BY <1>1, <1>3, <1>5, <2>1, <2>2, <2>3, PhaseFrame, OwedPlaces, OwedPlacesNext DEF OwnInv
<1>6. Phase(e.ptr) \in {"reading", "writing"}
  BY <1>2, <1>4 DEF Phase, Closing
<1>7. Phase(e.ptr)' = "closed"
  BY <1>1, <1>2, <1>3 DEF Phase, Closing
<1> QED
  BY <1>5, <1>6, <1>7 DEF Moved

\* A worker takes a task: what was owed in the queue is owed by it.
LEMMA PhaseStart ==
  ASSUME OwnInv, Next, NEW w \in Workers, StartTask(w)
  PROVE  Still
<1> SUFFICES ASSUME NEW c \in Conns PROVE Phase(c)' = Phase(c)
  BY DEF Still
<1> DEFINE out == [kind |-> "write", ptr |-> c]
<1>1. /\ 1 \in DOMAIN queue
      /\ \A i \in DOMAIN queue' : i + 1 \in DOMAIN queue /\ queue'[i] = queue[i + 1]
      /\ job' = [job EXCEPT ![w] = queue[1]] /\ job[w] = None
  BY TaskTaken DEF OwnInv
<1>2. \A i \in DOMAIN queue : i # 1 => \E j \in DOMAIN queue' : i = j + 1
  <2>1. \A i \in DOMAIN queue : i # 1 => i - 1 \in DOMAIN queue' /\ i = (i - 1) + 1
    BY TaskTaken DEF OwnInv, Inv, TypeOK
  <2> QED
    BY <2>1
<1>3. UNCHANGED <<mem, reg, batch, mask, stage>> /\ pc' = [pc EXCEPT ![w] = "io"]
  BY DEF StartTask, contexts, epoll, loop
<1>4. /\ pc'[w] = "io" /\ job'[w] = queue[1] /\ pc[w] = "idle"
      /\ \A v \in Workers : v # w => pc'[v] = pc[v] /\ job'[v] = job[v]
  BY <1>1, <1>3 DEF OwnInv, Inv, TypeOK, Shape, WorkerShape
<1>5. OwedTask(c) <=> OwedTask(c)' \/ queue[1] = out
  BY <1>1, <1>2 DEF OwedTask
<1>6. /\ OwedBy(w, c)' <=> queue[1] = out
      /\ ~OwedBy(w, c)
      /\ \A v \in Workers : v # w => (OwedBy(v, c)' <=> OwedBy(v, c))
  BY <1>3, <1>4 DEF OwedBy
<1>7. (OwedReg(c)' <=> OwedReg(c)) /\ (OwedEvent(c)' <=> OwedEvent(c))
  BY <1>3 DEF OwedReg, OwedEvent
<1>8. Owed(c)' <=> Owed(c)
  BY <1>5, <1>6, <1>7, OwedPlaces, OwedPlacesNext
<1> QED
  BY <1>3, <1>8, PhaseFrame, ClosingKept DEF OwnInv

-----------------------------------------------------------------------------

\* In a worker's hands: what it owes is what its connection is owed.
LEMMA OwedByWorker ==
  ASSUME OwnInv, NEW w \in Workers, pc[w] \in {"io", "listing", "mark", "rearm"}
  PROVE  LET b == job[w].ptr
         IN  /\ b \in Conns /\ mem[b] = "live" /\ stage[w] = "none" /\ ~Closing(b)
             /\ ~OwedReg(b) /\ ~OwedEvent(b) /\ ~OwedTask(b)
             /\ \A v \in Workers : OwedBy(v, b) => v = w
             /\ Phase(b) = IF OwedBy(w, b) THEN "writing" ELSE "reading"
<1> DEFINE b == job[w].ptr
<1>1. b \in Conns /\ OnIt(w, b) /\ stage[w] = "none" /\ ~Deleting(w)
  BY PtrTypes DEF OnIt, Deleting, OwnInv, Inv, Shape, WorkerShape
<1>2. mem[b] = "live"
  BY <1>1 DEF OwnInv, Owned, FindsLive
<1>3. ~IsArmed(b) /\ ~IsEvent(b) /\ ~IsQueued(b) /\ \A v \in Workers : OnIt(v, b) => v = w
  BY <1>1 DEF OwnInv, Owned, Apart, IsWorked, OneWorker
<1>4. ~Closing(b)
  BY <1>1, <1>2, NotClosing
<1>5. /\ ~OwedReg(b) /\ ~OwedEvent(b) /\ ~OwedTask(b)
      /\ \A v \in Workers : OwedBy(v, b) => v = w
  BY <1>1, <1>3, OwedThere DEF OwnInv
<1>6. Owed(b) <=> OwedBy(w, b)
  BY <1>5, OwedPlaces
<1>7. Phase(b) = IF OwedBy(w, b) THEN "writing" ELSE "reading"
  BY <1>2, <1>4, <1>6 DEF Phase, Closing
<1> QED
  BY <1>1, <1>2, <1>4, <1>5, <1>7

\* A worker that keeps its connection: only that one's phase can change, and to what the
\* worker owes then.
LEMMA PhaseKeeps ==
  ASSUME OwnInv, Next, NEW w \in Workers, pc[w] \in {"io", "listing", "mark", "rearm"},
         UNCHANGED <<mem, reg, batch, queue, job, stage>>,
         \A v \in Workers : v # w => pc'[v] = pc[v] /\ mask'[v] = mask[v]
  PROVE  \A c \in Conns :
            Phase(c)' = IF c # job[w].ptr THEN Phase(c)
                        ELSE IF OwedBy(w, c)' THEN "writing" ELSE "reading"
<1>0. job[w].ptr \in Conns
  BY OwedByWorker
<1> SUFFICES ASSUME NEW b \in Conns, b = job[w].ptr
             PROVE  /\ Phase(b)' = IF OwedBy(w, b)' THEN "writing" ELSE "reading"
                    /\ \A c \in Conns : c # b => Phase(c)' = Phase(c)
  BY <1>0
<1>1. /\ b \in Conns /\ mem[b] = "live" /\ ~Closing(b)
      /\ ~OwedReg(b) /\ ~OwedEvent(b) /\ ~OwedTask(b)
      /\ \A v \in Workers : OwedBy(v, b) => v = w
  BY OwedByWorker
<1>2. \A c \in Conns : /\ OwedReg(c)' <=> OwedReg(c)
                       /\ OwedEvent(c)' <=> OwedEvent(c)
                       /\ OwedTask(c)' <=> OwedTask(c)
                       /\ \A v \in Workers : v # w => (OwedBy(v, c)' <=> OwedBy(v, c))
  BY DEF OwedReg, OwedEvent, OwedTask, OwedBy
<1>3. \A c \in Conns : c # b => ~OwedBy(w, c) /\ ~OwedBy(w, c)'
  BY DEF OwedBy
<1>4. \A c \in Conns : Closing(c)' <=> Closing(c)
  BY ClosingKept DEF OwnInv
<1>5. ASSUME NEW c \in Conns, c # b PROVE Phase(c)' = Phase(c)
  <2>1. Owed(c)' <=> Owed(c)
    BY <1>2, <1>3, <1>5, OwedPlaces, OwedPlacesNext
  <2> QED
    BY <1>4, <2>1, PhaseFrame DEF OwnInv
<1>6. Owed(b)' <=> OwedBy(w, b)'
  BY <1>1, <1>2, OwedPlacesNext
<1>7. mem'[b] = "live" /\ ~Closing(b)'
  BY <1>1, <1>4
<1>8. Phase(b)' = IF OwedBy(w, b)' THEN "writing" ELSE "reading"
  BY <1>6, <1>7 DEF Phase, Closing
<1> QED
  BY <1>5, <1>8

\* A worker that begins to close its connection.
LEMMA PhaseCloses ==
  ASSUME OwnInv, Next, NEW w \in Workers, pc[w] \in {"io", "listing", "mark", "rearm"},
         UNCHANGED <<mem, reg, batch, queue, job, cur>>, Closes(w)
  PROVE  Moved(job[w].ptr, {"reading", "writing"}, "closed")
<1> DEFINE b == job[w].ptr
<1>1. /\ b \in Conns /\ mem[b] = "live" /\ stage[w] = "none"
      /\ Phase(b) \in {"reading", "writing"}
  BY OwedByWorker
<1>2. \A c \in Conns : Closing(c)' <=> Closing(c) \/ c = b
  BY <1>1, WorkerClosing DEF Closes, OwnInv
<1>3. Phase(b)' = "closed"
  BY <1>1, <1>2 DEF Phase, Closing
<1>4. ASSUME NEW c \in Conns, c # b PROVE Phase(c)' = Phase(c)
  <2>1. \A v \in Workers : v # w => pc'[v] = pc[v]
    BY DEF Closes, OwnInv, Inv, TypeOK
  <2>2. \A v \in Workers : OwedBy(v, c)' <=> OwedBy(v, c)
    BY <1>4, <2>1 DEF OwedBy, Closes
  <2>3. /\ OwedReg(c)' <=> OwedReg(c)
        /\ OwedEvent(c)' <=> OwedEvent(c)
        /\ OwedTask(c)' <=> OwedTask(c)
    BY DEF OwedReg, OwedEvent, OwedTask
  <2> QED
    BY <1>2, <1>4, <2>2, <2>3, PhaseFrame, OwedPlaces, OwedPlacesNext DEF OwnInv
<1> QED
  BY <1>1, <1>3, <1>4 DEF Moved

\* The registration says what the worker that armed it owed.
LEMMA PhaseRearm ==
  ASSUME OwnInv, Next, NEW w \in Workers, Rearm(w)
  PROVE  Still
<1>0. job[w].ptr \in Conns
  BY OwedByWorker DEF Rearm
<1> SUFFICES ASSUME NEW b \in Conns, b = job[w].ptr PROVE Still
  BY <1>0
<1>1. pc[w] = "rearm" /\ pc'[w] \in {"late", "end"} /\ \A v \in Workers : v # w => pc'[v] = pc[v]
  BY DEF Rearm, OwnInv, Inv, TypeOK
<1>2. /\ b \in Conns /\ mem[b] = "live" /\ ~Closing(b)
      /\ ~OwedReg(b) /\ ~OwedEvent(b) /\ ~OwedTask(b)
      /\ \A v \in Workers : OwedBy(v, b) => v = w
  BY <1>1, OwedByWorker
<1>3. fdof[b] \in FDs /\ reg[fdof[b]] # None /\ reg[fdof[b]].ptr = b
  <2>1. OnIt(w, b) /\ ~IsLooped(b)
    BY <1>1, <1>2 DEF OnIt, OwnInv, Inv, Shape, WorkerShape, Owned, Apart, IsWorked
  <2>2. cur # b
    BY <1>2, <2>1 DEF IsLooped, OwnInv, Inv, Closers, Cur, Threads
  <2> QED
    BY <1>2, <2>2 DEF OwnInv, Attached, Inv, Sockets, Held
<1>4. /\ reg' = [reg EXCEPT ![fdof[b]] = [ptr |-> b, mask |-> mask[w]]]
      /\ UNCHANGED <<mem, batch, queue, job, stage>>
      /\ \A v \in Workers : v # w => mask'[v] = mask[v]
  BY <1>3 DEF Rearm, Modify, contexts, loop, pool, OwnInv, Inv, TypeOK
<1>5. OwedBy(w, b) <=> mask[w] = "out"
  BY <1>1 DEF OwedBy
<1>6. \A f \in FDs : reg'[f] = (IF f = fdof[b] THEN [ptr |-> b, mask |-> mask[w]] ELSE reg[f])
  BY <1>4 DEF OwnInv, Inv, TypeOK
<1>7. ASSUME NEW c \in Conns
      PROVE  /\ OwedEvent(c)' <=> OwedEvent(c)
             /\ OwedTask(c)' <=> OwedTask(c)
             /\ ~OwedBy(w, c)'
             /\ \A v \in Workers : v # w => (OwedBy(v, c)' <=> OwedBy(v, c))
             /\ Closing(c)' <=> Closing(c)
  <2>1. Closing(c)' <=> Closing(c)
    BY <1>4, ClosingKept DEF OwnInv
  <2>2. (OwedEvent(c)' <=> OwedEvent(c)) /\ (OwedTask(c)' <=> OwedTask(c))
    BY <1>4 DEF OwedEvent, OwedTask
  <2> QED
    BY <1>1, <1>4, <2>1, <2>2 DEF OwedBy
<1>8. ASSUME NEW c \in Conns, c # b PROVE Owed(c)' <=> Owed(c)
  <2>1. OwedReg(c)' <=> OwedReg(c)
    <3>1. \A m : [ptr |-> b, mask |-> m] # [ptr |-> c, mask |-> "out"]
      BY <1>8
    <3>2. reg[fdof[b]] # [ptr |-> c, mask |-> "out"]
      BY <1>3, <1>8
    <3> QED
      BY <1>6, <3>1, <3>2 DEF OwedReg
  <2>2. ~OwedBy(w, c)
    BY <1>8 DEF OwedBy, OwnInv, Inv, Shape, WorkerShape
  <2> QED
    BY <1>7, <2>1, <2>2, OwedPlaces, OwedPlacesNext
<1>9. Owed(b)' <=> Owed(b)
  <2>1. OwedReg(b)' <=> mask[w] = "out"
    <3>1. \A f \in FDs : reg[f] # [ptr |-> b, mask |-> "out"]
      BY <1>2 DEF OwedReg
    <3>2. [ptr |-> b, mask |-> mask[w]] = [ptr |-> b, mask |-> "out"] <=> mask[w] = "out"
      OBVIOUS
    <3> QED
      BY <1>3, <1>6, <3>1, <3>2 DEF OwedReg
  <2> QED
    BY <1>2, <1>5, <1>7, <2>1, OwedPlaces, OwedPlacesNext
<1> QED
  BY <1>4, <1>7, <1>8, <1>9, PhaseFrame DEF Still, OwnInv

LEMMA PhaseLate ==
  ASSUME OwnInv, Next, NEW w \in Workers, Late(w) \/ EndTask(w)
  PROVE  Still
<1> SUFFICES ASSUME NEW c \in Conns PROVE Phase(c)' = Phase(c)
  BY DEF Still
<1>1. UNCHANGED <<mem, reg, batch, queue, mask, stage>>
  BY DEF Late, EndTask, Pool!Finish, contexts, epoll, loop, pool
<1>2. /\ pc[w] \in {"late", "end"} /\ pc'[w] \in {"end", "idle"}
      /\ \A v \in Workers : v # w => pc'[v] = pc[v] /\ job'[v] = job[v]
  BY DEF Late, EndTask, Pool!Finish, pool, OwnInv, Inv, TypeOK
<1>3. \A v \in Workers : OwedBy(v, c)' <=> OwedBy(v, c)
  BY <1>1, <1>2 DEF OwedBy
<1>4. (OwedReg(c)' <=> OwedReg(c)) /\ (OwedEvent(c)' <=> OwedEvent(c)) /\ (OwedTask(c)' <=> OwedTask(c))
  BY <1>1 DEF OwedReg, OwedEvent, OwedTask
<1> QED
  BY <1>1, <1>3, <1>4, PhaseFrame, ClosingKept, OwedPlaces, OwedPlacesNext DEF OwnInv

\* What is being closed is closed, and a step of it touches nothing else.
LEMMA PhaseClose ==
  ASSUME OwnInv, Next, NEW p \in Threads, CloseStep(p)
  PROVE  Still
<1>0. Cur(p) \in Conns
  BY CurType DEF CloseStep, CloseDel, CloseRemove, CloseCheck, CloseLast, CloseFree, CloseShut, OwnInv
<1> SUFFICES ASSUME NEW b \in Conns, b = Cur(p) PROVE Still
  BY <1>0
<1>1. stage[p] # "none" /\ b \in Conns /\ b \in Registered
  BY CurType DEF CloseStep, CloseDel, CloseRemove, CloseCheck, CloseLast, CloseFree, CloseShut, OwnInv
<1>2. Phase(b) = "closed"
  BY <1>1 DEF Phase, Registered, OwnInv, Inv, TypeOK
<1>3. mem'[b] \in {"closed", "freed"} /\ \A c \in Conns : c # b => mem'[c] = mem[c]
  BY <1>1 DEF CloseStep, CloseDel, CloseRemove, CloseCheck, CloseLast, CloseFree, CloseShut, contexts,
      OwnInv, Inv, TypeOK, Closers
<1>4. Phase(b)' = "closed"
  BY <1>3 DEF Phase
<1>5. ASSUME NEW c \in Conns, c # b PROVE Phase(c)' = Phase(c)
  <2>1. UNCHANGED <<batch, queue, job, mask>>
    BY DEF CloseStep, CloseDel, CloseRemove, CloseCheck, CloseLast, CloseFree, CloseShut, loop, pool, workers
  <2>2. OwedReg(c)' <=> OwedReg(c)
    <3>1. UNCHANGED reg \/ reg' = [reg EXCEPT ![fdof[b]] = None]
      BY DEF CloseStep, CloseDel, CloseRemove, CloseCheck, CloseLast, CloseFree, CloseShut, Deregister, epoll
    <3>2. \A f \in FDs : reg'[f] = reg[f] \/ (f = fdof[b] /\ reg'[f] = None)
      BY <3>1 DEF OwnInv, Inv, TypeOK
    <3>3. None # [ptr |-> c, mask |-> "out"]
      BY SocketAssumption DEF Registration
    <3>4. reg[fdof[b]] # [ptr |-> c, mask |-> "out"]
      BY <1>1, <1>5, <3>3, OwnRegistration
    <3> QED
      BY <3>2, <3>3, <3>4 DEF OwedReg
  <2>3. (OwedEvent(c)' <=> OwedEvent(c)) /\ (OwedTask(c)' <=> OwedTask(c))
    BY <2>1 DEF OwedEvent, OwedTask
  <2>4. \A v \in Workers : OwedBy(v, c)' <=> OwedBy(v, c)
    <3>1. pc' = pc \/ (p \in Workers /\ pc[p] = "closing" /\ pc' = [pc EXCEPT ![p] = "end"])
      BY <1>1, SocketAssumption
         DEF CloseStep, CloseDel, CloseRemove, CloseCheck, CloseLast, CloseFree, CloseShut, workers, Threads,
             OwnInv, Inv, Shape, WorkerShape
    <3>2. \A v \in Workers : pc'[v] = pc[v] \/ (pc[v] = "closing" /\ pc'[v] = "end")
      BY <3>1 DEF OwnInv, Inv, TypeOK
    <3> QED
      BY <2>1, <3>2 DEF OwedBy
  <2>5. Closing(c)' <=> Closing(c)
    <3>1. \A q \in Threads : q # p /\ stage[q] # "none" => stage'[q] # "none" /\ Cur(q)' = Cur(q)
      <4>1. \A q \in Threads : q # p => stage'[q] = stage[q]
        BY DEF CloseStep, CloseDel, CloseRemove, CloseCheck, CloseLast, CloseFree, CloseShut,
            OwnInv, Inv, TypeOK
      <4> QED
        BY <4>1, CurKept DEF OwnInv
    <3>2. \A q \in Threads : q # p => stage'[q] = stage[q]
      BY DEF CloseStep, CloseDel, CloseRemove, CloseCheck, CloseLast, CloseFree, CloseShut,
          OwnInv, Inv, TypeOK
    <3>3. stage'[p] # "none" => Cur(p)' = b
      BY <1>1, CurKept DEF OwnInv
    <3> QED
      BY <1>5, <3>1, <3>2, <3>3 DEF Closing
  <2> QED
    BY <1>3, <1>5, <2>2, <2>3, <2>4, <2>5, PhaseFrame, OwedPlaces, OwedPlacesNext DEF OwnInv
<1> QED
  BY <1>1, <1>2, <1>4, <1>5 DEF Still

-----------------------------------------------------------------------------
(* The steps of the service *)

\* The step is neither to nor from the point between the loop's look at the status
\* and accept.
KeepsAdmitting == (lpc = "accepting")' = (lpc = "accepting")

LEMMA StillMapped ==
  ASSUME Still, status' = status, KeepsAdmitting
  PROVE  UNCHANGED Service!vars
BY DEF Still, ServerPhase, KeepsAdmitting, Service!vars

LEMMA MovedMapped ==
  ASSUME NEW c \in Conns, NEW from, NEW to, Moved(c, from, to), status' = status
  PROVE  \E f \in from : Service!Moves(c, f, to)
<1> DEFINE ph == [d \in Conns |-> Phase(d)]
<1>1. ph' = [ph EXCEPT ![c] = to]
  BY DEF Moved
<1>2. ph[c] \in from
  BY DEF Moved
<1>3. ServerPhase' = ServerPhase
  BY DEF ServerPhase
<1> QED
  BY <1>1, <1>2, <1>3 DEF Service!Moves

LEMMA ServiceLoop ==
  ASSUME ServiceInv, IdleMax = 0, LoopStep
  PROVE  Service!Next \/ UNCHANGED Service!vars
<1>1. OwnInv /\ Inv /\ Next
  BY DEF ServiceInv, OwnInv, Next
<1> USE DEF Service!Next
<1>2. CASE Boot \/ BootFails \/ LoopExit \/ AcceptRefused \/ AddClient \/ Collect
  <2>1. /\ UNCHANGED <<status, mem, stage, reg, queue, job, pc, mask>>
        /\ UNCHANGED batch \/ batch' = batch \ {ListenEvent}
        /\ KeepsAdmitting
    BY <1>2 DEF Boot, BootFails, LoopExit, AcceptRefused, Handles, AddClient, Collect,
        InitTp, Pool!Open, contexts, epoll, pool, workers, KeepsAdmitting
  <2> QED
    BY <1>1, <2>1, StillStep, StillMapped
<1>9. CASE Admit \/ AcceptFails
  <2>1. /\ UNCHANGED <<status, mem, stage, reg, queue, job, pc, mask>>
        /\ UNCHANGED batch \/ batch' = batch \ {ListenEvent}
    BY <1>9 DEF Admit, AcceptFails, Handles, contexts, epoll, pool, workers
  <2>2. UNCHANGED [d \in Conns |-> Phase(d)] /\ UNCHANGED ServerPhase
    BY <1>1, <2>1, StillStep DEF Still, ServerPhase
  <2>3. CASE Admit
    <3>1. lpc = "batch" /\ lpc' = "accepting" /\ status = "run"
      BY <2>3 DEF Admit, Handles
    <3> QED
      BY <2>2, <3>1 DEF Service!Admit, ServerPhase
  <2>4. CASE AcceptFails
    <3>1. lpc = "accepting" /\ lpc' = "batch"
      BY <2>4 DEF AcceptFails
    <3> QED
      BY <2>2, <3>1 DEF Service!Decline
  <2> QED
    BY <1>9, <2>3, <2>4
<1>3. CASE Run \/ CheckStop
  <2>1. UNCHANGED <<mem, stage, reg, queue, job, pc, mask, batch>>
        /\ lpc # "accepting" /\ lpc' # "accepting"
    BY <1>3 DEF Run, CheckStop, contexts, epoll, pool, workers
  <2>2. Still
    BY <1>1, <2>1, StillStep
  <2>3. UNCHANGED [d \in Conns |-> Phase(d)]
    BY <2>2 DEF Still
  <2>4. CASE Run
    BY <2>1, <2>3, <2>4 DEF Run, ServiceInv, ServerPhase, Service!Start
  <2>5. CASE CheckStop
    <3>1. status' = status \/ (status = "reject" /\ status' = "stop")
      BY <2>5 DEF CheckStop
    <3> QED
      BY <2>1, <2>2, <2>3, <3>1, StillMapped DEF ServerPhase, Service!End, KeepsAdmitting
  <2> QED
    BY <1>3, <2>4, <2>5
<1>4. ASSUME NEW c \in Conns, Accept(c) PROVE Service!Next
  <2>1. status' = status /\ lpc = "accepting" /\ lpc' = "adding"
    BY <1>4 DEF Accept
  <2>2. Service!Moves(c, "none", "reading")
    BY <1>1, <1>4, <2>1, PhaseAccept, MovedMapped
  <2> QED
    BY <2>1, <2>2 DEF Service!Open
<1>5. CASE Register \/ Wait \/ \E e \in batch : Enqueue(e)
  <2>1. status' = status /\ KeepsAdmitting
    BY <1>5 DEF Register, Wait, Enqueue, Handles, KeepsAdmitting
  <2> QED
    BY <1>1, <1>5, <2>1, PhaseRegister, PhaseWait, PhaseEnqueue, StillMapped
<1>6. CASE RegisterFails
  <2>1. status' = status /\ cur \in Conns /\ KeepsAdmitting
    BY <1>1, <1>6 DEF RegisterFails, Inv, Shape, LoopShape, Adding, KeepsAdmitting
  <2> QED
    BY <1>1, <1>6, <2>1, PhaseRegisterFails, MovedMapped DEF Service!Close, KeepsAdmitting
<1>7. ASSUME NEW e \in batch, EnqueueFails(e) PROVE Service!Next
  <2>1. status' = status /\ e.ptr \in Conns /\ KeepsAdmitting
    BY <1>1, <1>7, PtrTypes DEF EnqueueFails, KeepsAdmitting
  <2> QED
    BY <1>1, <1>7, <2>1, PhaseEnqueueFails, MovedMapped DEF Service!Close, KeepsAdmitting
<1>8. ASSUME NEW c \in Conns, Reap(c) PROVE FALSE
  BY <1>1, <1>8 DEF Reap, OwnInv
<1> QED
  BY <1>2, <1>3, <1>4, <1>5, <1>6, <1>7, <1>8, <1>9 DEF LoopStep

LEMMA ServiceWorker ==
  ASSUME ServiceInv, NEW w \in Workers, WorkerStep(w)
  PROVE  Service!Next \/ UNCHANGED Service!vars
<1> DEFINE b == job[w].ptr
<1>1. OwnInv /\ Inv /\ Next /\ status' = status /\ lpc' = lpc /\ KeepsAdmitting
  BY DEF ServiceInv, OwnInv, Next, WorkerStep, StartTask, EndTask, Read, Interrupted, WriteLast, List,
         ListClient, Listed, Mark, WritePart, Rearm, Late, loop, KeepsAdmitting
<1>2. CASE StartTask(w) \/ Rearm(w) \/ Late(w) \/ EndTask(w)
  BY <1>1, <1>2, PhaseStart, PhaseRearm, PhaseLate, StillMapped
<1>3. ASSUME pc[w] \in {"io", "listing", "mark", "rearm"},
             UNCHANGED <<mem, reg, batch, queue, job, cur>>, Closes(w)
      PROVE  Service!Next
  <2>1. b \in Conns
    BY <1>1, <1>3, OwedByWorker
  <2>2. Moved(b, {"reading", "writing"}, "closed")
    BY <1>1, <1>3, PhaseCloses
  <2> QED
    BY <1>1, <2>1, <2>2, MovedMapped DEF Service!Next, Service!Close, KeepsAdmitting
<1>4. ASSUME pc[w] \in {"io", "listing", "mark", "rearm"},
             UNCHANGED <<mem, reg, batch, queue, job, stage>>,
             \A v \in Workers : v # w => pc'[v] = pc[v] /\ mask'[v] = mask[v],
             OwedBy(w, b) => OwedBy(w, b)' \/ status # "reject"
      PROVE  Service!Next \/ UNCHANGED Service!vars
  <2>0. b \in Conns
    BY <1>1, <1>4, OwedByWorker
  <2> SUFFICES ASSUME NEW d \in Conns, d = b PROVE Service!Next \/ UNCHANGED Service!vars
    BY <2>0
  <2>1. /\ Phase(d) = IF OwedBy(w, d) THEN "writing" ELSE "reading"
        /\ Phase(d)' = IF OwedBy(w, d)' THEN "writing" ELSE "reading"
        /\ \A c \in Conns : c # d => Phase(c)' = Phase(c)
        /\ OwedBy(w, d) => OwedBy(w, d)' \/ status # "reject"
    BY <1>1, <1>4, OwedByWorker, PhaseKeeps
  <2>2. CASE Phase(d)' = Phase(d)
    <3>1. Still
      BY <2>1, <2>2 DEF Still
    <3> QED
      BY <1>1, <3>1, StillMapped
  <2>3. CASE Phase(d) = "reading" /\ Phase(d)' = "writing"
    <3>1. Moved(d, {"reading"}, "writing")
      BY <2>1, <2>3 DEF Moved
    <3> QED
      BY <1>1, <2>1, <3>1, MovedMapped DEF Service!Next, Service!Request, KeepsAdmitting
  <2>4. CASE Phase(d) = "writing" /\ Phase(d)' = "reading"
    <3>1. Moved(d, {"writing"}, "reading")
      BY <2>1, <2>4 DEF Moved
    <3>2. status # "reject"
      BY <2>1, <2>4
    <3>3. ServerPhase # "draining"
      BY <1>1, <3>2 DEF ServerPhase, Inv, TypeOK
    <3> QED
      BY <1>1, <2>1, <3>1, <3>3, MovedMapped DEF Service!Next, Service!Respond, KeepsAdmitting
  <2> QED
    BY <2>1, <2>2, <2>3, <2>4
<1>5. CASE Read(w) \/ Interrupted(w) \/ List(w) \/ ListClient(w) \/ Listed(w)
  <2>1. UNCHANGED <<mem, reg, batch, queue, job, cur>> /\ pc[w] \in {"io", "listing"}
    BY <1>5 DEF Read, Interrupted, List, ListClient, Listed, contexts, epoll, loop, pool
  <2>2. ~OwedBy(w, b)
    BY <1>5 DEF OwedBy, Read, Interrupted, List, ListClient, Listed
  <2>3. CASE Closes(w)
    BY <1>3, <2>1, <2>3
  <2>4. CASE ~Closes(w)
    <3>1. UNCHANGED stage /\ \A v \in Workers : v # w => pc'[v] = pc[v] /\ mask'[v] = mask[v]
      BY <1>1, <1>5, <2>4 DEF Read, Interrupted, List, ListClient, Listed, Wants, Inv, TypeOK
    <3> QED
      BY <1>4, <2>1, <2>2, <3>1
  <2> QED
    BY <2>3, <2>4
<1>6. CASE Mark(w) \/ WritePart(w)
  <2>1. UNCHANGED <<mem, reg, batch, queue, job, stage>> /\ pc[w] \in {"io", "mark"}
    BY <1>6 DEF Mark, WritePart, Wants, epoll, loop, pool, contexts
  <2>2. \A v \in Workers : v # w => pc'[v] = pc[v] /\ mask'[v] = mask[v]
    BY <1>1, <1>6 DEF Mark, WritePart, Wants, Inv, TypeOK
  <2>3. OwedBy(w, b) => OwedBy(w, b)'
    BY <1>1, <1>6 DEF OwedBy, Mark, WritePart, Wants, Inv, TypeOK, pool
  <2> QED
    BY <1>4, <2>1, <2>2, <2>3
<1>7. CASE WriteLast(w)
  <2>1. UNCHANGED <<mem, reg, batch, queue, job, cur>> /\ pc[w] = "io"
    BY <1>7 DEF WriteLast, contexts, epoll, loop, pool
  <2>2. CASE Closes(w)
    BY <1>3, <2>1, <2>2
  <2>3. CASE status # "reject" /\ Wants(w, "in", "rearm")
    <3>1. UNCHANGED stage /\ \A v \in Workers : v # w => pc'[v] = pc[v] /\ mask'[v] = mask[v]
      BY <1>1, <2>3 DEF Wants, Inv, TypeOK
    <3> QED
      BY <1>4, <2>1, <2>3, <3>1
  <2> QED
    BY <1>7, <2>2, <2>3 DEF WriteLast
<1> QED
  BY <1>2, <1>5, <1>6, <1>7 DEF WorkerStep

LEMMA ServiceClose ==
  ASSUME ServiceInv, NEW p \in Threads, CloseStep(p)
  PROVE  Service!Next \/ UNCHANGED Service!vars
<1>1. Still
  BY PhaseClose DEF ServiceInv, Next
<1>2. (status' = status \/ (status = "reject" /\ status' = "stop")) /\ lpc' = lpc
  BY DEF CloseStep, CloseDel, CloseRemove, CloseCheck, CloseLast, CloseFree, CloseShut, loop
<1>3. UNCHANGED [d \in Conns |-> Phase(d)]
  BY <1>1 DEF Still
<1> QED
  BY <1>1, <1>2, <1>3, StillMapped DEF ServerPhase, Service!Next, Service!End, KeepsAdmitting

LEMMA ServiceOutside ==
  ASSUME ServiceInv, PeerStep \/ Tick \/ StopStep \/ Abort \/ UNCHANGED vars
  PROVE  Service!Next \/ UNCHANGED Service!vars
<1>1. UNCHANGED <<mem, stage, reg, batch, queue, job, pc, mask, cur>>
  BY DEF PeerStep, Tick, StopStep, StopReject, StopPool, StopReturns, JoinReturns,
         Abort, Pool!Close, vars, contexts, epoll, loop, pool, workers
<1>2. Still
  BY <1>1 DEF Still, Phase, Owed, Cur
<1>3. status' \in {status, "reject"} /\ lpc' = lpc
  BY DEF PeerStep, Tick, StopStep, StopReject, StopPool, StopReturns, JoinReturns, Abort, vars,
         loop
<1>4. UNCHANGED [d \in Conns |-> Phase(d)]
  BY <1>2 DEF Still
<1> QED
  BY <1>2, <1>3, <1>4, StillMapped DEF ServerPhase, Service!Next, Service!Drain, KeepsAdmitting

LEMMA ServiceInvNext ==
  ASSUME ServiceInv, IdleMax = 0, ~StopEarly, [Next]_vars
  PROVE  ServiceInv'
<1>1. OwnInv'
  BY OwnNext DEF ServiceInv
<1>2. (lpc \in {"start", "booted"} => status = "init")'
  <2> USE DEF ServiceInv
  <2>1. CASE LoopStep
    BY <2>1 DEF LoopStep, Boot, BootFails, Run, LoopExit, Wait, AcceptRefused, Admit, AcceptFails, Accept, Handles,
      AddClient, Register, RegisterFails, Enqueue, EnqueueFails, Collect, CheckStop, Reap
  <2>2. ASSUME NEW w \in Workers, WorkerStep(w) PROVE UNCHANGED <<lpc, status>>
    BY <2>2 DEF WorkerStep, StartTask, EndTask, Read, Interrupted, WriteLast, List, ListClient, Listed, Mark,
              WritePart, Rearm, Late, loop
  <2>3. ASSUME NEW p \in Threads, CloseStep(p)
        PROVE  lpc' = lpc /\ (status = "init" => status' = "init")
    BY <2>3 DEF CloseStep, CloseDel, CloseRemove, CloseCheck, CloseLast, CloseFree, CloseShut, loop
  <2>4. CASE StopStep
    BY <2>4 DEF StopStep, StopReject, StopPool, StopReturns, JoinReturns, loop
  <2>5. CASE PeerStep \/ Tick \/ Abort \/ UNCHANGED vars
    BY <2>5 DEF PeerStep, Tick, Abort, vars, loop
  <2> QED
    BY <2>1, <2>2, <2>3, <2>4, <2>5 DEF Next, Terminated
<1> QED
  BY <1>1, <1>2 DEF ServiceInv

\* Across all its threads a connection lives as HttpService says: of those that come
\* in once stop_epoll is called there is one at most, which was let in before.
THEOREM SocketImplementsService ==
  ASSUME IdleMax = 0, ~StopEarly
  PROVE  Spec => ImplementsService
<1>1. Init => ServiceInv
  BY OwnInit DEF ServiceInv, Init
<1>2. ServiceInv /\ [Next]_vars => ServiceInv'
  BY ServiceInvNext
<1>3. Init => Service!Init
  BY DEF Init, Service!Init, Phase, ServerPhase
<1>4. ServiceInv /\ [Next]_vars => [Service!Next]_(Service!vars)
  BY ServiceLoop, ServiceWorker, ServiceClose, ServiceOutside DEF Next, Terminated
<1> QED
  BY <1>1, <1>2, <1>3, <1>4, PTL DEF Spec, ImplementsService, Service!Spec

=============================================================================
