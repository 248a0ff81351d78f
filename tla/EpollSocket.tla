----------------------------- MODULE EpollSocket -----------------------------
(***************************************************************************)
(* class EpollSocket, src/src/epoll_socket.{h,cpp}: one event loop thread, *)
(* the workers of a ThreadPool, a thread that calls stop_epoll, and the    *)
(* peers. The kernel's epoll instance and descriptor table are modelled as *)
(* this code uses them; the watcher (HttpEpollWatcher) by what its four    *)
(* callbacks may return.                                                   *)
(*                                                                         *)
(* A connection is identified with the one EpollContext it gets. What a    *)
(* thread does to a context between two points where another thread can    *)
(* interfere is one step. A step that touches a context or HttpContext     *)
(* already deleted aborts the program: a reader of freed memory may do     *)
(* anything, and nothing is promised after it. The one exception is the    *)
(* status write at the end of write_func, see Late.                        *)
(*                                                                         *)
(* Left out: events that are neither EPOLLIN nor EPOLLOUT (Linux reports an*)
(* error on a socket with both of them).                                   *)
(***************************************************************************)
EXTENDS Integers, Sequences, FiniteSets

CONSTANTS
    Conns,          \* connections, each made at most once
    Workers,        \* threads of the pool
    Loop,           \* the thread in start_event_loop
    None,
    NumFDs,         \* bound: descriptors 1..NumFDs are for connections
    IdleMax,        \* _max_idle_sec in ticks, 0 when it is off
    MaxEvents,      \* _max_events
    TaskLimit,      \* the pool's _task_size_limit, -1 when it is off
    Others,         \* bound: tasks of others in a pool given by set_thread_pool
    MayStop,        \* whether stop_epoll is called
    StopEarly,      \* whether it may be called before the loop runs
    MayFail,        \* whether what start_epoll calls, epoll_wait and
                    \* EPOLL_CTL_ADD may fail, and accept for any reason
    MayHangUp,      \* whether a peer may hang up
    MayList         \* whether a request may be one for /_clients

Task == [kind : {"read", "write"}, ptr : Conns]
Registration == [ptr : Conns, mask : {"in", "out", "off"}]

ASSUME SocketAssumption ==
    /\ IsFiniteSet(Conns) /\ IsFiniteSet(Workers)
    /\ NumFDs \in Nat \ {0} /\ MaxEvents \in Nat \ {0}
    /\ IdleMax \in Nat /\ TaskLimit \in Int /\ Others \in Nat
    /\ {MayStop, StopEarly, MayFail, MayHangUp, MayList} \subseteq BOOLEAN
    /\ Loop \notin Workers /\ None \notin Conns \cup Workers \cup Task \cup Registration

VARIABLES
    \* EpollSocket
    status,     \* _status: "init", "run", "reject", "stop"
    clients,    \* _clients
    eclients,   \* _eclients, by connection
    \* the contexts
    mem,        \* "none", "live", "closed" (HttpContext deleted), "freed"
    fdof,       \* fd; kept after the context is freed, as handlers keep a copy
    cstat,      \* _ctx_status: "none", "busy" (READING, WRITING), "over"
    idle,       \* now - _last_interact_time, counted up to IdleMax
    \* the kernel
    backlog,    \* connections waiting in the listen queue
    sock,       \* sock[f]: the connection whose socket is descriptor f
    reg,        \* reg[f]: what epoll watches f for, and the pointer it returns
    data,       \* connections with bytes to read
    hup,        \* connections whose peer has hung up
    \* the event loop
    lpc,        \* where it is
    batch,      \* events of the last epoll_wait not handled yet
    reap,       \* remove_evs of clear_idle_clients
    cur,        \* the context the loop is accepting or closing
    \* the pool and the workers
    queue, job, pool_open,  \* the pool, see TaskPool
    pc,         \* where a worker is in read_func or write_func
    mask,       \* event.events it is about to re-arm with
    snap,       \* what it has still to read of the clients it lists
    stage,      \* where each thread is in close_and_release, or "none"
    \* the thread in stop_epoll and HttpServer::join, and the program
    ctl,
    aborted     \* "no", or what it was that went wrong

FDs == 1..NumFDs
Threads == Workers \cup {Loop}
Event == [fd : FDs, ptr : Conns, mask : {"in", "out"}]
ListenEvent == [fd |-> 0, ptr |-> None, mask |-> "accept"]

table == <<clients, eclients>>
contexts == <<mem, fdof, cstat, idle>>
peers == <<backlog, data, hup>>
epoll == <<sock, reg>>
loop == <<lpc, batch, reap, cur>>
pool == <<queue, job, pool_open>>
workers == <<pc, mask, snap>>
vars == <<status, table, contexts, peers, epoll, loop, pool, workers, stage,
          ctl, aborted>>

\* The thread pool, through what ThreadPool.tla is shown to implement.
Pool == INSTANCE TaskPool WITH
    Tasks <- Task, NoTask <- None,
    pending <- queue, running <- job, open <- pool_open

Init ==
    /\ status = "init"
    /\ clients = 0 /\ eclients = {}
    /\ mem = [c \in Conns |-> "none"]
    /\ fdof = [c \in Conns |-> 0]
    /\ cstat = [c \in Conns |-> "none"]
    /\ idle = [c \in Conns |-> 0]
    /\ backlog = {} /\ data = {} /\ hup = {}
    /\ sock = [f \in FDs |-> None]
    /\ reg = [f \in FDs |-> None]
    /\ lpc = "start" /\ batch = {} /\ reap = {} /\ cur = None
    /\ Pool!Init
    /\ pc = [w \in Workers |-> "idle"]
    /\ mask = [w \in Workers |-> "in"]
    /\ snap = [w \in Workers |-> {}]
    /\ stage = [p \in Threads |-> "none"]
    /\ ctl = "up"
    /\ aborted = "no"

Alive == aborted = "no"

\* The context thread p works on.
Cur(p) == IF p = Loop THEN cur ELSE job[p].ptr

\* The next step of p dereferences what is deleted.
Broken(p) ==
    \/ stage[p] = "del" /\ mem[Cur(p)] # "live"
    \/ stage[p] \in {"remove", "free"} /\ mem[Cur(p)] = "freed"
    \/ /\ p = Loop /\ lpc = "batch" /\ stage[p] = "none"
       /\ \E e \in batch : e # ListenEvent /\ mem[e.ptr] = "freed"
    \/ /\ p \in Workers
       /\ \/ pc[p] = "io" /\ mem[job[p].ptr] # "live"
          \/ pc[p] = "mark" /\ mem[job[p].ptr] = "freed"

\* Worker w lists a client that has been deleted meanwhile.
ListBroken(w) == pc[w] = "listing" /\ \E c \in snap[w] : mem[c] = "freed"

Abort ==
    /\ Alive
    /\ \/ (\E p \in Threads : Broken(p)) /\ aborted' = "context"
       \/ (\E w \in Workers : ListBroken(w)) /\ aborted' = "listing"
    /\ UNCHANGED <<status, table, contexts, peers, epoll, loop, pool, workers,
                   stage, ctl>>

-----------------------------------------------------------------------------
(* The peers. Bytes and hang-up are readiness only: reading may leave bytes,  *)
(* which is the peer sending again.                                           *)

Connected(c) == c \in backlog \/ \E f \in FDs : sock[f] = c

Connect(c) ==
    /\ mem[c] = "none" /\ c \notin backlog
    /\ lpc # "start"
    /\ backlog' = backlog \cup {c}
    /\ UNCHANGED <<data, hup>>

Send(c) ==
    /\ Connected(c) /\ c \notin hup
    /\ data' = data \cup {c}
    /\ UNCHANGED <<backlog, hup>>

Hangup(c) ==
    /\ MayHangUp
    /\ Connected(c)
    /\ hup' = hup \cup {c}
    /\ UNCHANGED <<backlog, data>>

PeerStep ==
    /\ \E c \in Conns : Connect(c) \/ Send(c) \/ Hangup(c)
    /\ UNCHANGED <<status, table, contexts, epoll, loop, pool, workers, stage,
                   ctl, aborted>>

\* A second passes.
Tick ==
    /\ IdleMax > 0
    /\ idle' = [c \in Conns |->
                   IF c \in eclients /\ idle[c] < IdleMax THEN idle[c] + 1 ELSE idle[c]]
    /\ UNCHANGED <<status, table, mem, fdof, cstat, peers, epoll, loop, pool,
                   workers, stage, ctl, aborted>>

-----------------------------------------------------------------------------
(* close_and_release, in the loop or in a worker *)

\* Mutant: no EPOLL_CTL_DEL.
KeepRegistered(f) == UNCHANGED epoll

\* Mutant: close(fd) before the context is deleted.
CloseFirst(f) ==
    /\ reg' = [reg EXCEPT ![f] = None]
    /\ sock' = [sock EXCEPT ![f] = None]

\* EPOLL_CTL_DEL.
Deregister(f) ==
    /\ reg' = [reg EXCEPT ![f] = None]
    /\ UNCHANGED sock

\* Mutant: the entry is erased, the counter forgotten.
EraseOnly(c) ==
    /\ eclients' = eclients \ {c}
    /\ UNCHANGED clients

\* remove_client, under _client_lock.
RemoveClient(c) ==
    /\ clients' = clients - 1
    /\ eclients' = eclients \ {c}

\* Mutant: the entry is made, the counter forgotten.
InsertOnly(c) ==
    /\ eclients' = eclients \cup {c}
    /\ UNCHANGED clients

\* add_client, under _client_lock.
InsertClient(c) ==
    /\ clients' = clients + 1
    /\ eclients' = eclients \cup {c}

\* on_close deletes the HttpContext; EPOLL_CTL_DEL takes the descriptor number.
CloseDel(p) ==
    /\ stage[p] = "del" /\ ~Broken(p)
    /\ mem' = [mem EXCEPT ![Cur(p)] = "closed"]
    /\ Deregister(fdof[Cur(p)])
    /\ stage' = [stage EXCEPT ![p] = "remove"]
    /\ UNCHANGED <<status, table, fdof, cstat, idle, peers, loop, pool, workers, ctl,
                   aborted>>

CloseRemove(p) ==
    /\ stage[p] = "remove" /\ ~Broken(p)
    /\ RemoveClient(Cur(p))
    /\ stage' = [stage EXCEPT ![p] = "check"]
    /\ UNCHANGED <<status, contexts, peers, epoll, loop, pool, workers, ctl, aborted>>

\* The check for the last client, without the lock: _clients is read ...
CloseCheck(p) ==
    /\ stage[p] = "check"
    /\ stage' = [stage EXCEPT ![p] = IF clients = 0 THEN "last" ELSE "free"]
    /\ UNCHANGED <<status, table, contexts, peers, epoll, loop, pool, workers, ctl, aborted>>

\* ... and then _status, and written: from S_REJECT_CONN nobody takes it elsewhere
\* in between.
CloseLast(p) ==
    /\ stage[p] = "last"
    /\ status' = IF status = "reject" THEN "stop" ELSE status
    /\ stage' = [stage EXCEPT ![p] = "free"]
    /\ UNCHANGED <<table, contexts, peers, epoll, loop, pool, workers, ctl, aborted>>

\* delete the context, its fields with it ...
CloseFree(p) ==
    /\ stage[p] = "free" /\ ~Broken(p)
    /\ mem' = [mem EXCEPT ![Cur(p)] = "freed"]
    /\ cstat' = [cstat EXCEPT ![Cur(p)] = "none"]
    /\ idle' = [idle EXCEPT ![Cur(p)] = 0]
    /\ stage' = [stage EXCEPT ![p] = "shut"]
    /\ UNCHANGED <<status, table, fdof, peers, epoll, loop, pool, workers, ctl,
                   aborted>>

\* ... and close(fd). The number is free again, and out of epoll; what the peer
\* of its socket sent or did is gone.
CloseShut(p) ==
    /\ stage[p] = "shut"
    /\ sock' = [sock EXCEPT ![fdof[Cur(p)]] = None]
    /\ reg' = [reg EXCEPT ![fdof[Cur(p)]] = None]
    /\ data' = data \ {sock[fdof[Cur(p)]]}
    /\ hup' = hup \ {sock[fdof[Cur(p)]]}
    /\ stage' = [stage EXCEPT ![p] = "none"]
    /\ IF p = Loop
       THEN cur' = None /\ UNCHANGED pc
       ELSE pc' = [pc EXCEPT ![p] = "end"] /\ UNCHANGED cur
    /\ UNCHANGED <<status, table, contexts, backlog, lpc, batch, reap, pool, mask, snap,
                   ctl, aborted>>

CloseStep(p) ==
    /\ Alive
    /\ \/ CloseDel(p) \/ CloseRemove(p) \/ CloseCheck(p) \/ CloseLast(p)
       \/ CloseFree(p) \/ CloseShut(p)

-----------------------------------------------------------------------------
(* The event loop *)

\* init_tp, whether the pool is the default one or was given.
InitTp == Pool!Open

\* start_epoll up to start_event_loop: the pool is started, then the listening
\* sockets are opened and registered.
Boot ==
    /\ lpc = "start"
    /\ InitTp
    /\ lpc' = "booted"
    /\ UNCHANGED <<status, table, contexts, peers, epoll, batch, reap, cur,
                   workers, stage, ctl>>

\* One of them fails, and start_epoll returns: the pool could not start, or it stays
\* started.
BootFails ==
    /\ MayFail
    /\ lpc = "start"
    /\ UNCHANGED pool \/ InitTp
    /\ lpc' = "done"
    /\ UNCHANGED <<status, table, contexts, peers, epoll, batch, reap, cur,
                   workers, stage, ctl>>

\* start_event_loop sets S_RUN, whatever the status was.
Run ==
    /\ lpc = "booted"
    /\ status' = "run"
    /\ lpc' = "wait"
    /\ UNCHANGED <<table, contexts, peers, epoll, batch, reap, cur, pool,
                   workers, stage, ctl>>

\* The loop is told to end, or epoll_wait fails.
LoopExit ==
    /\ lpc = "wait"
    /\ status = "stop" \/ MayFail
    /\ lpc' = "done"
    /\ UNCHANGED <<status, table, contexts, peers, epoll, batch, reap, cur, pool,
                   workers, stage, ctl>>

Armed == {f \in FDs : reg[f] # None /\ reg[f].mask # "off"}
EventAt(f) == [fd |-> f, ptr |-> reg[f].ptr, mask |-> reg[f].mask]

\* What epoll_wait has to report, and what it may report besides: a socket
\* becomes writable when its peer reads.
MustReport ==
    {EventAt(f) : f \in {g \in Armed :
        sock[g] \in hup \/ (reg[g].mask = "in" /\ sock[g] \in data)}}
    \cup (IF backlog = {} THEN {} ELSE {ListenEvent})
MayReport == {EventAt(f) : f \in {g \in Armed : reg[g].mask = "out"}}

\* What epoll_wait returns: up to MaxEvents of the events that are ready.
Reports ==
    {B \in SUBSET (MustReport \cup MayReport) :
        /\ Cardinality(B) <= MaxEvents
        /\ MustReport \subseteq B \/ Cardinality(B) = MaxEvents}

\* EPOLLONESHOT: a reported registration is disarmed.
Disarm(B) ==
    reg' = [f \in FDs |-> IF \E e \in B : e.fd = f
                          THEN [reg[f] EXCEPT !.mask = "off"] ELSE reg[f]]

Wait ==
    /\ lpc = "wait"
    /\ status # "stop"
    /\ \E B \in Reports : batch' = B /\ Disarm(B)
    /\ lpc' = "batch"
    /\ UNCHANGED <<status, table, contexts, peers, sock, reap, cur, pool, workers,
                   stage, ctl>>

\* The loop is free to handle event e of the batch.
Handles(e) ==
    /\ lpc = "batch" /\ stage[Loop] = "none" /\ ~Broken(Loop)
    /\ e \in batch
    /\ batch' = batch \ {e}

FreeFDs == {f \in FDs : sock[f] = None}

\* accept returns the lowest free descriptor.
Gets(c) ==
    \E f \in FreeFDs :
        /\ \A g \in FreeFDs : f <= g
        /\ sock' = [sock EXCEPT ![f] = c]
        /\ fdof' = [fdof EXCEPT ![c] = f]

\* A connection is waiting but the server does not run: it stays in the listen
\* queue.
AcceptRefused ==
    /\ Handles(ListenEvent)
    /\ status # "run"
    /\ UNCHANGED <<status, table, contexts, peers, epoll, lpc, reap, cur, pool,
                   workers, stage, ctl>>

\* Mutant: the status is not looked at.
AdmitAnyway ==
    /\ Handles(ListenEvent)
    /\ lpc' = "accepting"
    /\ UNCHANGED <<status, table, contexts, peers, epoll, reap, cur, pool, workers,
                   stage, ctl>>

\* The server runs, when its status is looked at ...
Admit ==
    /\ Handles(ListenEvent)
    /\ status = "run"
    /\ lpc' = "accepting"
    /\ UNCHANGED <<status, table, contexts, peers, epoll, reap, cur, pool, workers,
                   stage, ctl>>

\* ... accept succeeds, whatever the status is by then, and the context is created,
Accept(c) ==
    /\ lpc = "accepting"
    /\ c \in backlog
    /\ backlog' = backlog \ {c}
    /\ Gets(c)
    /\ mem' = [mem EXCEPT ![c] = "live"]
    /\ cur' = c
    /\ lpc' = "adding"
    /\ UNCHANGED <<status, table, cstat, idle, data, hup, reg, batch, reap, pool,
                   workers, stage, ctl>>

\* ... or it fails, at least without a free descriptor.
AcceptFails ==
    /\ lpc = "accepting"
    /\ FreeFDs = {} \/ MayFail
    /\ lpc' = "batch"
    /\ UNCHANGED <<status, table, contexts, peers, epoll, batch, reap, cur, pool,
                   workers, stage, ctl>>

AddClient ==
    /\ lpc = "adding"
    /\ InsertClient(cur)
    /\ lpc' = "registering"
    /\ UNCHANGED <<status, contexts, peers, epoll, batch, reap, cur, pool, workers,
                   stage, ctl>>

\* on_accept, then EPOLL_CTL_ADD.
Register ==
    /\ lpc = "registering"
    /\ reg' = [reg EXCEPT ![fdof[cur]] = [ptr |-> cur, mask |-> "in"]]
    /\ lpc' = "batch"
    /\ cur' = None
    /\ UNCHANGED <<status, table, contexts, peers, sock, batch, reap, pool, workers,
                   stage, ctl>>

\* EPOLL_CTL_ADD fails: close_and_release.
RegisterFails ==
    /\ MayFail
    /\ lpc = "registering"
    /\ stage' = [stage EXCEPT ![Loop] = "del"]
    /\ lpc' = "batch"
    /\ UNCHANGED <<status, table, contexts, peers, epoll, batch, reap, cur, pool,
                   workers, ctl>>

\* multi_thread_handle_read_event and multi_thread_handle_write_event up to
\* add_task: the context is marked busy and its interaction time is now.
Touch(c) ==
    /\ cstat' = [cstat EXCEPT ![c] = "busy"]
    /\ idle' = [idle EXCEPT ![c] = 0]

\* add_task may refuse, and must; the others' tasks are none, some or all of Others.
MayRefuse == TaskLimit > 0 /\ Len(queue) + Others > TaskLimit
MustRefuse == TaskLimit > 0 /\ Len(queue) > TaskLimit

Enqueue(e) ==
    /\ e # ListenEvent
    /\ Handles(e)
    /\ ~MustRefuse
    /\ Touch(e.ptr)
    /\ Pool!Submit([kind |-> IF e.mask = "in" THEN "read" ELSE "write", ptr |-> e.ptr])
    /\ UNCHANGED <<status, table, mem, fdof, peers, epoll, lpc, reap, cur, workers,
                   stage, ctl>>

\* Mutant: the result of add_task is not looked at.
EnqueueForgets(e) ==
    /\ e # ListenEvent
    /\ Handles(e)
    /\ MayRefuse
    /\ Touch(e.ptr)
    /\ UNCHANGED <<status, table, mem, fdof, peers, epoll, lpc, reap, cur, pool, workers,
                   stage, ctl>>

\* add_task refuses: close_and_release.
EnqueueFails(e) ==
    /\ e # ListenEvent
    /\ Handles(e)
    /\ MayRefuse
    /\ Touch(e.ptr)
    /\ cur' = e.ptr
    /\ stage' = [stage EXCEPT ![Loop] = "del"]
    /\ UNCHANGED <<status, table, mem, fdof, peers, epoll, lpc, reap, pool, workers,
                   ctl>>

\* clear_idle_clients collects the idle clients, under _client_lock.
IdleClients ==
    IF IdleMax = 0 THEN {} ELSE {c \in eclients : idle[c] >= IdleMax /\ cstat[c] # "busy"}

Collect ==
    /\ lpc = "batch" /\ batch = {} /\ stage[Loop] = "none"
    /\ reap' = IdleClients
    /\ lpc' = "reaping"
    /\ UNCHANGED <<status, table, contexts, peers, epoll, batch, cur, pool, workers,
                   stage, ctl>>

\* ... and closes them one after the other, without the lock.
Reap(c) ==
    /\ lpc = "reaping" /\ stage[Loop] = "none"
    /\ c \in reap
    /\ reap' = reap \ {c}
    /\ cur' = c
    /\ stage' = [stage EXCEPT ![Loop] = "del"]
    /\ UNCHANGED <<status, table, contexts, peers, epoll, lpc, batch, pool, workers,
                   ctl>>

\* Mutant: only close_and_release looks for the last client.
CheckNothing ==
    /\ lpc = "reaping" /\ stage[Loop] = "none" /\ reap = {}
    /\ lpc' = "wait"
    /\ UNCHANGED <<status, table, contexts, peers, epoll, batch, reap, cur, pool,
                   workers, stage, ctl>>

\* The loop's own check for the last client, under _client_lock.
CheckStop ==
    /\ lpc = "reaping" /\ stage[Loop] = "none" /\ reap = {}
    /\ status' = IF clients = 0 /\ status = "reject" THEN "stop" ELSE status
    /\ lpc' = "wait"
    /\ UNCHANGED <<table, contexts, peers, epoll, batch, reap, cur, pool, workers,
                   stage, ctl>>

LoopStep ==
    /\ Alive
    /\ \/ Boot \/ BootFails \/ Run \/ Wait \/ LoopExit
       \/ AcceptRefused \/ Admit \/ (\E c \in Conns : Accept(c)) \/ AcceptFails
       \/ AddClient
       \/ Register \/ RegisterFails
       \/ \E e \in batch : Enqueue(e) \/ EnqueueFails(e)
       \/ Collect \/ (\E c \in Conns : Reap(c)) \/ CheckStop
    /\ UNCHANGED aborted

-----------------------------------------------------------------------------
(* read_func and write_func, in worker w *)

\* The pool gives w its oldest task.
StartTask(w) ==
    /\ Pool!Start(w)
    /\ pc' = [pc EXCEPT ![w] = "io"]
    /\ UNCHANGED <<status, table, contexts, peers, epoll, loop, mask, snap, stage, ctl>>

\* The watcher asks for the connection to be closed.
Closes(w) ==
    /\ pc' = [pc EXCEPT ![w] = "closing"]
    /\ stage' = [stage EXCEPT ![w] = "del"]
    /\ UNCHANGED mask

\* The watcher asks for m; next is the step named next.
Wants(w, m, next) ==
    /\ mask' = [mask EXCEPT ![w] = m]
    /\ pc' = [pc EXCEPT ![w] = next]
    /\ UNCHANGED stage

\* on_readable: with bytes READ_CONTINUE, READ_OVER, or READ_CLOSE for what the
\* parser rejects; without bytes recv returns 0 or EAGAIN, and both close.
Read(w) ==
    /\ pc[w] = "io" /\ job[w].kind = "read" /\ ~Broken(w)
    /\ \/ Closes(w)
       \/ /\ job[w].ptr \in data
          /\ \E m \in {"in", "out"} : Wants(w, m, "mark")
    /\ data' = data \ {job[w].ptr}
    /\ UNCHANGED <<status, table, contexts, backlog, hup, epoll, loop, pool, snap, ctl>>

\* recv is interrupted, EINTR: READ_CONTINUE, whatever there is to read.
Interrupted(w) ==
    /\ pc[w] = "io" /\ job[w].kind = "read" /\ ~Broken(w)
    /\ Wants(w, "in", "mark")
    /\ UNCHANGED <<status, table, contexts, peers, epoll, loop, pool, snap, ctl>>

\* The request is for /_clients: its handler copies the table, under _client_lock ...
List(w) ==
    /\ MayList
    /\ pc[w] = "io" /\ job[w].kind = "read" /\ ~Broken(w)
    /\ job[w].ptr \in data
    /\ data' = data \ {job[w].ptr}
    /\ snap' = [snap EXCEPT ![w] = eclients]
    /\ pc' = [pc EXCEPT ![w] = "listing"]
    /\ UNCHANGED <<status, table, contexts, backlog, hup, epoll, loop, pool, mask, stage,
                   ctl>>

\* ... and reads the contexts one after the other, without it.
ListClient(w) ==
    /\ pc[w] = "listing"
    /\ \E c \in snap[w] : mem[c] # "freed" /\ snap' = [snap EXCEPT ![w] = @ \ {c}]
    /\ UNCHANGED <<status, table, contexts, peers, epoll, loop, pool, pc, mask, stage,
                   ctl>>

Listed(w) ==
    /\ pc[w] = "listing" /\ snap[w] = {}
    /\ Wants(w, "out", "mark")
    /\ UNCHANGED <<status, table, contexts, peers, epoll, loop, pool, snap, ctl>>

\* Mutant: the status stays CONTEXT_READING.
MarkNothing(c) == UNCHANGED cstat

\* _ctx_status = CONTEXT_READ_OVER.
MarkOver(c) == cstat' = [cstat EXCEPT ![c] = "over"]

\* Mutant: epoll_ctl before the handler is done with the context.
RearmFirst(w) ==
    /\ pc[w] = "mark" /\ ~Broken(w)
    /\ MarkOver(job[w].ptr)
    /\ reg' = [reg EXCEPT ![fdof[job[w].ptr]] = [ptr |-> job[w].ptr, mask |-> mask[w]]]
    /\ pc' = [pc EXCEPT ![w] = "rearm"]
    /\ UNCHANGED <<status, table, mem, fdof, idle, peers, sock, loop, pool, mask, snap,
                   stage, ctl>>

\* handle_readable_event after on_readable.
Mark(w) ==
    /\ pc[w] = "mark" /\ ~Broken(w)
    /\ MarkOver(job[w].ptr)
    /\ pc' = [pc EXCEPT ![w] = "rearm"]
    /\ UNCHANGED <<status, table, mem, fdof, idle, peers, epoll, loop, pool, mask, snap,
                   stage, ctl>>

\* on_writeable sends a part of the response that is not the last:
\* WRITE_CONN_CONTINUE.
WritePart(w) ==
    /\ pc[w] = "io" /\ job[w].kind = "write" /\ ~Broken(w)
    /\ Wants(w, "out", "rearm")
    /\ UNCHANGED <<status, table, contexts, peers, epoll, loop, pool, snap, ctl>>

\* on_writeable sends the last part or fails: WRITE_CONN_ALIVE, unless the server
\* is stopping, or WRITE_CONN_CLOSE.
WriteLast(w) ==
    /\ pc[w] = "io" /\ job[w].kind = "write" /\ ~Broken(w)
    /\ \/ status # "reject" /\ Wants(w, "in", "rearm")
       \/ Closes(w)
    /\ UNCHANGED <<status, table, contexts, peers, epoll, loop, pool, snap, ctl>>

\* EPOLL_CTL_MOD on the copied descriptor number, with the copied pointer. It
\* fails when the number is not registered, and changes whoever has it now.
Modify(c, m) ==
    reg' = IF reg[fdof[c]] = None THEN reg
           ELSE [reg EXCEPT ![fdof[c]] = [ptr |-> c, mask |-> m]]

\* Mutant: handle_writeable_event neither re-arms nor sets the status.
RearmReads(w) ==
    /\ pc[w] = "rearm"
    /\ IF job[w].kind = "read" THEN Modify(job[w].ptr, mask[w]) ELSE UNCHANGED reg
    /\ mask' = [mask EXCEPT ![w] = "in"]
    /\ pc' = [pc EXCEPT ![w] = "end"]
    /\ UNCHANGED <<status, table, contexts, peers, sock, loop, pool, snap, stage, ctl>>

Rearm(w) ==
    /\ pc[w] = "rearm"
    /\ Modify(job[w].ptr, mask[w])
    /\ mask' = [mask EXCEPT ![w] = "in"]
    /\ pc' = [pc EXCEPT ![w] = IF job[w].kind = "write" THEN "late" ELSE "end"]
    /\ UNCHANGED <<status, table, contexts, peers, sock, loop, pool, snap, stage, ctl>>

\* write_func sets CONTEXT_WRITE_OVER after handle_writeable_event has re-armed
\* the connection. If the context has been deleted since, the write goes to
\* freed memory: nothing reads it, or a context allocated there gets it.
Late(w) ==
    /\ pc[w] = "late"
    /\ LET c == job[w].ptr
       IN  IF mem[c] # "freed"
           THEN cstat' = [cstat EXCEPT ![c] = "over"]
           ELSE \/ UNCHANGED cstat
                \/ \E d \in Conns : /\ mem[d] \in {"live", "closed"}
                                    /\ cstat' = [cstat EXCEPT ![d] = "over"]
    /\ pc' = [pc EXCEPT ![w] = "end"]
    /\ UNCHANGED <<status, table, mem, fdof, idle, peers, epoll, loop, pool, mask, snap,
                   stage, ctl>>

\* The task returns.
EndTask(w) ==
    /\ pc[w] = "end"
    /\ Pool!Finish(w)
    /\ pc' = [pc EXCEPT ![w] = "idle"]
    /\ UNCHANGED <<status, table, contexts, peers, epoll, loop, mask, snap, stage, ctl>>

WorkerStep(w) ==
    /\ Alive
    /\ \/ StartTask(w)
       \/ Read(w) \/ Interrupted(w) \/ List(w) \/ ListClient(w) \/ Listed(w) \/ Mark(w)
       \/ WritePart(w) \/ WriteLast(w) \/ Rearm(w) \/ Late(w)
       \/ EndTask(w)
    /\ UNCHANGED aborted

-----------------------------------------------------------------------------
(* stop_epoll, then HttpServer::join *)

StopReject ==
    /\ MayStop
    /\ ctl = "up"
    /\ StopEarly \/ lpc \notin {"start", "booted"}
    /\ status' = "reject"
    /\ ctl' = "closing"
    /\ UNCHANGED <<pool, aborted>>

\* destroy_threadpool: from here no worker takes a task. There is no pool before
\* init_tp, and one that could not start has not all the threads that are joined
\* (ThreadPool!JoinUndefined).
StopPool ==
    /\ ctl = "closing"
    /\ \/ ~pool_open /\ aborted' = "pool" /\ UNCHANGED <<pool, ctl>>
       \/ lpc # "start" /\ Pool!Close /\ ctl' = "joining" /\ UNCHANGED aborted
    /\ UNCHANGED status

\* ... its joins return when every worker has finished what it ran.
StopReturns ==
    /\ ctl = "joining"
    /\ \A w \in Workers : job[w] = None
    /\ ctl' = "stopped"
    /\ UNCHANGED <<status, pool, aborted>>

\* HttpServer::join: the thread of start_sync has returned.
JoinReturns ==
    /\ ctl = "stopped"
    /\ lpc = "done"
    /\ ctl' = "done"
    /\ UNCHANGED <<status, pool, aborted>>

StopStep ==
    /\ Alive
    /\ StopReject \/ StopPool \/ StopReturns \/ JoinReturns
    /\ UNCHANGED <<table, contexts, peers, epoll, loop, workers, stage>>

-----------------------------------------------------------------------------

Terminated ==
    /\ ~Alive \/ ctl = "done"
    /\ UNCHANGED vars

Next ==
    \/ Alive /\ (PeerStep \/ Tick)
    \/ LoopStep
    \/ \E w \in Workers : WorkerStep(w)
    \/ \E p \in Threads : CloseStep(p)
    \/ StopStep
    \/ Abort
    \/ Terminated

Spec == Init /\ [][Next]_vars

(* Fairness: every thread goes on when it can, and stop_epoll once called. A  *)
(* response is finite and a failed send closes, so of the write events of a   *)
(* connection one is the last: strong fairness of WriteLast. Sockets do not   *)
(* block, so that recv is not interrupted each time: strong fairness of Read. *)
(* The clock does not stop. Peers need not do anything.                       *)
WorkerFairness(w) ==
    /\ WF_vars(WorkerStep(w))
    /\ WF_vars(CloseStep(w))
    /\ SF_vars(Alive /\ WriteLast(w) /\ UNCHANGED aborted)
    /\ SF_vars(Alive /\ Read(w) /\ UNCHANGED aborted)

Fairness ==
    /\ WF_vars(LoopStep)
    /\ WF_vars(CloseStep(Loop))
    /\ \A w \in Workers : WorkerFairness(w)
    /\ WF_vars(Alive /\ (StopPool \/ StopReturns \/ JoinReturns) /\ StopStep)
    /\ WF_vars(Alive /\ Tick)
    /\ WF_vars(Abort)

FairSpec == Spec /\ Fairness

-----------------------------------------------------------------------------
(* Invariants *)

Held(c) == mem[c] \in {"live", "closed"}

TypeOK ==
    /\ status \in {"init", "run", "reject", "stop"}
    /\ clients \in 0..Cardinality(Conns) /\ eclients \subseteq Conns
    /\ mem \in [Conns -> {"none", "live", "closed", "freed"}]
    /\ fdof \in [Conns -> 0..NumFDs]
    /\ cstat \in [Conns -> {"none", "busy", "over"}]
    /\ idle \in [Conns -> 0..IdleMax]
    /\ backlog \subseteq Conns /\ data \subseteq Conns /\ hup \subseteq Conns
    /\ sock \in [FDs -> Conns \cup {None}]
    /\ reg \in [FDs -> Registration \cup {None}]
    /\ lpc \in {"start", "booted", "wait", "batch", "accepting", "adding",
                "registering", "reaping", "done"}
    /\ batch \subseteq Event \cup {ListenEvent}
    /\ reap \subseteq Conns /\ cur \in Conns \cup {None}
    /\ queue \in Seq(Task) /\ job \in [Workers -> Task \cup {None}]
    /\ pool_open \in BOOLEAN
    /\ pc \in [Workers -> {"idle", "io", "listing", "mark", "rearm", "late", "closing",
                            "end"}]
    /\ mask \in [Workers -> {"in", "out"}] /\ snap \in [Workers -> SUBSET Conns]
    /\ stage \in [Threads -> {"none", "del", "remove", "check", "last", "free", "shut"}]
    /\ ctl \in {"up", "closing", "joining", "stopped", "done"}
    /\ aborted \in {"no", "context", "listing", "pool"}

\* The places from which context c is about to be handled: an armed
\* registration, an event the loop has not handled, a queued task, a worker up
\* to its re-arm, the loop itself.
Places(c) ==
    {<<"armed", f>> : f \in {g \in Armed : reg[g].ptr = c}}
    \cup {<<"event", e.fd>> : e \in {x \in batch : x.ptr = c}}
    \cup {<<"queued", i>> : i \in {j \in DOMAIN queue : queue[j].ptr = c}}
    \cup {<<"worker", w>> : w \in {v \in Workers :
              /\ pc[v] \in {"io", "listing", "mark", "rearm", "closing"} /\ stage[v] # "shut"
              /\ job[v].ptr = c}}
    \cup (IF cur = c /\ stage[Loop] # "shut" THEN {<<"loop", 0>>} ELSE {})

\* EPOLLONESHOT and the re-arm at the end of each handler hand a context from
\* thread to thread: as long as it exists it is in one place, so that no two
\* threads handle one connection at a time and no connection is forgotten.
OneOwner == \A c \in Conns : Cardinality(Places(c)) = IF Held(c) THEN 1 ELSE 0

\* The counter stop_epoll's end is decided on, _clients, and the table get_clients
\* and the reaper go through agree, and no entry of the table is deleted.
ClientsMatch ==
    /\ clients = Cardinality(eclients)
    /\ \A c \in eclients : Held(c)

\* What epoll returns for a descriptor is the context of the socket behind it:
\* no registration outlives its connection or is given to the next one with the
\* same number.
RegistrationSound ==
    \A f \in FDs : reg[f] # None => sock[f] = reg[f].ptr /\ Held(reg[f].ptr)

\* A context owns its socket as long as it exists, and one socket only: no
\* descriptor is closed under its connection, twice, or for another one that got
\* the number.
SocketOwned == \A c \in Conns : Held(c) => {f \in FDs : sock[f] = c} = {fdof[c]}

\* Without an idle time no thread has the context it works on deleted under its
\* hands: only a listing of the clients reads what is not its own.
ContextsLive == IdleMax = 0 => aborted # "context"

\* clear_idle_clients skips a client that is in use ("this client is using, skip
\* it!", epoll_socket.cpp:442): it never closes a context whose event is queued
\* for the workers.
Reaped == IF lpc = "reaping" THEN reap \cup ({cur} \ {None}) ELSE {}

ReaperSparesQueued == \A i \in DOMAIN queue : queue[i].ptr \notin Reaped

-----------------------------------------------------------------------------
(* The service it implements *)

\* A response is owed: wherever connection c is, it is there to be written to.
Owed(c) ==
    \/ \E f \in FDs : reg[f] = [ptr |-> c, mask |-> "out"]
    \/ \E e \in batch : e.ptr = c /\ e.mask = "out"
    \/ \E i \in DOMAIN queue : queue[i] = [kind |-> "write", ptr |-> c]
    \/ \E w \in Workers :
          \/ job[w] = [kind |-> "write", ptr |-> c] /\ pc[w] = "io"
          \/ pc[w] \in {"mark", "rearm"} /\ job[w].ptr = c /\ mask[w] = "out"

Phase(c) ==
    CASE mem[c] = "none" -> "none"
      [] \/ mem[c] \in {"closed", "freed"}
         \/ mem[c] = "live" /\ \E p \in Threads : stage[p] # "none" /\ Cur(p) = c -> "closed"
      [] OTHER -> IF Owed(c) THEN "writing" ELSE "reading"

ServerPhase ==
    CASE status = "init" -> "new" [] status = "run" -> "open"
      [] status = "reject" -> "draining" [] status = "stop" -> "ended"

Service == INSTANCE HttpService WITH
    server <- ServerPhase,
    admitting <- (lpc = "accepting"),
    phase <- [c \in Conns |-> Phase(c)]

\* Across all its threads a connection lives as HttpService says, when no idle time
\* is set: none is taken in once stop_epoll is called but one that was let in before,
\* requests and responses alternate, a keep-alive connection is not kept by a server
\* that stops, and what is closed stays closed.
ImplementsService == Service!Spec

-----------------------------------------------------------------------------
(* Liveness *)

\* The context of a peer that has hung up is freed, whatever it was doing, unless the
\* workers have been stopped.
HungUpReleased ==
    \A c \in Conns : (Held(c) /\ c \in hup) ~> (mem[c] = "freed" \/ ~Alive \/ ~pool_open)

\* A client that has gone silent is closed when an idle time is set, unless the
\* workers it needs have been stopped.
IdleReaped ==
    \A c \in Conns :
        mem[c] = "live" ~> (mem[c] = "freed" \/ c \in data \/ ~Alive \/ ~pool_open)

\* Once a running server rejects connections and has none, its loop ends: either
\* check for the last client, the loop's or the closing thread's, sees it. (A stop
\* before start_event_loop is overwritten there.)
Running == lpc \notin {"start", "booted"}

DrainedStops ==
    (Running /\ status = "reject" /\ eclients = {}
        /\ lpc \notin {"accepting", "adding", "registering"})
        ~> (lpc = "done" \/ ~Alive)

\* stop and then join return, as the test waits for both in turn
\* (http_server_test.cpp:69-70), when the peers of a running server hang up.
StopThenJoin ==
    (Running /\ status = "reject" /\ ctl = "closing" /\ Conns \subseteq hup)
        ~> ctl = "done"

=============================================================================
