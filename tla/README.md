# A TLA+ model of ehttp

ehttp is a small HTTP server library in C++ (`src/src/`, about 3000 lines of its
own; the rest of the repository is vendored). One thread runs an epoll loop and
hands every event of a connection to a thread pool; a worker reads and parses, or
writes, and re-arms the connection. This directory holds TLA+ modules of its
concurrent core, TLC runs on small instances, and TLAPS proofs.

File and line references are to `src/`.

## 1. Inventory

| component | source | state it keeps | operations | what makes it hard |
|---|---|---|---|---|
| thread pool | `src/src/threadpool.{h,cpp}` | `_pool_state`, `_threads`, `_tasks`, `_task_size_limit`, one mutex with an `_is_locked` flag, one condition variable | `start_threadpool`, `destroy_threadpool`, `add_task`, `execute_thread`, `~ThreadPool` | lost wakeups, spurious wakeups, stop against sleep, a failing `pthread_create`, restart of one pool |
| event loop and connections | `src/src/epoll_socket.{h,cpp}` | `_status`, `_clients`, `_eclients` (under `_client_lock`, and read without it), one `EpollContext` per connection (fd, `_ctx_status`, `_last_interact_time`) | accept, dispatch, `handle_readable_event`, `handle_writeable_event`, `close_and_release`, `clear_idle_clients`, `get_clients`, `start_epoll`, `stop_epoll` | one context in many hands (EPOLLONESHOT), descriptor numbers that are reused, deletion by one thread while another still uses, the reaper's check before its act, a listing that outlives the lock, overload, stop while clients are connected |
| response writer | `on_writeable` in `src/src/http_server.cpp`, `Response` in `src/src/sim_parser.cpp` | the stream `_res_bytes` with its get position and eofbit | `gen_response`, `readsome`, `rollback`, `on_writeable` | partial sends, the end of the stream at a multiple of the buffer |
| HTTP server front end | `src/src/http_server.{h,cpp}` | resource map, watcher, `EpollSocket`, pool | `add_mapping`, `handle_request`, `start_async`, `stop`, `join`, destruction | static method sets changed by `operator\|`, destruction while workers run |
| request parser | `Request`, `parse_request` in `src/src/sim_parser.cpp` | http_parser's state, the request line, headers, `_parse_part`, `_total_req_size` | `parse_request`, six callbacks | requests cut anywhere, two requests in one read, errors signalled at different depths |
| multipart and forms | `src/src/sim_parser.cpp` | multipart parser state, parameter maps | part callbacks, query string splitting, `unescape` | separators in values, chunk boundaries |
| log | `src/src/simple_log.{h,cpp}` | the log file and the dated ones, the open stream, `_last_sec`, `_retain_day` | `log_info` and the like, rotation by date, retention, reload on SIGUSR1 | `_last_sec` read and written outside the lock, renames over existing files, the first day of a month, a restart |
| configuration, strings | `simple_config.cpp`, `string_utils.cpp` | none | load, split | none that is concurrent |
| vendored libraries | `src/deps/` | | | third-party, seen only as `src/src` uses it |

How they interact: `EpollSocket` owns or borrows a `ThreadPool` and pushes a
`TaskData` (kind and context pointer) per epoll event; the pool's workers call
`read_func`/`write_func`, which call back into the `EpollSocket` and its watcher
`HttpEpollWatcher`. The watcher keeps the `HttpContext` (request and response) in
the connection's context and answers each call with continue, over, alive or close.
`HttpServer::stop` calls `stop_epoll` in another thread; `join` waits for the loop.

What makes each correct:

- pool: no task is lost, run twice or run out of order; no worker sleeps while
  work waits; stop reaches every worker; nobody is left when `destroy_threadpool`
  returns.
- connections: one owner of each context at a time, no connection forgotten;
  `_clients` and `_eclients` agree; a registration never outlives its connection; a
  peer that hangs up is released, a silent one reaped; a stopping server ends.
- writer: the bytes reach the socket in order, once each, all of them; keep-alive is
  kept.
- parser: the same request however it is cut; no handler before its request is
  whole, no request that is whole left waiting; the size limit on requests and not on
  reads.
- connections as a service: after `stop_epoll` none is taken in but one that was let in
  before, requests and responses alternate, no keep-alive from a server that stops, what is closed stays closed.
- forms: a parameter comes out as it was meant, whatever its value has in it and wherever
  its bytes are cut.
- routing: the first mapping of a path answers it, for the methods it was given.
- log: no line is lost to a rename or a deletion that was not due, and a line is found
  under its day.

## 2. Modules

| module | what it is |
|---|---|
| `TaskPool` | what a pool promises: a first-in first-out queue whose tasks start only while it is open |
| `ThreadPool` | the pool with its mutex, condition variable, threads and callers |
| `ThreadPoolProofs` | proofs about `ThreadPool`, and that it implements `TaskPool` |
| `HttpService` | what the server promises of its connections: open, request and response in turn, closed once, drained |
| `EpollSocket` | the loop, the workers' handlers, the kernel's epoll and descriptor table, the peers and the stopping thread; the pool is `INSTANCE TaskPool`, and it implements `HttpService` |
| `EpollSocketProofs`, `EpollSocketOwnerProofs` | proofs about it, the second on the first: types, tables and descriptors; who owns a context, and the refinement of `HttpService` |
| `FormData` | operators: query strings, `unescape`, urlencoded and multipart bodies |
| `Routing` | operators: method sets, `add_mapping`, `handle_request` |
| `RequestParser` | `parse_request`, the callbacks of http_parser and `on_readable` over the reads of one connection; extends `FormData` and `Routing` |
| `RequestParserProofs`, `RequestAnswerProofs` | proofs about it and `Routing`, the second on the first: types, sizes, early handlers and routing; what becomes of the request of a client that waits |
| `FormDataProofs` | facts about sequences, and what the operators of `FormData` return |
| `LogRotation` | the log file, its dated predecessors, and the threads that write, rename and delete them |
| `LogRotationProofs` | proofs about it |
| `ResponseWriter` | one response over a non-blocking socket |
| `ResponseWriterProofs` | proofs about it |
| `MCThreadPool`, `MCEpollSocket`, `MCRequestParser`, `MCResponseWriter`, `MCLogRotation` | small instances |

`EpollSocket` composes with `TaskPool` and not with `ThreadPool`: the refinement
checked by `pool_restart` and proved in `ThreadPoolProofs` is what makes that
exchange sound for safety. `RequestParser` is the inside of the `Read` action of
`EpollSocket`, `ResponseWriter` of `WritePart` and `WriteLast`; `OneOwner` is what allows
to look at one connection's `Request` and `Response` without other threads. `LogRotation`
stands alone: every thread logs, and no other component depends on what becomes of it.

### ThreadPool

| code | model |
|---|---|
| `_pool_state`, `_threads`, `_tasks`, `_task_size_limit` | `pool_state`, `threads`, `tasks`, `task_size_limit` |
| the mutex, `Mutex::_is_locked` | `mutex` (who holds it), `is_locked`, changed by `Acquire`/`Release`; `pthread_cond_wait` moves only `mutex`, as the code does |
| `pthread_cond_wait` | `Sleep` gives the mutex up and waits in one step; `Signal`/`Broadcast` or `SpuriousWake` move a waiter to `Relock` |
| `start_threadpool` | `StartThreadpool`, a `CreateThread` per thread, `CreateFails`, `StartReturns` |
| `destroy_threadpool` | `DestroyLock` (state under the mutex), `DestroyBroadcast`, then one per turn of the loop: `Join` of a handle nobody has joined, `JoinUndefined` where there is none; `DestroyReturns` |
| `execute_thread` | `Lock`, `DecideSleep`, `Sleep`, `Relock`, `Take`, `Leave`, `Finish` |
| `add_task` | `AddLock`, `AddRefuse` (limit), `AddPush` (push and signal, then unlock) |
| `~ThreadPool`, `~Mutex` | `Destruct` |

`DecideSleep` and `Sleep` are two steps although the mutex is held over both, so that
a broken use of the mutex would show. `threads` is not emptied by a start, which is
what the code does: the second `destroy_threadpool` joins the handles of the first
start again (`threadpool.cpp:112`); and after a failed `pthread_create` the loop reads
`_threads` past its end. Both are undefined and are `JoinUndefined`: the program ends there
(`mpc` "aborted", and nothing is claimed afterwards), or the call returns and the loop goes
on. So `StopCompletes` is stated for a stop that has a handle for every turn of the loop
(`Handle`), and `JoinedAll` is checked and proved for one start. `offered`, `accepted` and
`finished` are history: which tasks were given to `add_task`, which it took, which
ran. A pool is destroyed by its owner when nobody is calling `add_task` (the guard of
`Destruct`); the owner is one thread.

### EpollSocket

A connection of the model is identified with the `EpollContext` it gets, so a
context that was deleted is never mistaken for a new one at its address. The steps
are cut where another thread can come between: `close_and_release` is
`CloseDel` (`on_close`, EPOLL_CTL_DEL), `CloseRemove` (`remove_client` under the
lock), `CloseCheck` (the unlocked look at `_clients`), `CloseLast` (the look at `_status` and
its write), `CloseFree` (`delete`) and `CloseShut` (`close(fd)`); a read is `StartTask`, `Read`
(`on_readable`) or `Interrupted` (its `recv` ends with EINTR),
`Mark` (`_ctx_status = CONTEXT_READ_OVER`), `Rearm` (`epoll_ctl`), `EndTask`; a write
is `StartTask`, `WritePart` or `WriteLast`, `Rearm`, `Late` (the status write of
`write_func` after the connection was given back), `EndTask`; accepting is `Admit` or
`AcceptRefused` (the unlocked look at `_status`), `Accept` or `AcceptFails` (whatever the
status is by then), `AddClient`, `Register`; the loop is `Wait`, one step per event, `Collect`
and `Reap` (`clear_idle_clients`), `CheckStop`. A request for `/_clients` is `List`
(`get_clients`, the copy of the table under the lock), a `ListClient` per context it reads
without the lock, in any order (the code's is by id), and `Listed`. `BootFails` is any of
the calls of `start_epoll` that returns early; the pool it started stays.

The pool may be shared (`set_thread_pool`): `Others` bounds the tasks of others in its
queue, so that `add_task` may refuse at any length of ours from which theirs can pass the
limit (`MayRefuse`), and must when ours do alone (`MustRefuse`).

The kernel is external: `reg` is the interest list, keyed by descriptor number
with the pointer epoll returns, `Disarm` is EPOLLONESHOT, `Modify` acts on whoever
has the number now, `Accept` takes the lowest free number. Peers connect, send and
hang up at any time. What the watcher returns is any value its code can return
there.

`ImplementsService` maps each connection to a phase of `HttpService`: "writing" from
where the response is owed (an EPOLLOUT registration, event or task, or a worker about to
ask for one: `Owed`), "closed" from the first step of `close_and_release` on (`Phase`),
`_status` to the server's, and the loop between `Admit` and `Accept` to `admitting`: one
connection may come in after `stop_epoll`, if it was let in before. It is checked without an idle limit, since with one a
connection can be closed while a worker handles it.

Undefined behaviour: a step that would use a context or `HttpContext` already
deleted, or a pool that is not there yet, sets `aborted` to what it was (`Broken`,
`ListBroken`, `Abort`, `StopPool`) and nothing is claimed afterwards. A pool of which only a
part of the threads was created is not composed with: joining it is `JoinUndefined` of
`ThreadPool`. `ContextsLive` says
when that cannot happen. The late
write of `write_func` to a deleted context is a choice instead: it hits nothing that
is read, or the status of another context allocated there.

### RequestParser

`sent` is what the client sends, `got` how much of it has been received, `req` the
`Request` with the part of http_parser's state that its callbacks depend on. Data is
abstracted to pieces: a header name or value is two of them, so that a read can end
inside it, and an "end" piece, so that a read can end just before the separator and
the next begin with a call of length 0. A URL or a form is cut at every character, since its
"&", "=", "%" and "+" mean something; of a multipart body a piece is what
multipart_parser calls back with. `Consume` and `EndOfRead`, by which `Execute` reads the
pieces in turn, are http_parser
(external: which callback it makes for which piece, when it stops); `OnUrl`,
`OnHeaderField`, `OnHeaderValue`, `OnHeadersComplete`, `OnBody` and `OnMessageComplete` are the
`ss_on_*` functions; `ParseRequest` and `Return` are `parse_request`, `Receive` is
`on_readable` with the call of `handle_request`, `RespondAlive` and `RespondClose` what
`on_writeable` leaves behind. A client either waits for its answer or sends ahead
(`ahead`).

`FormData` has `RequestParam`, `RequestLine`'s part of it, `unescape`, and the
`ss_on_multipart_*` callbacks folded over the callbacks multipart_parser makes
(`ParseMultipart`; "junk" is where it stops). `_parse_state` of a `FileItem` is declared
`bool`, so that 1 and 3 are one value of it: `typed`. `Parts` is `getline` while the stream
is good, which gives an empty last piece, `SplitStr` the loop on `getline`'s result, which
does not.

`Routing` folds `AddMapping` over the program's calls. The static `GET_METHOD`,
`POST_METHOD` and `OPTIONS_METHOD` exist once per source file; `names` has the `_names` of
each, and `Or` changes the leftmost operand, as `operator|` does.

`MeansRequest` is the reference a handler's view (`Seen`) is compared with: what the client
meant, before it was escaped and put on the wire. Parameter names are not escaped in the
instances: the code compares names as they came, so an escaped one is not found.

### ResponseWriter

`pos` and `eof` are the stream's get position and eofbit, `out` the positions of the
bytes the socket took. `istream::read` sets eofbit when it wants more bytes than there
are, not when the last byte fills the buffer: `ReadsOver(n) == n < Chunk`.

### LogRotation

| code | model |
|---|---|
| `_log_file`, `_log_file.<date>` | `current`, `dated[d]`: sequences of lines, or `Absent` |
| `_fs.is_open()`, `_last_sec`, `_retain_day`, `_is_inited`, `use_file_appender` | `open`, `last`, `retain`, `inited`, `use_file` |
| `_log` | `Log` (`gettimeofday`), `Check`, `Shift` (locked), `Delete`, `Stamp` (all of `shift_file_if_need`), `Write` (locked) |
| `_check_config_file`, by `log_init` or SIGUSR1 | `Configure`, then `InitAppender` |
| the end of the program, and its next start | `Restart`: the files stay, the variables do not |

A day is a number, and there are two counts of them. Files are named by `localtime_r`
(`simple_log.cpp:78`): that is `now`, and `tv` what a thread has read of it. Whether the day
has changed is reckoned from `tz_minuteswest` (`simple_log.cpp:104`), which `gettimeofday`
leaves 0 on current systems, so that it is the day of UTC: `tested` and `tz`. Where the
program runs with `same_zone` the two are one; elsewhere either may be ahead of the other
(`Midnight`, `Turn`). Summer time
and changes of the zone are left out.

`current` is `Absent` until an `open` succeeds, and again after a rename whose `open` fails.
A rename fails when there is nothing to rename, no path, or for any other reason
(`MayFail`), and makes no file then (`Rename`); the current file is opened anew all the same.

`retain_day` 1 and `Firsts` make
the deletion meet a file of the day before the first of a month, which has the name of a
day 00.

`NamedByDay` and `Retained` leave out what the code does not do, and no more:

- `crossed`, a history: midnight came while a call was between its clock and its stamp. Then
  a held-up thread can set `_last_sec` back, and lines of the new day are renamed as the day
  before's, or a shift is left out. Nothing is promised then.
- `missed`, a history: the days to whose file a rename was tried and failed. A second thread
  that found the day changed finds that file missing still, and renames the one the first
  has opened and written today's line to. Such a file may hold the lines of one more day
  (`Slack`), which are deleted a day early.
- without `same_zone` every file may, and does: see the end of section 3.

`NothingLost` is promised always.

## 3. Runs

All passing runs finish without an error; symmetry is used only in runs without
liveness properties.

| run | bounds | shows |
|---|---|---|
| `pool_restart` | 4 threads over 2 starts of 0, 1 or 2, 2 submitters, 3 tasks, limits -1, 1 and 2, `pthread_create` may fail | `TypeOK`, `WorkConserving` (no lost wakeup), `StopSeen`, `ExactlyOnce`, `QueueBounded`, `ImplementsTaskPool` |
| `pool_live` | 1 start, 2 threads, 1 submitter, 2 tasks, `pthread_create` may fail | `JoinedAll`, `AcceptedRuns`, `StopCompletes` (which is of the stops for which every thread was created) |
| `socket_handoff` | 2 connections, 2 workers, 2 descriptors, a task limit of 1 in a pool with up to 2 tasks of others, `/_clients`, stop once the loop runs, failing start, epoll_wait, accept and EPOLL_CTL_ADD, no idle limit | `TypeOK`, `OneOwner`, `ClientsMatch`, `RegistrationSound`, `SocketOwned`, `ContextsLive`, `ImplementsService` |
| `socket_live` | 2 connections on 1 descriptor, 1 worker, idle limit of one tick, hang-ups, stop at any time, also before the loop runs | `ClientsMatch`, `HungUpReleased`, `IdleReaped`, `DrainedStops` |
| `socket_reapqueued` | 1 connection, 2 workers, idle limit | violated: the reaper frees a client whose request is queued |
| `socket_join` | 1 connection, 1 worker, stop | violated: `join` never returns |
| `parser_read` | 1 to 3 of 13 requests, every cut, a client that waits or sends ahead; a limit that the longest request meets exactly and one passes by a piece | `TypeOK`, `Faithful`, `Routed`, `NotEarly`, `Answered`, `SizeLimited` |
| `parser_methods` | the mappings of `test/hello_server.cpp`, one OPTIONS request | violated: a handler mapped with the default runs for OPTIONS |
| `writer_send` | buffer of 3, responses of 1 to 10 bytes, every split | `TypeOK`, `InOrder`, `LossBounded`, `Ends` |
| `writer_whole` | same | violated: the rest of the last buffer is dropped |
| `writer_keepalive` | same | violated: a response that fills its last buffer is closed |
| `log_rotation` | 2 threads, 3 days with a first of a month, 3 lines, 1 restart, one count of days or two, failing mkdir, rename and open | `TypeOK`, `NothingLost`, `NamedByDay`, `Retained` |

Why the bounds are enough. Two workers are the least with which two can race for
one task or one connection, and one of them can hold a stale pointer while the other
frees it; a third has nothing to do that one of the two does not. Two connections
compete for a worker, for the last-client check and for a descriptor number; one
descriptor for two connections makes every accept reuse a number. `Others` = 2 lets
`add_task` refuse with an empty queue of ours (2 + 0 > 1), and with a task of ours waiting;
that it need not refuse is the case without others. Without hang-ups (`MayHangUp`) a
safety run loses
no behaviour of the server: a read may ask for the close whatever the peer did, and a
write event may come at any time. `IdleMax` is one because only "idle or not"
matters. `MaxEvents` is large enough for a batch with all that is ready (the loop
handles a batch after it was reported, so events in it can be stale). `socket_live` has
one worker, so that what it must release cannot be released by another; the races of
two are in the safety run. Three buffers
and one byte give a response that ends inside a buffer, at its last byte and after
it. Two requests on a
connection are the least with which one can spoil the next, and an upload between two forms
has both of the stores a body can leave something in. Two pieces a token let a read end
inside it, before its end and after it. The sessions are chosen so that each kind of body
follows one that keeps the connection; every cut of each is tried.
Two threads are the least that race for a shift; three lines are one before, one during
and one after it; three days have two shifts, a deletion due, and one that a first of a
month leaves undone.
One tick, one start, two starts, one restart: `Tick`, `MaxStarts` and `MaxRestarts` are
bounds, the code has none.

### Fairness

`ThreadPool!Fairness`: a thread that can go on does (weak fairness of each step);
a thread that wants the mutex gets it (strong, since the mutex is free only now and
then): what a pthread mutex gives under a scheduler that starves nobody. Of
`JoinUndefined` too, which has both outcomes. Nothing is
assumed of the owner, of submitters, or of spurious wakeups.

`EpollSocket!Fairness`: weak fairness of the loop, of each worker, of `stop_epoll`
once called, of the clock and of `Abort`. `Read` is strongly fair: the sockets do not block,
so that `recv` is not interrupted each time. `WriteLast` is strongly fair: a response is
finite and a failed `send` closes, so of many write events one is the last; `Ends` of
`ResponseWriter` is the reason. Nothing is assumed of peers.

### What the violated runs show

1. `socket_reapqueued` (`epoll_socket.cpp:78`): the status write after the re-arm
   overwrites CONTEXT_READING; the reaper's "this client is using, skip it!" does not
   apply to a client that waits in the queue.
2. `socket_join` (`epoll_socket.cpp:534`): `stop_epoll` ends the workers first; a
   connected client is then never closed, not even when it hangs up, and the loop
   waits for it.
3. `writer_whole` (`http_server.cpp:364`): what `send` did not take of the last buffer
   is rolled back and then dropped.
4. `writer_keepalive` (`http_server.cpp:334`): at a multiple of the buffer eofbit is
   not set, a further EPOLLOUT reads nothing, and the connection is closed.
5. `parser_methods` (`http_server.cpp:31`): `GET_METHOD | OPTIONS_METHOD` changes the
   static `GET_METHOD` of the file; every later `add_mapping` there that leaves its
   method to the default (`http_server.h:85`) answers OPTIONS too.

Against a message or a comment of the code, though no run is spent on it, the models also
have these behaviours; the properties leave them out, as said above:

- When a `pthread_create` has failed, `_threads` has fewer than `_pool_size` handles, and the
  destroy by which `~ThreadPool` is to "Release resources" (`threadpool.cpp:31`) joins what
  lies past its end (`threadpool.cpp:112`): the program ends there.
- The destroy of a second start joins the handles of the first again, and logs "threads
  exited" (`threadpool.cpp:115`) while the new ones run.
- The loop looks at `_status`, `stop_epoll` writes S_REJECT_CONN, the loop accepts: "not
  accept new connect" (`epoll_socket.cpp:380`) does not hold for that connection.
- Between a worker's look at `_clients` (`epoll_socket.cpp:564`) and its write of S_STOP the
  loop adds a client: "client is empty and ready for stop" (`epoll_socket.cpp:566`) is said of
  a server that has one, which the loop leaves behind.
- Away from UTC, a file renamed after "yesterday" (`simple_log.cpp:78`) has lines of today:
  east of it the file is renamed hours after local midnight (`simple_log.cpp:104`).

The models behave in more ways that no property promises anything about. A
request without headers reaches `handle_request` with an empty method
(`sim_parser.cpp:292`) and is answered 405; a POST without Content-Length is closed, and
the 411 of `http_server.cpp:303` never sent, because the failed callback makes the parse
short; a second request in the same read is added to the first, which is answered as a
mixture of both, and the rest of it is refused. A multipart body cut off before its closing
boundary is handled with items and without parameters (`sim_parser.cpp:518`); a part with a
header besides its disposition and its type is refused (`sim_parser.cpp:437`); a name or a
file name with a ";" or "=" in it is cut there, quoted or not, so that the part is refused or
goes under a piece of its name (`sim_parser.cpp:407`); a form whose type has a charset is
not parsed (`sim_parser.cpp:534`). A second "?" in a URL ends the query, and
`get_unescape_param`, of which a comment says that it is "the same as get_param"
(`sim_parser.h:196`), takes escapes out (`sim_parser.cpp:245`), of a part's data too,
although no client escapes it there. A log file of the day before the first of a month is
never deleted (`simple_log.cpp:144`), nor one whose day of deletion had no line. A server
stopped before `start_event_loop` runs all the same, with a pool that has been closed
(`epoll_socket.cpp:477`).

The queue limit is passed by one task (`add_task` compares with `>` before the push);
the model keeps that, and `QueueBounded` states the bound that holds.

## 4. Proofs

`ThreadPoolProofs`, for every number of workers, submitters, tasks, starts, any pool
size and limit the assumption `PoolAssumption` of `ThreadPool` allows:

- `TypeCorrect`: `TypeOK`, strengthened by `HasTask`: a submitter inside `add_task` has
  a task, a worker has one exactly while it runs it.
- `LimitPlusOne`: `QueueBounded`, which is inductive: `add_task` looks before it pushes,
  in one critical section, and nothing else makes the queue longer.
- `NoLostWakeup` (`WorkConserving`) and `StopIsSeen` (`StopSeen`). Neither is
  inductive. `WaitInv` adds who holds the mutex where (`LockInv`), that a worker in
  `sleep` saw an empty queue and a pool not stopped under the mutex it still holds
  (`SleepInv`), and that threads exist only since the first start (`StartedInv`). With them
  a push finds each worker either before its check or in the wait set, and a signal
  moves one from the set to the way, as many as tasks arrive.
- `PoolRefinesTaskPool`: every step of the pool is a step of `TaskPool` or a stutter
  under `pending <- tasks`, `running <- wtask`, `open <- (pool_state = "started")`.
- `OneStartJoinsAll`: with `MaxStarts = 1`, `JoinedAll`. The invariant relates the
  handles, the joined threads and the loop index of `destroy_threadpool`; it fails at a
  second start.
- `EachTaskOnce`: `ExactlyOnce`. `PlaceInv` speaks of one task at a time (`Queued`,
  `Runs`, finished), adds that the queue repeats nothing (`OneCopy`), and that a task on its
  way in was offered and is not there yet (`Arriving`); that a queue without repetition has
  as many elements as places (`NoRepetition`) gives the count.

`ResponseWriterProofs`, for every buffer size and length: `TypeCorrect`, `BytesInOrder` and
`LessThanAChunkLost`, from `WriterInv`: `Len(out) = pos` as long as no send failed, and
no eofbit on a response that is to be continued (`Position`).

`EpollSocketProofs`, for any connections, workers, descriptors, task limit, idle time and
faults: `TypeCorrect`, `ClientsAgree` (`ClientsMatch`) and `SocketsOwned` (`SocketOwned`).
One invariant, `Inv`, is inductive; none of its parts is alone.

- `Shape`: where a thread is goes with what it has: a worker has a task unless it is idle,
  the loop a context only while it accepts or closes one.
- `Refs`: a registration, an event, a task, a worker's job and a context to be reaped are
  of contexts the loop has given to epoll once (`Registered`), so that nobody else can
  have the one it is accepting.
- `Closers`: of the threads that close a context one got past `CloseDel`, since only a
  live context is taken there; the context is closed, then freed, as that thread goes on.
- `Table`: a context is in the table from `AddClient` to `CloseRemove` of that one
  thread. This is what makes the counter, which is decremented without a look at the
  table, agree with it, and keeps it from going below zero (`TypeOK`).
- `Sockets`: the descriptor is the context's from `Accept` to `CloseShut`, so that a number
  the kernel gives out again is nobody's.

`EpollSocketOwnerProofs`, when no idle time is set (`IdleMax = 0`): `OneOwnerAlways`
(`OneOwner`), `RegistrationsSound` (`RegistrationSound`) and `ContextsStayLive`
(`ContextsLive`). With an idle time the reaper closes contexts that are queued
(`socket_reapqueued`). `OwnInv` adds to `Inv`, for each context, that it is at most once in
the batch, in the queue and with a worker, and in one of these places, armed or with
the loop (`Owned`), that who has it finds it live until it deletes it (`FindsLive`), and that
every registration, armed or not, is of the live context that has the descriptor
(`Attached`), which is what `Modify` in `Rearm` needs to arm the right one. The counts
of `OneOwner` follow from the places.

Also in `EpollSocketOwnerProofs`, when no idle time is set and `stop_epoll` is not called before
the loop runs: `SocketImplementsService`, the refinement of `HttpService`. The second
hypothesis is needed because `start_event_loop` overwrites the status of an earlier stop
(`epoll_socket.cpp:477`). Every step leaves all phases as they are (`Still`) or moves one
connection (`Moved`): that an armed registration, its event, its task and the worker with
it all say the same of what is owed (`OwedReg`, `OwedEvent`, `OwedTask`, `OwedBy`), and that
there is one of them at a time, is where `OwnInv` comes in. `stop_epoll` may come between
the loop's look at the status and its accept: what is proved is that at most one connection
is taken in after it, the one that was let in before (`HttpService!Open`); every other step
keeps `admitting` (`KeepsAdmitting`).

`LogRotationProofs`, for any threads, number of days, months, settings and restarts that
`LogAssumption` allows:

- `TypeCorrect`: `TypeOK`, strengthened by `Bounded`: the lines written and those on
  their way stay within the bound of the model.
- `FiledByDay` (`NamedByDay`) and `KeptLongEnough` (`Retained`), with one count of days or
  two, with the exceptions of `crossed` and `Slack`. Neither is inductive: that
  a rename takes only lines of earlier days depends on what the other threads are
  about to do. `DayInv` adds that no line is of a day to come (`Past`); that in one zone the
  two counts agree (`Zones`); and, as long as no midnight came in the middle of a call, that
  calls before their stamp are of today (`Calls`) and that in one zone, until yesterday's
  file is there or a rename to it was tried (`Moved`), whoever is in `shift` has seen a stamp
  of an earlier day (`Shifting`), and then no line of today is in the file or on its way
  (`NotYet`).
- `NoLineLost` (`NothingLost`), without exceptions. `Once` says it place by
  place: which lines are in which file and where (`HeldAt`), which are gone (`Gone`). A
  rename empties the current file into a name that no file has; a deletion moves all lines
  of one file.

`RequestParserProofs`, for any requests, sessions, cuts, limit and mappings that
`ParserAssumption` (`IsRequest`: the types of what a client may send), `CharAssumption` and
`RoutingAssumption` allow: `TypeCorrect`, `NeverEarly` (`NotEarly`),
`WithinSize` (`SizeLimited`) and `RoutedAlways` (`Routed`).

- The wire. `WireShape`: a request is a method, tokens each of which ends in a separator, a
  blank line with the length of the body, and the body (`PieceFits`). `StreamShape`:
  every piece of a connection's bytes is in one request and fits there.
- The parser. `Good` relates a `Request` to the stream: between requests or in the
  place of one that the last piece has (`Synced`, `Within`), and over only if a request
  ended in this read. A `Request` begins at `Began`, which may be in the middle of a
  request when the client has sent ahead: then it fails on its first piece, unless
  that is a blank line without a body, which http_parser skips and which ends that
  request (`Skips`). Each callback keeps `Good` (`CallbackShape`), hence each piece
  (`ConsumeGood`) and each read (`ExecuteGood`).
- `ParserInv` adds to that what `SizeLimited` needs: `_total_req_size` counts from `Began`
  and not from where a request began, so that nothing above the limit lies before `Began`
  and nothing that begins there can become so (`SizedTo`). Neither `NotEarly` nor
  `SizeLimited` is inductive without it. A read that ends a request therefore brings at
  least the next one that was not handled (`ReceiveHandles`).
- Routing. `Added` holds after any number of mappings: a path has its first mapping, with
  all methods given to it (`OrHas`: a variable's `_names` never lose a name).

Both folds, over the pieces of a read and over the mappings, are recursive functions, and
that they are defined and keep an invariant is shown by induction. The library's induction
theorems take an operator; `Induction` of `FormDataProofs` takes a set instead, and is proved by the
pigeonhole theorem for finite sets: were n not in the set, adding one would map a finite
set one to one into a smaller one.

`FormDataProofs` says what the operators of `FormData` return, for text of any length. Each
is a fold over characters or callbacks; `Comes(step, s, a, b)` says that the steps of `s`
lead from `a` to `b`, and `ComesFlat` puts such facts together.

- `PartsFew`, `PartsMany`, `SplitFew`: pieces without the separator, joined by it, are what
  `getline` gives back.
- `QueryParsed`: names and values without "&" and "=", joined to a query, are parsed to
  those pairs, in order. `FirstParam`: of a name that is repeated, `get_param` finds the
  first. `ParamsMapped`: `get_params` of pairs whose values were escaped are the escaped
  `get_params`.
- `UnescapeStands`: a text whose every piece stands for a character (itself, "+", or "%"
  and two digits) is unescaped to those characters.
- `PartComes`, `GivesEnd`: the callbacks for a part of any data, cut anywhere, append its
  item, and the closing boundary makes a parameter of each item.

`RequestAnswerProofs`, under the assumptions of `RequestParserProofs` (`CharAssumption` has
that an escape exists for each of "%", "+", "&", "=" and "?"; it is not needed for other
characters, which a client may send as they are):

- `AnsweredAlways`: `Answered`. `AnswerInv` speaks of a client that waits. `Underway` says,
  for each number of pieces taken of the current request, what the whole `Request` is: in
  the URL, in the name or the value of a header, in the body, each with what was called back
  with and what is only marked so far (`UrlHas`, `NameHas`, `ValueHas`, `BodyHas`). Each
  piece takes it from one number to the next (`Takes`), a read of any length too
  (`ReadTakes`), and at the last piece the request is complete (`ReadOutcome`). It is
  refused only if it is too long, or if a callback refuses it (`Refusable`); that this is
  never one that may be served (`AcceptableServed`) needs what a multipart body is parsed to.
- `FaithfulAlways`: `Faithful`. `AnswerInv` also has that what a handler saw is
  `Seen(Final(r))`, `Final` being what the code makes of a complete request, in its own
  terms and without a word of how it was cut. `SeenIsMeant` is the rest: that `Final` undoes
  the client's `Escape`, `Query` and `Wire`.

The proof of these two showed hypotheses of the properties to be too weak, which no
instance of the runs had met: part names, and not file names only, need to be free of ";"
and "="; a "?" in a query must be escaped; the Content-Length must be in the last header of
its name, and not empty; and what `get_unescape_param` gives for a part is its data without
escapes. All four are what the code does (section 3), and the properties now say so.

Every invariant of the passing runs is stated by a theorem. Model-checked only: all
liveness, which is outside the prover's reach.

## 5. Not modelled

- Header text and MIME types, log formatting and levels, logging to stdout, the file
  reader of `simple_config.cpp`, socket options, `get_clients_info` (nothing calls it), the
  setters: sequential data or output, with nothing in it to interleave or to fail that
  another component sees.
- The vendored parsers' inside: `RequestParser` and `FormData` have the callbacks they
  make.
- The destruction of `HttpServer` and `EpollSocket` with workers still running
  (`http_server.cpp:69`), and a second `start_epoll` of one server: what a program does
  with a server after `stop` and `join` is its own, and the repository has no example.
- An event's `data.fd` read from a pointer (`epoll_socket.cpp:378`): depends on addresses.
- Changes of the time zone and summer time in the log's names.

Hazards known and not covered by a property are in `PROJECT.json` with the
reason.

## 6. Running

    tlc -workers 2 -config MCThreadPool_restart.cfg MCThreadPool
    tlapm ThreadPoolProofs.tla

Each run of section 3 is `<module>_<suffix>.cfg` with the suffix of its name.
