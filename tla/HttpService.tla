----------------------------- MODULE HttpService -----------------------------
(***************************************************************************)
(* What EpollSocket promises of connections, without threads, descriptors  *)
(* or epoll: while the server is open connections are let in, one at a     *)
(* time, of which the last may come in after it was closed; a connection   *)
(* takes requests and responses in turn, and ends once.                    *)
(***************************************************************************)
CONSTANT Conns

VARIABLES
    server,     \* "new", "open", "draining", "ended"
    admitting,  \* whether one connection may come in
    phase       \* of a connection: "none", "reading", "writing", "closed"

vars == <<server, admitting, phase>>

Init ==
    /\ server = "new"
    /\ admitting = FALSE
    /\ phase = [c \in Conns |-> "none"]

\* The event loop begins.
Start ==
    /\ server = "new"
    /\ server' = "open"
    /\ UNCHANGED <<admitting, phase>>

\* stop_epoll.
Drain ==
    /\ server' = "draining"
    /\ UNCHANGED <<admitting, phase>>

\* A thread has found no client left, and status S_REJECT_CONN.
End ==
    /\ server = "draining"
    /\ server' = "ended"
    /\ UNCHANGED <<admitting, phase>>

Moves(c, from, to) ==
    /\ phase[c] = from
    /\ phase' = [phase EXCEPT ![c] = to]
    /\ UNCHANGED server

\* The server is found open: from here it lets one connection in ...
Admit ==
    /\ server = "open" /\ ~admitting
    /\ admitting' = TRUE
    /\ UNCHANGED <<server, phase>>

\* ... whether it is still open or not,
Open(c) ==
    /\ admitting /\ admitting' = FALSE
    /\ Moves(c, "none", "reading")

\* ... or accept fails.
Decline ==
    /\ admitting /\ admitting' = FALSE
    /\ UNCHANGED <<server, phase>>

\* The last byte of a request is read, and it is handled.
Request(c) == Moves(c, "reading", "writing") /\ UNCHANGED admitting

\* The last byte of the response is sent and the connection kept: never when the
\* server is draining.
Respond(c) ==
    /\ server # "draining"
    /\ Moves(c, "writing", "reading")
    /\ UNCHANGED admitting

Close(c) ==
    /\ \E from \in {"reading", "writing"} : Moves(c, from, "closed")
    /\ UNCHANGED admitting

Next ==
    \/ Start \/ Drain \/ End \/ Admit \/ Decline
    \/ \E c \in Conns : Open(c) \/ Request(c) \/ Respond(c) \/ Close(c)

Spec == Init /\ [][Next]_vars

=============================================================================
