--------------------------- MODULE ResponseWriter ---------------------------
(***************************************************************************)
(* HttpEpollWatcher::on_writeable (src/src/http_server.cpp) with           *)
(* Response::gen_response, readsome and rollback (src/src/sim_parser.cpp):  *)
(* one response sent over a non-blocking socket, one call per EPOLLOUT      *)
(* event. The bytes of a response are told apart by their position.        *)
(*                                                                         *)
(* This is the module behind WritePart and WriteLast of EpollSocket.tla.   *)
(***************************************************************************)
EXTENDS Integers, Sequences

CONSTANTS
    Chunk,      \* SS_WRITE_BUFFER_SIZE
    Lengths     \* lengths of a response; the status line makes it non-empty

ASSUME WriterAssumption ==
    /\ Chunk \in Nat \ {0}
    /\ Lengths \subseteq Nat \ {0}

VARIABLES
    len,        \* length of _res_bytes
    keepalive,  \* the request says "Connection: keep-alive"
    pos,        \* the get position of _res_bytes
    eof,        \* its eofbit
    out,        \* positions of the bytes the socket has taken, in order
    outcome     \* what the last call returned: "continue", "alive", "close",
                \* or "failed" when send failed (it returns "close" then too)

vars == <<len, keepalive, pos, eof, out, outcome>>

Lower(a, b) == IF a < b THEN a ELSE b

\* gen_response has filled _res_bytes.
Init ==
    /\ len \in Lengths
    /\ keepalive \in BOOLEAN
    /\ pos = 0 /\ eof = FALSE
    /\ out = <<>>
    /\ outcome = "continue"

\* Mutant: a full buffer is taken for the end.
ReadsOverEarly(n) == n > 0

\* readsome: istream::read sets eofbit when it wants more bytes than there are,
\* so not when the last byte fills the buffer; result 0.
ReadsOver(n) == n < Chunk

\* readsome's read_size; a stream at its end gives nothing.
ReadSize == IF eof THEN 0 ELSE Lower(Chunk, len - pos)

\* Mutant: the get position moves by the size of the buffer.
AdvanceByBuffer(n, k) ==
    /\ pos' = pos + Chunk
    /\ eof' = ReadsOver(n)

\* Mutant: what send did not take is not given back.
Forget(n, k) ==
    /\ pos' = pos + n
    /\ eof' = ReadsOver(n)

\* send took k of the n bytes read: rollback(n - k) clears eofbit and seeks.
Advance(n, k) ==
    /\ pos' = pos + k
    /\ eof' = IF k < n THEN FALSE ELSE ReadsOver(n)

\* Mutant: the handler asks for the next EPOLLOUT instead.
ReadNothingContinues ==
    /\ outcome = "continue"
    /\ ReadSize = 0
    /\ eof' = TRUE
    /\ UNCHANGED <<len, keepalive, pos, out, outcome>>

\* "response read size is zero, close connect".
ReadNothing ==
    /\ outcome = "continue"
    /\ ReadSize = 0
    /\ eof' = TRUE
    /\ outcome' = "close"
    /\ UNCHANGED <<len, keepalive, pos, out>>

\* send returns -1.
SendFails ==
    /\ outcome = "continue"
    /\ ReadSize > 0
    /\ pos' = pos + ReadSize
    /\ eof' = ReadsOver(ReadSize)
    /\ outcome' = "failed"
    /\ UNCHANGED <<len, keepalive, out>>

\* send takes k bytes.
SendSome(k) ==
    /\ outcome = "continue"
    /\ LET n == ReadSize
       IN  /\ k \in 1..n
           /\ out' = out \o [i \in 1..k |-> pos + i]
           /\ Advance(n, k)
           /\ outcome' = IF ~ReadsOver(n) THEN "continue"
                         ELSE IF keepalive THEN "alive" ELSE "close"
    /\ UNCHANGED <<len, keepalive>>

\* The response is done with: hc->clear() or close_and_release.
Finished ==
    /\ outcome # "continue"
    /\ UNCHANGED vars

Next == ReadNothing \/ SendFails \/ (\E k \in 1..Chunk : SendSome(k)) \/ Finished

Spec == Init /\ [][Next]_vars

\* The socket of a peer that reads becomes writable again, and on_writeable is
\* called again.
FairSpec == Spec /\ WF_vars(ReadNothing \/ SendFails \/ \E k \in 1..Chunk : SendSome(k))

-----------------------------------------------------------------------------

TypeOK ==
    /\ len \in Lengths /\ keepalive \in BOOLEAN
    /\ pos \in 0..len /\ eof \in BOOLEAN
    /\ out \in Seq(1..len)
    /\ outcome \in {"continue", "alive", "close", "failed"}

\* Over any number of partial sends the peer gets the bytes of the response in
\* order, none twice and none left out (rollback, "when not write all buffer, we
\* will rollback write index").
InOrder == out = [i \in 1..Len(out) |-> i]

\* A response whose send did not fail lacks less than one buffer of its bytes
\* when on_writeable is done with it.
LossBounded == outcome \in {"alive", "close"} => len - Len(out) < Chunk

\* What rollback is for: a part that send did not take is sent later
\* (http_server.cpp:344), so a response is left only when it is sent whole.
SentWhole == outcome \in {"alive", "close"} => Len(out) = len

\* A peer told "Connection: Keep-Alive" (sim_parser.cpp:645) is not closed after a
\* response sent without an error.
KeepAliveKept == keepalive => outcome # "close"

\* A response does not ask for EPOLLOUT for ever, however little each send takes:
\* the fairness of WriteLast in EpollSocket.tla.
Ends == <>(outcome # "continue")

=============================================================================
