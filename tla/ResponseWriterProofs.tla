------------------------ MODULE ResponseWriterProofs ------------------------
(***************************************************************************)
(* Theorems about ResponseWriter, for every buffer size and every length.  *)
(***************************************************************************)
EXTENDS ResponseWriter, TLAPS

\* Until a send fails the get position is the number of bytes taken, and the
\* stream is at its end only when the response is done with.
Position ==
    /\ outcome # "failed" => Len(out) = pos
    /\ outcome = "continue" => ~eof

WriterInv == TypeOK /\ Position /\ InOrder /\ LossBounded

\* The first n positions.
Prefix(n) == [i \in 1..n |-> i]

LEMMA PrefixSeq ==
  ASSUME NEW n \in Nat, NEW m \in Nat, n <= m
  PROVE  Prefix(n) \in Seq(1..m) /\ Len(Prefix(n)) = n
<1>1. Prefix(n) \in [1..n -> 1..m]
  BY DEF Prefix
<1>2. Prefix(n) \in Seq(1..m)
  BY <1>1
<1> QED
  BY <1>1, <1>2

\* A prefix and the k positions after it are a prefix.
LEMMA PrefixExtend ==
  ASSUME NEW n \in Nat, NEW k \in Nat
  PROVE  Prefix(n) \o [i \in 1..k |-> n + i] = Prefix(n + k)
<1> DEFINE f == [i \in 1..k |-> n + i]
           g == Prefix(n) \o f
<1>1. Prefix(n) \in Seq(Nat) /\ Len(Prefix(n)) = n
  <2>1. Prefix(n) \in [1..n -> Nat]
    BY DEF Prefix
  <2> QED
    BY <2>1
<1>2. f \in Seq(Nat) /\ Len(f) = k
  <2>1. f \in [1..k -> Nat]
    OBVIOUS
  <2> QED
    BY <2>1
<1>3. g = [i \in 1..(n + k) |-> IF i <= n THEN Prefix(n)[i] ELSE f[i - n]]
  BY <1>1, <1>2 DEF Prefix
<1>4. \A i \in 1..(n + k) : (IF i <= n THEN Prefix(n)[i] ELSE f[i - n]) = i
  BY DEF Prefix
<1> QED
  BY <1>3, <1>4 DEF Prefix

LEMMA WriterInit == Init => WriterInv
<1> SUFFICES ASSUME Init PROVE WriterInv
  OBVIOUS
<1>1. TypeOK
  <2>1. pos \in 0..len
    BY WriterAssumption DEF Init
  <2>2. out \in Seq(1..len)
    BY DEF Init
  <2> QED
    BY <2>1, <2>2 DEF Init, TypeOK
<1>2. Position /\ LossBounded
  BY DEF Init, Position, LossBounded
<1>3. InOrder
  BY DEF Init, InOrder
<1> QED
  BY <1>1, <1>2, <1>3 DEF WriterInv

LEMMA WriterNext == WriterInv /\ [Next]_vars => WriterInv'
<1> SUFFICES ASSUME WriterInv, [Next]_vars PROVE WriterInv'
  OBVIOUS
<1>0. len \in Nat /\ pos \in 0..len /\ Chunk \in Nat \ {0}
  BY WriterAssumption DEF WriterInv, TypeOK
<1>1. CASE ReadNothing
  <2>1. len = pos
    BY <1>0, <1>1 DEF ReadNothing, ReadSize, Lower, WriterInv, Position
  <2> QED
    BY <1>0, <1>1, <2>1
       DEF ReadNothing, WriterInv, TypeOK, Position, InOrder, LossBounded
<1>2. CASE SendFails
  <2>1. pos' \in 0..len
    BY <1>0, <1>2 DEF SendFails, ReadSize, Lower, WriterInv, Position
  <2> QED
    BY <1>2, <2>1 DEF SendFails, ReadsOver, WriterInv, TypeOK, Position, InOrder,
                      LossBounded
<1>3. ASSUME NEW k \in 1..Chunk, SendSome(k) PROVE WriterInv'
  <2>1. /\ ReadSize = Lower(Chunk, len - pos)
        /\ k \in 1..ReadSize
        /\ pos' = pos + k
        /\ pos + k \in 0..len
        /\ Len(out) = pos
        /\ out = Prefix(pos)
    BY <1>0, <1>3 DEF SendSome, Advance, ReadSize, Lower, WriterInv, Position,
                      InOrder, Prefix
  <2>2. out' = Prefix(pos + k)
    <3>1. out' = Prefix(pos) \o [i \in 1..k |-> pos + i]
      BY <1>3, <2>1 DEF SendSome
    <3>2. pos \in Nat /\ k \in Nat
      BY <1>0
    <3> QED
      BY <3>1, <3>2, PrefixExtend
  <2>3. out' \in Seq(1..len) /\ Len(out') = pos + k
    BY <1>0, <2>1, <2>2, PrefixSeq
  <2>4. TypeOK'
    <3>1. UNCHANGED <<len, keepalive>> /\ pos' \in 0..len'
      BY <1>3, <2>1 DEF SendSome
    <3>2. eof' \in BOOLEAN
      <4>1. eof' = IF k < ReadSize THEN FALSE ELSE ReadsOver(ReadSize)
        BY <1>3 DEF SendSome, Advance
      <4>2. ReadsOver(ReadSize) \in BOOLEAN
        BY DEF ReadsOver
      <4> QED
        BY <4>1, <4>2
    <3>3. outcome' \in {"continue", "alive", "close", "failed"}
      BY <1>3 DEF SendSome
    <3> QED
      BY <2>3, <3>1, <3>2, <3>3 DEF WriterInv, TypeOK
  <2>5. Position'
    BY <1>0, <1>3, <2>1, <2>3 DEF SendSome, Advance, ReadsOver, Position, Lower
  <2>6. InOrder'
    BY <2>2, <2>3 DEF InOrder, Prefix
  <2>7. LossBounded'
    <3>1. len' = len
      BY <1>3 DEF SendSome
    <3>2. outcome' \in {"alive", "close"} => ReadSize < Chunk
      BY <1>3 DEF SendSome, ReadsOver
    <3> QED
      BY <1>0, <2>1, <2>3, <3>1, <3>2 DEF LossBounded, Lower
  <2> QED
    BY <2>4, <2>5, <2>6, <2>7 DEF WriterInv
<1>4. CASE UNCHANGED vars
  BY <1>4 DEF vars, WriterInv, TypeOK, Position, InOrder, LossBounded
<1> QED
  BY <1>1, <1>2, <1>3, <1>4 DEF Next, Finished

LEMMA WriterAlways == Spec => []WriterInv
  BY WriterInit, WriterNext, PTL DEF Spec

\* Type correctness, with a get position that never passes the end of the response.
THEOREM TypeCorrect == Spec => []TypeOK
<1>1. WriterInv => TypeOK
  BY DEF WriterInv
<1> QED
  BY <1>1, WriterAlways, PTL

\* The bytes of a response reach the peer in order, none twice and none left
\* out, however the socket splits the sends.
THEOREM BytesInOrder == Spec => []InOrder
<1>1. WriterInv => InOrder
  BY DEF WriterInv
<1> QED
  BY <1>1, WriterAlways, PTL

\* What on_writeable leaves unsent of a response it is done with is always less
\* than one buffer.
THEOREM LessThanAChunkLost == Spec => []LossBounded
<1>1. WriterInv => LossBounded
  BY DEF WriterInv
<1> QED
  BY <1>1, WriterAlways, PTL

=============================================================================
