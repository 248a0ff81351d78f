------------------------- MODULE RequestAnswerProofs -------------------------
(***************************************************************************)
(* Proofs about RequestParser, continued: to a client that waits for its   *)
(* answers, what the Request of its connection has taken of the request    *)
(* sent, at every piece and however the reads cut it. From it follow that  *)
(* every request is answered, and that its handler sees what was sent.     *)
(***************************************************************************)
EXTENDS RequestParserProofs

-----------------------------------------------------------------------------
(* What has been taken of a request r *)

\* The names and values of its first n headers.
FieldsTo(r, n) == [i \in 1..n |-> Text(r.headers[i][1])]
ValuesTo(r, n) == [i \in 1..n |-> Text(r.headers[i][2])]

\* Those of header i, none after the last.
NameOf(r, i) == IF i > Len(r.headers) THEN <<>> ELSE Text(r.headers[i][1])
ValueOf(r, i) == IF i > Len(r.headers) THEN <<>> ELSE Text(r.headers[i][2])

HeadersOf(r) ==
    AddHeaders(FieldsTo(r, Len(r.headers)), ValuesTo(r, Len(r.headers)))

\* What its body is parsed to.
Gathered(r) == [NewRequest EXCEPT !.headers = HeadersOf(r), !.body = Body(r)]
Outcome(r) == ParsedBody(Gathered(r))

Refusable(r) ==
    \/ r.method = "POST" /\ ~HasHeader(Gathered(r), "length")
    \/ Outcome(r).failed

UrlParams(r) == <<>> \o ParseRequestUrlParams(Url(r))
MethodOf(r) == IF r.headers = <<>> THEN "" ELSE r.method
ParamsOf(r) == IF r.headers = <<>> THEN <<>> ELSE UrlParams(r)

\* Of a token t, c pieces are read, and a of them called back with.
Marked(q, t, c, a) == c \in 0..Len(t) /\ a \in 0..c /\ q.parser.mark = SubSeq(t, a + 1, c)

\* Nothing has gone wrong, and no body is parsed yet.
Steady(q, r) ==
    /\ q.err = 0 /\ ~q.parser.error /\ q.items = <<>> /\ q.form = <<>>
    /\ q.parser.method = r.method

\* The first header has ended the request line.
Line(q, r) ==
    IF q.fields = <<>> THEN q.part = "line" /\ q.method = "" /\ q.params = <<>>
    ELSE q.part = "head" /\ q.method = r.method /\ q.params = UrlParams(r)

Started(q, r) == Steady(q, r) /\ Line(q, r) /\ q.headers = {} /\ q.body = <<>>

Fresh(q) ==
    /\ Between(q) /\ q.err = 0 /\ ~q.parser.error /\ q.part = "line"
    /\ q.url = <<>> /\ q.params = <<>> /\ q.method = "" /\ q.fields = <<>> /\ q.values = <<>>
    /\ q.last_was_value /\ q.headers = {} /\ q.body = <<>> /\ q.items = <<>> /\ q.form = <<>>

UrlHas(q, r, c, a) ==
    /\ Started(q, r) /\ Marked(q, Url(r), c, a) /\ q.url = SubSeq(Url(r), 1, a)
    /\ q.fields = <<>> /\ q.values = <<>> /\ q.last_was_value

NameHas(q, r, i, c, a) ==
    /\ Started(q, r) /\ Marked(q, NameOf(r, i), c, a) /\ q.url = Url(r)
    /\ q.values = ValuesTo(r, i - 1)
    /\ IF q.last_was_value THEN a = 0 /\ q.fields = FieldsTo(r, i - 1)
       ELSE a > 0 /\ q.fields = Append(FieldsTo(r, i - 1), SubSeq(NameOf(r, i), 1, a))

ValueHas(q, r, i, c, a) ==
    /\ Started(q, r) /\ Marked(q, ValueOf(r, i), c, a) /\ q.url = Url(r)
    /\ q.fields = FieldsTo(r, i)
    /\ IF q.last_was_value
       THEN a > 0 /\ q.values = Append(ValuesTo(r, i - 1), SubSeq(ValueOf(r, i), 1, a))
       ELSE a = 0 /\ q.values = ValuesTo(r, i - 1)

\* The headers are complete.
Settled(q, r) ==
    /\ q.url = Url(r) /\ q.method = MethodOf(r) /\ q.params = ParamsOf(r)
    /\ q.headers = HeadersOf(r)

BodyHas(q, r, c, a) ==
    /\ Steady(q, r) /\ Settled(q, r) /\ Marked(q, Body(r), c, a)
    /\ q.body = SubSeq(Body(r), 1, a) /\ q.part \in {"head_over", "body"}
    /\ c < Len(Body(r)) /\ q.parser.left = Len(Body(r)) - c

Over(q, r) ==
    /\ Settled(q, r) /\ q.body = Body(r) /\ q.part = "over" /\ q.err = 0
    /\ q.parser.mark = <<>> /\ ~q.parser.error
    /\ q.items = Outcome(r).items /\ q.form = Outcome(r).params

\* Header i on the wire, and where the first n of them end.
HeaderPieces(r) ==
    [i \in DOMAIN r.headers |->
        Token("field", Text(r.headers[i][1])) \o Token("value", Text(r.headers[i][2]))]
Base(r, n) == Len(Url(r)) + 2 + Upto(HeaderPieces(r), n)

\* After j pieces of r.
AtUrl(q, r, j) ==
    \E c \in 0..Len(Url(r)) : \E a \in 0..c :
        /\ j = 1 + c /\ UrlHas(q, r, c, a)
        /\ q.parser.at = IF c = 0 THEN "method" ELSE "url"

AtName(q, r, j) ==
    \E i \in 1..(Len(r.headers) + 1) : \E c \in 0..Len(NameOf(r, i)) : \E a \in 0..c :
        /\ j = Base(r, i - 1) + c /\ NameHas(q, r, i, c, a)
        /\ q.parser.at = IF c = 0 THEN "end" ELSE "field"

AtValue(q, r, j) ==
    \E i \in 1..Len(r.headers) : \E c \in 0..Len(ValueOf(r, i)) : \E a \in 0..c :
        /\ j = Base(r, i - 1) + Len(NameOf(r, i)) + 1 + c /\ ValueHas(q, r, i, c, a)
        /\ q.parser.at = IF c = 0 THEN "end" ELSE "value"

AtBody(q, r, j) ==
    \E c \in 0..Len(Body(r)) : \E a \in 0..c :
        /\ j = Base(r, Len(r.headers)) + 1 + c /\ BodyHas(q, r, c, a)
        /\ q.parser.at = IF c = 0 THEN "blank" ELSE "body"

Underway(q, r, j) ==
    \/ j = 0 /\ Fresh(q)
    \/ AtUrl(q, r, j) \/ AtName(q, r, j) \/ AtValue(q, r, j) \/ AtBody(q, r, j)

\* The Request of r, when it is complete.
Final(r) ==
    [NewRequest EXCEPT !.url = Url(r), !.method = MethodOf(r), !.params = ParamsOf(r),
                       !.headers = HeadersOf(r), !.body = Body(r),
                       !.items = Outcome(r).items, !.form = Outcome(r).params]

\* The inductive invariant, of a client that waits for its answers.
Current == sent[Len(handled) + 1]
Since == got - End(Len(handled))

AnswerInv ==
    ~ahead =>
        /\ conn = "reading" =>
              /\ Since = req.size
              /\ IF Len(handled) = Len(sent) THEN Since = 0
                 ELSE Since < Len(Wire(Current)) /\ Underway(req, Current, Since)
        /\ conn = "writing" => Since = 0
        /\ conn = "refused" =>
              /\ Len(handled) < Len(sent)
              /\ Len(Wire(Current)) > MAX_REQ_SIZE \/ Refusable(Current)
        /\ \A n \in DOMAIN handled : handled[n] = Seen(Final(sent[n]))

-----------------------------------------------------------------------------
(* Sequences *)

\* A part of a sequence grows at its end.
LEMMA PartGrows ==
    ASSUME NEW X, NEW t \in Seq(X), NEW c \in 0..(Len(t) - 1), NEW a \in 0..c
    PROVE  Append(SubSeq(t, a + 1, c), t[c + 1]) = SubSeq(t, a + 1, c + 1)
OBVIOUS

\* Two parts of a sequence that meet.
LEMMA PartsMeet ==
    ASSUME NEW X, NEW t \in Seq(X), NEW c \in 0..Len(t), NEW a \in 0..c
    PROVE  SubSeq(t, 1, a) \o SubSeq(t, a + 1, c) = SubSeq(t, 1, c)
OBVIOUS

\* The empty part of a sequence, and the whole.
LEMMA PartsAre ==
    ASSUME NEW X, NEW t \in Seq(X), NEW c \in 0..Len(t), NEW a \in 0..c
    PROVE  /\ SubSeq(t, a + 1, c) \in Seq(X)
           /\ SubSeq(t, c + 1, c) = <<>>
           /\ SubSeq(t, a + 1, c) = <<>> => a = c
           /\ SubSeq(t, 1, Len(t)) = t
OBVIOUS

\* What AppendToLast does to the element it has appended.
LEMMA LastAppended ==
    ASSUME NEW A, NEW s \in Seq(Seq(A)), NEW x \in Seq(A), NEW y \in Seq(A)
    PROVE  AppendToLast(Append(s, x), y) = Append(s, x \o y)
<1> DEFINE B == Seq(A)
           n == Len(s) + 1
           t == Append(s, x)
           z == x \o y
<1>1. z \in B /\ x \in B /\ s \in Seq(B)
    BY ConcatType, Zenon
<1>2. t[n] = x /\ Len(t) = n
    BY <1>1
<1>3. AppendToLast(t, y) = [t EXCEPT ![n] = z]
    BY <1>2, Zenon DEF AppendToLast
<1>4. \A b \in B : [t EXCEPT ![n] = b] = Append(s, b)
    <2> HIDE DEF B, z
    <2> SUFFICES ASSUME NEW b \in B PROVE [t EXCEPT ![n] = b] = Append(s, b)
        OBVIOUS
    <2>1. Len(s) \in Nat /\ t \in Seq(B) /\ DOMAIN t = 1..n /\ n \in Nat
        BY <1>1
    <2>2. \A i \in 1..Len(s) : t[i] = s[i]
        BY <1>1
    <2> HIDE DEF t, n
    <2> DEFINE u == [t EXCEPT ![n] = b]
    <2>3. \A i \in 1..Len(s) : u[i] = s[i]
        BY <2>1, <2>2 DEF n
    <2>4. u[n] = b /\ DOMAIN u = 1..n /\ u = [i \in 1..n |-> u[i]]
        <3>1. n \in DOMAIN t
            BY <2>1 DEF n
        <3>2. DOMAIN u = DOMAIN t
            BY Zenon
        <3>3. u[n] = b
            BY <3>1
        <3>4. u = [i \in DOMAIN u |-> u[i]]
            BY Zenon
        <3> QED
            BY <2>1, <3>2, <3>3, <3>4, Zenon
    <2>5. u \in Seq(B) /\ Len(u) = n
        <3>1. \A i \in 1..n : u[i] \in B
            BY <2>1
        <3> HIDE DEF u
        <3>2. u \in Seq(B)
            BY <2>1, <2>4, <3>1, FunctionType, Zenon
        <3> QED
            BY <2>1, <2>4, <3>2
    <2> HIDE DEF u
    <2>6. u = Append(s, b)
        <3>1. \A i \in 1..n : u[i] = Append(s, b)[i]
            <4>1. \A i \in 1..Len(s) : Append(s, b)[i] = s[i]
                BY <1>1
            <4>2. Append(s, b)[n] = b
                BY <1>1 DEF n
            <4>3. \A i \in 1..n : i \in 1..Len(s) \/ i = n
                BY <2>1 DEF n
            <4> QED
                BY <2>3, <2>4, <4>1, <4>2, <4>3, Zenon
        <3>2. Append(s, b) \in Seq(B) /\ Len(Append(s, b)) = n
            BY <1>1 DEF n
        <3> QED
            BY <2>5, <3>1, <3>2
    <2> QED
        BY <2>6 DEF u
<1> HIDE DEF z, t
<1>5. [t EXCEPT ![n] = z] = Append(s, z)
    BY <1>1, <1>4, Zenon
<1> QED
    BY <1>3, <1>5, Zenon DEF z, t

-----------------------------------------------------------------------------
(* The wire, piece by piece *)

\* The pieces of a token.
TokenHas(w, on, content) ==
    /\ Len(w) = Len(content) + 1
    /\ \A k \in 1..Len(content) : w[k] = Piece(on, content[k])
    /\ w[Len(content) + 1] = Piece("end", on)

\* A token is its content, and a separator.
LEMMA TokenPieces ==
    ASSUME NEW on \in Names, NEW content \in Seq(At)
    PROVE  /\ Token(on, content) \in Seq(HeadPieces)
           /\ TokenHas(Token(on, content), on, content)
<1>1. Token(on, content) \in Seq(HeadPieces)
    BY TokenIsTokens, Zenon DEF Tokens
<1> DEFINE s == [i \in DOMAIN content |-> Piece(on, content[i])]
           e == Piece("end", on)
           X == {s[i] : i \in DOMAIN content} \cup {e}
<1>2. Len(content) \in Nat /\ DOMAIN content = 1..Len(content)
    BY SeqDomain, Zenon
<1>3. s \in Seq(X) /\ Len(s) = Len(content)
    <2>1. s = [i \in 1..Len(content) |-> s[i]] /\ DOMAIN s = 1..Len(content)
        BY <1>2, Zenon
    <2>2. \A i \in 1..Len(content) : s[i] \in X
        BY <1>2
    <2> HIDE DEF s, X
    <2>3. s \in Seq(X)
        BY <1>2, <2>1, <2>2, FunctionType, Zenon
    <2> QED
        BY <1>2, <2>1, <2>3
<1>4. \A k \in 1..Len(content) : s[k] = Piece(on, content[k])
    BY <1>2, Zenon
<1>5. e \in X
    OBVIOUS
<1>6. Token(on, content) = s \o <<e>>
    BY Zenon DEF Token
<1> HIDE DEF s, e, X
<1>7. /\ Len(s \o <<e>>) = Len(s) + 1
      /\ \A k \in 1..Len(s) : (s \o <<e>>)[k] = s[k]
      /\ (s \o <<e>>)[Len(s) + 1] = e
    BY <1>3, <1>5
<1>8. TokenHas(s \o <<e>>, on, content)
    BY <1>3, <1>4, <1>7, Zenon DEF TokenHas, e
<1> QED
    BY <1>1, <1>6, <1>8, Zenon

\* The name and the value of a header on the wire.
HeaderHas(w, name, value) ==
    /\ Len(w) = Len(name) + Len(value) + 2
    /\ \A k \in 1..Len(name) : w[k] = Piece("field", name[k])
    /\ w[Len(name) + 1] = Piece("end", "field")
    /\ \A k \in 1..Len(value) : w[Len(name) + 1 + k] = Piece("value", value[k])
    /\ w[Len(name) + Len(value) + 2] = Piece("end", "value")

\* A header is two tokens.
LEMMA HeaderIs ==
    ASSUME NEW name \in Seq(At), NEW value \in Seq(At)
    PROVE  LET w == Token("field", name) \o Token("value", value)
           IN  w \in Seq(HeadPieces) /\ HeaderHas(w, name, value)
<1> DEFINE s == Token("field", name)
           t == Token("value", value)
<1>0. "field" \in Names /\ "value" \in Names
    BY DEF Names
<1>1. /\ s \in Seq(HeadPieces) /\ TokenHas(s, "field", name)
      /\ t \in Seq(HeadPieces) /\ TokenHas(t, "value", value)
    BY <1>0, TokenPieces, Zenon
<1>2. Len(name) \in Nat /\ Len(value) \in Nat
    OBVIOUS
<1> HIDE DEF s, t
<1>3. s \o t \in Seq(HeadPieces) /\ Len(s \o t) = Len(s) + Len(t)
    BY <1>1, ConcatType, Zenon
<1>4. /\ \A k \in 1..Len(s) : (s \o t)[k] = s[k]
      /\ \A k \in 1..Len(t) : (s \o t)[Len(s) + k] = t[k]
    BY <1>1
<1>5. Len(s) = Len(name) + 1 /\ Len(t) = Len(value) + 1
    BY <1>1, Zenon DEF TokenHas
<1> DEFINE w == s \o t
<1>6. \A k \in 1..Len(name) : w[k] = Piece("field", name[k])
    <2>1. \A k \in 1..Len(name) : k \in 1..Len(s)
        BY <1>2, <1>5
    <2> QED
        BY <1>1, <1>4, <2>1, Zenon DEF TokenHas
<1>7. w[Len(name) + 1] = Piece("end", "field")
    <2>1. Len(name) + 1 \in 1..Len(s)
        BY <1>2, <1>5
    <2> QED
        BY <1>1, <1>4, <2>1, Zenon DEF TokenHas
<1>8. \A k \in 1..Len(value) : w[Len(name) + 1 + k] = Piece("value", value[k])
    <2>1. \A k \in 1..Len(value) : k \in 1..Len(t)
        BY <1>2, <1>5
    <2> QED
        BY <1>1, <1>4, <1>5, <2>1, Zenon DEF TokenHas
<1>9. w[Len(name) + Len(value) + 2] = Piece("end", "value")
    <2>1. Len(value) + 1 \in 1..Len(t)
          /\ Len(s) + (Len(value) + 1) = Len(name) + Len(value) + 2
        BY <1>2, <1>5
    <2>2. w[Len(s) + (Len(value) + 1)] = t[Len(value) + 1]
        BY <1>4, <2>1, Zenon
    <2> QED
        BY <1>1, <2>1, <2>2, Zenon DEF TokenHas
<1>10. Len(w) = Len(name) + Len(value) + 2
    BY <1>2, <1>3, <1>5
<1> HIDE DEF w
<1>11. HeaderHas(w, name, value)
    BY <1>6, <1>7, <1>8, <1>9, <1>10, Zenon DEF HeaderHas
<1> QED
    BY <1>3, <1>11, Zenon DEF w, s, t

\* The names and values of a request are texts.
LEMMA HeaderTexts ==
    ASSUME NEW r, IsRequest(r)
    PROVE  /\ Len(r.headers) \in Nat /\ DOMAIN r.headers = 1..Len(r.headers)
           /\ \A i \in 1..Len(r.headers) :
                /\ NameOf(r, i) = Text(r.headers[i][1])
                /\ ValueOf(r, i) = Text(r.headers[i][2])
           /\ \A i \in Nat \ {0} :
                /\ NameOf(r, i) \in Seq(At) /\ ValueOf(r, i) \in Seq(At)
                /\ Len(NameOf(r, i)) \in Nat /\ Len(ValueOf(r, i)) \in Nat
           /\ Url(r) \in Seq(At) /\ Len(Url(r)) \in Nat
<1>1. r.headers \in Seq(STRING \X STRING)
    BY Zenon DEF IsRequest
<1>2. Len(r.headers) \in Nat /\ DOMAIN r.headers = 1..Len(r.headers)
    BY <1>1, SeqDomain, Zenon
<1>3. \A i \in 1..Len(r.headers) : NameOf(r, i) = Text(r.headers[i][1])
                                   /\ ValueOf(r, i) = Text(r.headers[i][2])
    BY <1>2 DEF NameOf, ValueOf
<1>4. ASSUME NEW i \in Nat \ {0} PROVE NameOf(r, i) \in Seq(At) /\ ValueOf(r, i) \in Seq(At)
    <2>1. CASE i > Len(r.headers)
        <3>1. NameOf(r, i) = <<>> /\ ValueOf(r, i) = <<>>
            BY <2>1, Zenon DEF NameOf, ValueOf
        <3> QED
            BY <3>1, EmptySeq, Zenon
    <2>2. CASE ~(i > Len(r.headers))
        <3>1. i \in 1..Len(r.headers)
            BY <1>2, <2>2
        <3>2. r.headers[i][1] \in STRING /\ r.headers[i][2] \in STRING
            BY <1>1, <3>1
        <3> QED
            BY <1>3, <3>1, <3>2, TextType, Zenon
    <2> QED
        BY <1>2, <2>1, <2>2
<1>5. Url(r) \in Seq(At)
    <2>1. Char \subseteq At
        BY DEF At
    <2> QED
        BY <2>1, UrlType, SubType, Zenon
<1>6. \A s \in Seq(At) : Len(s) \in Nat
    OBVIOUS
<1> QED
    BY <1>2, <1>3, <1>4, <1>5, <1>6, Zenon


\* Where the headers of a request end on the wire.
LEMMA BaseSteps ==
    ASSUME NEW r, IsRequest(r)
    PROVE  /\ HeaderPieces(r) \in Seq(Seq(HeadPieces))
           /\ Len(HeaderPieces(r)) = Len(r.headers)
           /\ \A i \in 1..Len(r.headers) :
                HeaderHas(HeaderPieces(r)[i], NameOf(r, i), ValueOf(r, i))
           /\ \A n \in 0..Len(r.headers) : Base(r, n) \in Nat
           /\ Base(r, 0) = Len(Url(r)) + 2
           /\ \A i \in 1..Len(r.headers) :
                Base(r, i) = Base(r, i - 1) + Len(NameOf(r, i)) + Len(ValueOf(r, i)) + 2
<1> DEFINE hs == HeaderPieces(r)
           n == Len(r.headers)
<1>1. n \in Nat /\ DOMAIN r.headers = 1..n
    BY HeaderTexts, Zenon
<1>2. ASSUME NEW i \in 1..n
      PROVE  hs[i] \in Seq(HeadPieces) /\ HeaderHas(hs[i], NameOf(r, i), ValueOf(r, i))
    <2>1. i \in Nat \ {0}
        OBVIOUS
    <2>2. hs[i] = Token("field", NameOf(r, i)) \o Token("value", ValueOf(r, i))
        BY <1>1, HeaderTexts, Zenon DEF HeaderPieces
    <2>3. NameOf(r, i) \in Seq(At) /\ ValueOf(r, i) \in Seq(At)
        BY <2>1, HeaderTexts, Zenon
    <2> QED
        BY <2>2, <2>3, HeaderIs, Zenon
<1>3. hs \in Seq(Seq(HeadPieces)) /\ Len(hs) = n
    <2>1. DOMAIN hs = 1..n /\ hs = [i \in 1..n |-> hs[i]]
        BY <1>1, Zenon DEF HeaderPieces
    <2> HIDE DEF hs
    <2>2. hs \in Seq(Seq(HeadPieces))
        BY <1>1, <1>2, <2>1, FunctionType, Zenon
    <2> QED
        BY <1>1, <2>1, <2>2
<1>4. Len(Url(r)) \in Nat
    BY HeaderTexts, Zenon
<1> HIDE DEF hs, n
<1>5. ASSUME NEW m \in 0..n PROVE Base(r, m) \in Nat
    <2>1. Upto(hs, m) \in Nat
        BY <1>3, UptoSteps, Zenon
    <2> QED
        BY <1>4, <2>1 DEF Base, hs
<1>6. Base(r, 0) = Len(Url(r)) + 2
    <2>1. Upto(hs, 0) = 0
        BY <1>3, UptoSteps, Zenon
    <2> QED
        BY <1>4, <2>1 DEF Base, hs
<1>7. ASSUME NEW i \in 1..n
      PROVE  Base(r, i) = Base(r, i - 1) + Len(NameOf(r, i)) + Len(ValueOf(r, i)) + 2
    <2>1. Upto(hs, i) = Upto(hs, i - 1) + Len(hs[i])
        BY <1>3, UptoSteps, Zenon
    <2>2. Len(hs[i]) = Len(NameOf(r, i)) + Len(ValueOf(r, i)) + 2
        BY <1>2, Zenon DEF HeaderHas
    <2>3. i \in Nat \ {0} /\ i - 1 \in 0..n
        BY <1>1
    <2>4. Len(NameOf(r, i)) \in Nat /\ Len(ValueOf(r, i)) \in Nat
        BY <2>3, HeaderTexts, Zenon
    <2>5. Upto(hs, i - 1) \in Nat
        BY <1>3, <2>3, UptoSteps, Zenon
    <2> QED
        BY <1>4, <2>1, <2>2, <2>4, <2>5 DEF Base, hs
<1> QED
    BY <1>2, <1>3, <1>5, <1>6, <1>7, Zenon DEF hs, n

\* The pieces of header i.
HeaderAt(r, i) ==
    LET w == Wire(r)
        from == Base(r, i - 1)
        mid == from + Len(NameOf(r, i)) + 1
    IN  /\ \A c \in 1..Len(NameOf(r, i)) : w[from + c] = Piece("field", NameOf(r, i)[c])
        /\ w[mid] = Piece("end", "field")
        /\ \A c \in 1..Len(ValueOf(r, i)) : w[mid + c] = Piece("value", ValueOf(r, i)[c])
        /\ w[Base(r, i)] = Piece("end", "value")

\* The pieces of a request.
WireIs(r) ==
    LET w == Wire(r)
        blank == Base(r, Len(r.headers)) + 1
    IN  /\ Len(w) = blank + Len(Body(r))
        /\ w[1] = Piece("method", r.method)
        /\ \A c \in 1..Len(Url(r)) : w[1 + c] = Piece("url", Url(r)[c])
        /\ w[Base(r, 0)] = Piece("end", "url")
        /\ \A i \in 1..Len(r.headers) : HeaderAt(r, i)
        /\ w[blank] = Piece("blank", Len(Body(r)))
        /\ \A c \in 1..Len(Body(r)) : w[blank + c] = Piece("body", Body(r)[c])

\* A request on the wire, as its parts.
LEMMA WireParts ==
    ASSUME NEW r, IsRequest(r), NEW s, s = HeadOf(r)
    PROVE  /\ s \in Seq(HeadPieces)
           /\ Len(Body(r)) \in Nat
           /\ Len(Wire(r)) = Len(s) + 2 + Len(Body(r))
           /\ Wire(r)[1] = Piece("method", r.method)
           /\ \A i \in 1..Len(s) : Wire(r)[1 + i] = s[i]
           /\ Wire(r)[Len(s) + 2] = Piece("blank", Len(Body(r)))
           /\ \A c \in 1..Len(Body(r)) :
                Wire(r)[Len(s) + 2 + c] = Piece("body", Body(r)[c])
<1> DEFINE a == Piece("method", r.method)
           b == Piece("blank", Len(Body(r)))
           t == [k \in DOMAIN Body(r) |-> Piece("body", Body(r)[k])]
           w == Arranged(a, s, b, t)
<1>1. PICK B : Body(r) \in Seq(B)
    BY BodyType, Zenon
<1> DEFINE X == HeadPieces \cup {a, b} \cup {Piece("body", x) : x \in B}
<1>2. Len(Body(r)) \in Nat /\ DOMAIN Body(r) = 1..Len(Body(r))
    BY <1>1, SeqDomain, Zenon
<1>3. t \in Seq(X) /\ Len(t) = Len(Body(r))
    BY <1>1, <1>2 DEF Piece
<1>4. \A c \in 1..Len(Body(r)) : t[c] = Piece("body", Body(r)[c])
    BY <1>2, Zenon
<1>5. s \in Seq(HeadPieces)
    BY HeadType, Zenon DEF Tokens
<1>6. Wire(r) = w
    BY ConcatTwice DEF Wire, HeadOf, Arranged
<1>7. a \in X /\ b \in X /\ s \in Seq(X)
    <2>1. HeadPieces \subseteq X
        OBVIOUS
    <2>2. s \in Seq(X)
        <3> HIDE DEF X
        <3> QED
            BY <1>5, <2>1, SubType, Zenon
    <2> QED
        BY <2>2
<1> HIDE DEF a, b, t, X
<1>8. HasParts(w, X, a, s, b, t)
    BY <1>3, <1>7, Arrangement, Zenon
<1>9. /\ Len(w) = Len(s) + 2 + Len(t)
      /\ w[1] = a /\ w[Len(s) + 2] = b
      /\ \A i \in 1..Len(s) : w[1 + i] = s[i]
      /\ \A i \in 1..Len(t) : w[Len(s) + 2 + i] = t[i]
    BY <1>8, Zenon DEF HasParts
<1> HIDE DEF w
<1> QED
    BY <1>2, <1>3, <1>4, <1>5, <1>6, <1>9, Zenon DEF a, b

HeadIs(r, s, n) ==
    /\ Len(s) = Base(r, n) - 1
    /\ \A c \in 1..Len(Url(r)) : s[c] = Piece("url", Url(r)[c])
    /\ s[Len(Url(r)) + 1] = Piece("end", "url")
    /\ \A i \in 1..n : \A k \in 1..Len(HeaderPieces(r)[i]) :
          /\ Base(r, i - 1) - 1 + k \in 1..Len(s)
          /\ s[Base(r, i - 1) - 1 + k] = HeaderPieces(r)[i][k]

\* What comes after the method is the URL and the headers.
LEMMA HeadParts ==
    ASSUME NEW r, IsRequest(r), NEW s, s = HeadOf(r)
    PROVE  HeadIs(r, s, Len(r.headers))
<1> DEFINE t == Token("url", Url(r))
           hs == HeaderPieces(r)
           u == FlattenSeq(hs)
           n == Len(r.headers)
<1>1. s = t \o u
    BY Zenon DEF HeadOf, HeaderPieces
<1>2. t \in Seq(HeadPieces) /\ TokenHas(t, "url", Url(r))
    <2>1. "url" \in Names
        BY DEF Names
    <2> QED
        BY <2>1, TokenPieces, HeaderTexts, Zenon
<1>3. hs \in Seq(Seq(HeadPieces)) /\ Len(hs) = n /\ n \in Nat
    BY BaseSteps, HeaderTexts, Zenon
<1>4. Len(Url(r)) \in Nat
    BY HeaderTexts, Zenon
<1> HIDE DEF t, hs
<1>5. u \in Seq(HeadPieces) /\ Len(u) = Upto(hs, n) /\ Upto(hs, n) \in Nat
    <2>1. n \in 0..Len(hs)
        BY <1>3
    <2> QED
        BY <1>3, <2>1, FlattenIsSeq, UptoSteps, Zenon
<1>6. \A i \in 1..n : \A k \in 1..Len(hs[i]) :
          Upto(hs, i - 1) + k \in 1..Len(u) /\ u[Upto(hs, i - 1) + k] = hs[i][k]
    <2> TAKE i \in 1..n
    <2>1. i \in 1..Len(hs)
        BY <1>3, Zenon
    <2> HIDE DEF n
    <2> QED
        BY <1>3, <2>1, PlaceHas, Zenon
<1>7. Len(t) = Len(Url(r)) + 1
    BY <1>2, Zenon DEF TokenHas
<1>8. \A m : Base(r, m) = Len(Url(r)) + 2 + Upto(hs, m)
    BY Zenon DEF Base, hs
<1> HIDE DEF u, n
<1>9. /\ Len(s) = Len(t) + Len(u)
      /\ \A k \in 1..Len(t) : s[k] = t[k]
      /\ \A k \in 1..Len(u) : s[Len(t) + k] = u[k]
    BY <1>1, <1>2, <1>5
<1>10. Len(s) = Base(r, n) - 1
    BY <1>4, <1>5, <1>7, <1>8, <1>9
<1>11. \A c \in 1..Len(Url(r)) : s[c] = Piece("url", Url(r)[c])
    <2>1. \A c \in 1..Len(Url(r)) : c \in 1..Len(t)
        BY <1>4, <1>7
    <2> QED
        BY <1>2, <1>9, <2>1, Zenon DEF TokenHas
<1>12. s[Len(Url(r)) + 1] = Piece("end", "url")
    <2>1. Len(Url(r)) + 1 \in 1..Len(t)
        BY <1>4, <1>7
    <2> QED
        BY <1>2, <1>9, <2>1, Zenon DEF TokenHas
<1>13. ASSUME NEW i \in 1..n, NEW k \in 1..Len(hs[i])
       PROVE  /\ Base(r, i - 1) - 1 + k \in 1..Len(s)
              /\ s[Base(r, i - 1) - 1 + k] = hs[i][k]
    <2> DEFINE g == Upto(hs, i - 1) + k
    <2>1. g \in 1..Len(u) /\ u[g] = hs[i][k]
        BY <1>6, Zenon
    <2>2. i - 1 \in 0..Len(hs) /\ Len(hs[i]) \in Nat
        BY <1>3
    <2>3. Upto(hs, i - 1) \in Nat /\ k \in Nat
        BY <1>3, <2>2, UptoSteps
    <2>4. Base(r, i - 1) - 1 + k = Len(t) + g
        BY <1>4, <1>7, <1>8, <2>3
    <2>5. Len(t) + g \in 1..Len(s)
        <3>1. Len(u) \in Nat
            BY <1>5
        <3> HIDE DEF g
        <3> QED
            BY <1>4, <1>7, <1>9, <2>1, <3>1
    <2> HIDE DEF g
    <2> QED
        BY <1>9, <2>1, <2>4, <2>5, Zenon
<1> QED
    <2>1. HeadIs(r, s, n)
        BY <1>10, <1>11, <1>12, <1>13, Zenon DEF hs, HeadIs
    <2> QED
        BY <2>1, Zenon DEF n

\* Every piece of a request on the wire.
LEMMA WireAt ==
    ASSUME NEW r, IsRequest(r)
    PROVE  WireIs(r)
<1> DEFINE s == HeadOf(r)
           n == Len(r.headers)
           w == Wire(r)
<1> HIDE DEF s, w
<1>1. /\ s \in Seq(HeadPieces) /\ Len(Body(r)) \in Nat
      /\ Len(w) = Len(s) + 2 + Len(Body(r)) /\ w[1] = Piece("method", r.method)
      /\ \A i \in 1..Len(s) : w[1 + i] = s[i]
      /\ w[Len(s) + 2] = Piece("blank", Len(Body(r)))
      /\ \A c \in 1..Len(Body(r)) : w[Len(s) + 2 + c] = Piece("body", Body(r)[c])
    BY WireParts, Zenon DEF s, w
<1>2. /\ Len(s) = Base(r, n) - 1
      /\ \A c \in 1..Len(Url(r)) : s[c] = Piece("url", Url(r)[c])
      /\ s[Len(Url(r)) + 1] = Piece("end", "url")
      /\ \A i \in 1..n : \A k \in 1..Len(HeaderPieces(r)[i]) :
            /\ Base(r, i - 1) - 1 + k \in 1..Len(s)
            /\ s[Base(r, i - 1) - 1 + k] = HeaderPieces(r)[i][k]
    <2>1. HeadIs(r, s, n)
        BY HeadParts, Zenon DEF s
    <2> QED
        BY <2>1, Zenon DEF HeadIs
<1>3. n \in Nat /\ Len(Url(r)) \in Nat /\ Len(s) \in Nat
    BY <1>1, HeaderTexts
<1>4. /\ \A m \in 0..n : Base(r, m) \in Nat
      /\ Base(r, 0) = Len(Url(r)) + 2
      /\ \A i \in 1..n : HeaderHas(HeaderPieces(r)[i], NameOf(r, i), ValueOf(r, i))
      /\ \A i \in 1..n :
            Base(r, i) = Base(r, i - 1) + Len(NameOf(r, i)) + Len(ValueOf(r, i)) + 2
    BY BaseSteps, Zenon
<1>5. Len(s) + 2 = Base(r, n) + 1
    <2>1. Base(r, n) \in Nat
        BY <1>3, <1>4
    <2> QED
        BY <1>2, <2>1
<1>6. Len(Url(r)) + 1 <= Len(s)
    <2>1. ASSUME NEW m \in Nat, m \in 0..n => Base(r, m) >= Len(Url(r)) + 2,
                 m + 1 \in 0..n
          PROVE  Base(r, m + 1) >= Len(Url(r)) + 2
        <3>1. m \in 0..n /\ m + 1 \in 1..n /\ (m + 1) - 1 = m /\ m + 1 \in Nat \ {0}
            BY <1>3, <2>1
        <3>2. Len(NameOf(r, m + 1)) \in Nat /\ Len(ValueOf(r, m + 1)) \in Nat
            BY <3>1, HeaderTexts, Zenon
        <3>3. Base(r, m + 1)
              = Base(r, m) + Len(NameOf(r, m + 1)) + Len(ValueOf(r, m + 1)) + 2
            BY <1>4, <3>1, Zenon
        <3>4. Base(r, m) \in Nat
            BY <1>4, <3>1, Zenon
        <3> QED
            BY <1>3, <2>1, <3>1, <3>2, <3>3, <3>4
    <2> DEFINE S == {m \in Nat : m \in 0..n => Base(r, m) >= Len(Url(r)) + 2}
    <2>2. 0 \in S
        BY <1>3, <1>4
    <2>3. \A m \in 0..(n - 1) : m \in S => m + 1 \in S
        BY <1>3, <2>1
    <2>4. n \in S
        <3> HIDE DEF S
        <3> QED
            BY <1>3, <2>2, <2>3, Induction
    <2>5. n \in 0..n /\ Base(r, n) \in Nat
        BY <1>3, <1>4
    <2>6. Base(r, n) >= Len(Url(r)) + 2
        BY <2>4, <2>5, Zenon
    <2>7. Len(s) = Base(r, n) - 1
        BY <1>2, Zenon
    <2> QED
        BY <1>3, <2>5, <2>6, <2>7
<1>7. \A c \in 1..Len(Url(r)) : w[1 + c] = Piece("url", Url(r)[c])
    <2>1. \A c \in 1..Len(Url(r)) : c \in 1..Len(s)
        BY <1>3, <1>6
    <2> QED
        BY <1>1, <1>2, <2>1, Zenon
<1>8. w[Base(r, 0)] = Piece("end", "url")
    <2>1. Len(Url(r)) + 1 \in 1..Len(s) /\ 1 + (Len(Url(r)) + 1) = Base(r, 0)
        BY <1>3, <1>4, <1>6
    <2>2. w[1 + (Len(Url(r)) + 1)] = s[Len(Url(r)) + 1]
        BY <1>1, <2>1, Zenon
    <2> QED
        BY <1>2, <2>1, <2>2, Zenon
<1>9. ASSUME NEW i \in 1..n PROVE HeaderAt(r, i)
    <2> DEFINE h == HeaderPieces(r)[i]
               from == Base(r, i - 1)
               name == NameOf(r, i)
               value == ValueOf(r, i)
    <2>1. i \in Nat \ {0} /\ i - 1 \in 0..n
        BY <1>3
    <2>2. Len(name) \in Nat /\ Len(value) \in Nat
        BY <2>1, HeaderTexts, Zenon
    <2>3. from \in Nat /\ Base(r, i) = from + Len(name) + Len(value) + 2
        BY <1>4, <2>1, Zenon
    <2>4. HeaderHas(h, name, value)
        BY <1>4, Zenon
    <2> HIDE DEF h, from, name, value
    <2>5. /\ Len(h) = Len(name) + Len(value) + 2
          /\ \A k \in 1..Len(name) : h[k] = Piece("field", name[k])
          /\ h[Len(name) + 1] = Piece("end", "field")
          /\ \A k \in 1..Len(value) : h[Len(name) + 1 + k] = Piece("value", value[k])
          /\ h[Len(name) + Len(value) + 2] = Piece("end", "value")
        BY <2>4, Zenon DEF HeaderHas
    <2>6. ASSUME NEW k \in 1..Len(h) PROVE w[from + k] = h[k]
        <3>1. from - 1 + k \in 1..Len(s) /\ s[from - 1 + k] = h[k]
            BY <1>2, Zenon DEF h, from
        <3>2. w[1 + (from - 1 + k)] = s[from - 1 + k]
            BY <1>1, <3>1, Zenon
        <3>3. 1 + (from - 1 + k) = from + k
            BY <2>2, <2>3, <2>5
        <3> QED
            BY <3>1, <3>2, <3>3, Zenon
    <2>7. /\ \A c \in 1..Len(name) : c \in 1..Len(h)
          /\ Len(name) + 1 \in 1..Len(h) /\ from + (Len(name) + 1) = from + Len(name) + 1
          /\ \A c \in 1..Len(value) :
                /\ Len(name) + 1 + c \in 1..Len(h)
                /\ from + (Len(name) + 1 + c) = from + Len(name) + 1 + c
          /\ Len(name) + Len(value) + 2 \in 1..Len(h)
          /\ from + (Len(name) + Len(value) + 2) = Base(r, i)
        BY <2>2, <2>3, <2>5
    <2>8. \A c \in 1..Len(name) : w[from + c] = Piece("field", name[c])
        BY <2>5, <2>6, <2>7, Zenon
    <2>9. w[from + Len(name) + 1] = Piece("end", "field")
        BY <2>5, <2>6, <2>7, Zenon
    <2>10. \A c \in 1..Len(value) : w[from + Len(name) + 1 + c] = Piece("value", value[c])
        <3> TAKE c \in 1..Len(value)
        <3>1. w[from + (Len(name) + 1 + c)] = h[Len(name) + 1 + c]
            BY <2>6, <2>7, Zenon
        <3> QED
            BY <2>5, <2>7, <3>1, Zenon
    <2>11. w[Base(r, i)] = Piece("end", "value")
        BY <2>5, <2>6, <2>7, Zenon
    <2> QED
        BY <2>8, <2>9, <2>10, <2>11, Zenon DEF HeaderAt, w, from, name, value
<1>10. /\ Len(w) = (Base(r, n) + 1) + Len(Body(r))
       /\ w[Base(r, n) + 1] = Piece("blank", Len(Body(r)))
       /\ \A c \in 1..Len(Body(r)) : w[(Base(r, n) + 1) + c] = Piece("body", Body(r)[c])
    BY <1>1, <1>5, Zenon
<1> QED
    BY <1>1, <1>7, <1>8, <1>9, <1>10, Zenon DEF WireIs, w, n


-----------------------------------------------------------------------------
(* What the callbacks make of what is marked *)

\* The lists of header names and values, one header after another.
LEMMA HeadersGrow ==
    ASSUME NEW r, IsRequest(r)
    PROVE  /\ FieldsTo(r, 0) = <<>> /\ ValuesTo(r, 0) = <<>>
           /\ \A n \in 0..Len(r.headers) :
                /\ FieldsTo(r, n) \in Seq(Seq(At)) /\ Len(FieldsTo(r, n)) = n
                /\ ValuesTo(r, n) \in Seq(Seq(At)) /\ Len(ValuesTo(r, n)) = n
           /\ \A i \in 1..Len(r.headers) :
                /\ FieldsTo(r, i) = Append(FieldsTo(r, i - 1), NameOf(r, i))
                /\ ValuesTo(r, i) = Append(ValuesTo(r, i - 1), ValueOf(r, i))
<1> DEFINE T == Seq(At)
           F(n) == FieldsTo(r, n)
           V(n) == ValuesTo(r, n)
<1>1. Len(r.headers) \in Nat
    BY HeaderTexts, Zenon
<1>2. ASSUME NEW n \in 0..Len(r.headers)
      PROVE  /\ F(n) \in Seq(T) /\ Len(F(n)) = n /\ V(n) \in Seq(T) /\ Len(V(n)) = n
             /\ \A i \in 1..n : F(n)[i] = NameOf(r, i) /\ V(n)[i] = ValueOf(r, i)
    <2>1. n \in Nat /\ \A i \in 1..n : i \in 1..Len(r.headers) /\ i \in Nat \ {0}
        BY <1>1
    <2>2. \A i \in 1..n : F(n)[i] = NameOf(r, i) /\ V(n)[i] = ValueOf(r, i)
        BY <2>1, HeaderTexts, Zenon DEF FieldsTo, ValuesTo
    <2>3. \A i \in 1..n : NameOf(r, i) \in T /\ ValueOf(r, i) \in T
        BY <2>1, HeaderTexts, Zenon
    <2>4. /\ F(n) = [i \in 1..n |-> F(n)[i]] /\ DOMAIN F(n) = 1..n
          /\ V(n) = [i \in 1..n |-> V(n)[i]] /\ DOMAIN V(n) = 1..n
        BY Zenon DEF FieldsTo, ValuesTo
    <2> HIDE DEF F, V, T
    <2>6. \A i \in 1..n : F(n)[i] \in T /\ V(n)[i] \in T
        BY <2>2, <2>3, Zenon
    <2>5. F(n) \in Seq(T) /\ V(n) \in Seq(T)
        BY <2>1, <2>4, <2>6, FunctionType, Zenon
    <2> QED
        BY <2>1, <2>2, <2>4, <2>5
<1> HIDE DEF F, V, T
<1>3. ASSUME NEW i \in 1..Len(r.headers)
      PROVE  F(i) = Append(F(i - 1), NameOf(r, i)) /\ V(i) = Append(V(i - 1), ValueOf(r, i))
    <2>1. i \in 0..Len(r.headers) /\ i - 1 \in 0..Len(r.headers) /\ i \in Nat \ {0}
        BY <1>1
    <2>2. NameOf(r, i) \in T /\ ValueOf(r, i) \in T
        BY <2>1, HeaderTexts, Zenon DEF T
    <2>3. /\ F(i) \in Seq(T) /\ Len(F(i)) = i
          /\ V(i) \in Seq(T) /\ Len(V(i)) = i
          /\ F(i - 1) \in Seq(T) /\ Len(F(i - 1)) = i - 1
          /\ V(i - 1) \in Seq(T) /\ Len(V(i - 1)) = i - 1
          /\ \A k \in 1..i : F(i)[k] = NameOf(r, k) /\ V(i)[k] = ValueOf(r, k)
          /\ \A k \in 1..(i - 1) : F(i - 1)[k] = NameOf(r, k) /\ V(i - 1)[k] = ValueOf(r, k)
        BY <1>2, <2>1
    <2>4. F(i) = Append(F(i - 1), NameOf(r, i))
        BY <2>1, <2>2, <2>3
    <2>5. V(i) = Append(V(i - 1), ValueOf(r, i))
        BY <2>1, <2>2, <2>3
    <2> QED
        BY <2>4, <2>5
<1>4. F(0) = <<>> /\ V(0) = <<>>
    <2>1. 0 \in 0..Len(r.headers)
        BY <1>1
    <2> QED
        BY <1>2, <2>1
<1> QED
    BY <1>2, <1>3, <1>4, Zenon DEF F, V, T

\* q has the fields of a Request.
Fielded(q) == DOMAIN q = DOMAIN NewRequest /\ DOMAIN q.parser = DOMAIN NewRequest.parser

\* What a callback leaves alone.
SameParser(x, q) ==
    /\ x.parser.at = q.parser.at /\ x.parser.method = q.parser.method
    /\ x.parser.left = q.parser.left /\ x.parser.error = q.parser.error
SameLine(x, q) == x.url = q.url /\ x.method = q.method /\ x.params = q.params
SameHeaders(x, q) ==
    /\ x.fields = q.fields /\ x.values = q.values /\ x.last_was_value = q.last_was_value
    /\ x.headers = q.headers
SameBody(x, q) ==
    x.body = q.body /\ x.items = q.items /\ x.form = q.form /\ x.err = q.err
    /\ x.size = q.size

\* on_url.
LEMMA CallUrl ==
    ASSUME NEW q, Fielded(q), NEW x, x = Callback(q, "url")
    PROVE  /\ Fielded(x) /\ SameParser(x, q) /\ SameHeaders(x, q) /\ SameBody(x, q)
           /\ x.method = q.method /\ x.params = q.params /\ x.part = q.part
           /\ x.url = q.url \o q.parser.mark /\ x.parser.mark = <<>>
<1> DEFINE m == q.parser.mark
           r == [q EXCEPT !.parser.mark = <<>>]
<1>1. x = [r EXCEPT !.url = @ \o m]
    BY DEF Callback, OnUrl
<1>2. /\ Fielded(r) /\ SameParser(r, q) /\ SameBody(r, q) /\ SameLine(r, q) /\ SameHeaders(r, q)
      /\ r.part = q.part /\ r.parser.mark = <<>>
    BY DEF Fielded, SameParser, SameHeaders, SameBody, SameLine, NewRequest
<1> HIDE DEF r, m
<1>3. /\ Fielded(x) /\ x.parser = r.parser
      /\ SameHeaders(x, r) /\ SameBody(x, r) /\ x.part = r.part
      /\ x.method = r.method /\ x.params = r.params /\ x.url = r.url \o m
    BY <1>1, <1>2 DEF Fielded, SameLine, SameHeaders, SameBody, NewRequest
<1> QED
    BY <1>2, <1>3 DEF SameParser, SameLine, SameHeaders, SameBody, m

\* on_header_field, which ends the request line.
LEMMA CallField ==
    ASSUME NEW q, Fielded(q), NEW x, x = Callback(q, "field")
    PROVE  /\ Fielded(x) /\ SameParser(x, q) /\ SameBody(x, q)
           /\ x.url = q.url /\ x.values = q.values /\ x.headers = q.headers
           /\ x.parser.mark = <<>> /\ ~x.last_was_value
           /\ IF q.part = "line"
              THEN /\ x.part = "head" /\ x.method = q.parser.method
                   /\ x.params = q.params \o ParseRequestUrlParams(q.url)
              ELSE x.part = q.part /\ x.method = q.method /\ x.params = q.params
           /\ x.fields = IF q.last_was_value THEN Append(q.fields, q.parser.mark)
                         ELSE AppendToLast(q.fields, q.parser.mark)
<1> DEFINE r == [q EXCEPT !.parser.mark = <<>>]
           e == EndOfLine(r)
<1>1. x = OnHeaderField(r, q.parser.mark)
    BY DEF Callback
<1>2. /\ Fielded(r) /\ SameParser(r, q) /\ SameBody(r, q) /\ SameLine(r, q) /\ SameHeaders(r, q)
      /\ r.part = q.part /\ r.parser.mark = <<>>
    BY DEF Fielded, SameParser, SameHeaders, SameBody, SameLine, NewRequest
<1> HIDE DEF r
<1>3. /\ Fielded(e) /\ e.parser = r.parser /\ SameBody(e, r) /\ e.url = r.url
      /\ SameHeaders(e, r)
      /\ IF r.part = "line"
         THEN /\ e.part = "head" /\ e.method = r.parser.method
              /\ e.params = r.params \o ParseRequestUrlParams(r.url)
         ELSE e.part = r.part /\ e.method = r.method /\ e.params = r.params
    <2>1. CASE r.part = "line"
        <3>1. e = [r EXCEPT !.method = r.parser.method,
                            !.params = @ \o ParseRequestUrlParams(r.url), !.part = "head"]
            BY <2>1, Zenon DEF EndOfLine
        <3> HIDE DEF e
        <3> QED
            BY <1>2, <2>1, <3>1 DEF Fielded, SameHeaders, SameBody, NewRequest
    <2>2. CASE r.part # "line"
        <3>1. e = r
            BY <2>2, Zenon DEF EndOfLine
        <3> HIDE DEF e
        <3> QED
            BY <1>2, <2>2, <3>1 DEF SameHeaders, SameBody
    <2> QED
        BY <2>1, <2>2
<1>4. /\ Fielded(x) /\ x.parser = e.parser /\ SameBody(x, e) /\ SameLine(x, e)
      /\ x.part = e.part /\ x.values = e.values /\ x.headers = e.headers
      /\ ~x.last_was_value
      /\ x.fields = IF r.last_was_value THEN Append(e.fields, q.parser.mark)
                    ELSE AppendToLast(e.fields, q.parser.mark)
    <2>1. CASE r.last_was_value
        <3>1. x = [e EXCEPT !.fields = Append(@, q.parser.mark), !.last_was_value = FALSE]
            BY <1>1, <2>1, Zenon DEF OnHeaderField
        <3> HIDE DEF e
        <3> QED
            BY <1>3, <2>1, <3>1 DEF Fielded, SameLine, SameBody, NewRequest
    <2>2. CASE ~r.last_was_value
        <3>1. x = [e EXCEPT !.fields = AppendToLast(@, q.parser.mark)]
            BY <1>1, <2>2, Zenon DEF OnHeaderField
        <3>2. ~e.last_was_value
            BY <1>3, <2>2, Zenon DEF SameHeaders
        <3> HIDE DEF e
        <3>3. /\ Fielded(x) /\ x.parser = e.parser /\ SameBody(x, e) /\ SameLine(x, e)
              /\ x.part = e.part /\ x.values = e.values /\ x.headers = e.headers
              /\ x.last_was_value = e.last_was_value
              /\ x.fields = AppendToLast(e.fields, q.parser.mark)
            BY <1>3, <3>1 DEF Fielded, SameLine, SameBody, NewRequest
        <3> QED
            BY <2>2, <3>2, <3>3, Zenon
    <2> QED
        BY <2>1, <2>2
<1> HIDE DEF e
<1>5. SameParser(x, q) /\ x.parser.mark = <<>>
    BY <1>2, <1>3, <1>4, Zenon DEF SameParser
<1>6. SameBody(x, q)
    BY <1>2, <1>3, <1>4, Zenon DEF SameBody
<1>7. x.url = q.url /\ x.values = q.values /\ x.headers = q.headers
    BY <1>2, <1>3, <1>4, Zenon DEF SameLine, SameHeaders
<1>8. IF q.part = "line"
      THEN /\ x.part = "head" /\ x.method = q.parser.method
           /\ x.params = q.params \o ParseRequestUrlParams(q.url)
      ELSE x.part = q.part /\ x.method = q.method /\ x.params = q.params
    BY <1>2, <1>3, <1>4, Zenon DEF SameLine, SameParser
<1>9. x.fields = IF q.last_was_value THEN Append(q.fields, q.parser.mark)
                 ELSE AppendToLast(q.fields, q.parser.mark)
    BY <1>2, <1>3, <1>4, Zenon DEF SameHeaders
<1> QED
    BY <1>4, <1>5, <1>6, <1>7, <1>8, <1>9, Zenon

\* on_header_value.
LEMMA CallValue ==
    ASSUME NEW q, Fielded(q), NEW x, x = Callback(q, "value")
    PROVE  /\ Fielded(x) /\ SameParser(x, q) /\ SameBody(x, q) /\ SameLine(x, q)
           /\ x.part = q.part /\ x.fields = q.fields /\ x.headers = q.headers
           /\ x.parser.mark = <<>> /\ x.last_was_value
           /\ x.values = IF q.last_was_value THEN AppendToLast(q.values, q.parser.mark)
                         ELSE Append(q.values, q.parser.mark)
<1> DEFINE m == q.parser.mark
           r == [q EXCEPT !.parser.mark = <<>>]
<1>1. x = [r EXCEPT !.values = IF r.last_was_value THEN AppendToLast(@, m) ELSE Append(@, m),
                          !.last_was_value = TRUE]
    BY DEF Callback, OnHeaderValue
<1>2. /\ Fielded(r) /\ SameParser(r, q) /\ SameBody(r, q) /\ SameLine(r, q) /\ SameHeaders(r, q)
      /\ r.part = q.part /\ r.parser.mark = <<>>
    BY DEF Fielded, SameParser, SameHeaders, SameBody, SameLine, NewRequest
<1> HIDE DEF r, m
<1>3. /\ Fielded(x) /\ x.parser = r.parser
      /\ SameLine(x, r) /\ SameBody(x, r) /\ x.part = r.part
      /\ x.fields = r.fields /\ x.headers = r.headers /\ x.last_was_value
      /\ x.values = IF r.last_was_value THEN AppendToLast(r.values, m)
                    ELSE Append(r.values, m)
    BY <1>1, <1>2 DEF Fielded, SameLine, SameHeaders, SameBody, NewRequest
<1> QED
    BY <1>2, <1>3 DEF SameParser, SameLine, SameHeaders, SameBody, m

\* on_body.
LEMMA CallBody ==
    ASSUME NEW q, Fielded(q), NEW x, x = Callback(q, "body")
    PROVE  /\ Fielded(x) /\ SameParser(x, q) /\ SameHeaders(x, q) /\ SameLine(x, q)
           /\ x.part = "body" /\ x.parser.mark = <<>> /\ x.body = q.body \o q.parser.mark
           /\ x.items = q.items /\ x.form = q.form /\ x.err = q.err /\ x.size = q.size
<1> DEFINE m == q.parser.mark
           r == [q EXCEPT !.parser.mark = <<>>]
<1>1. x = [r EXCEPT !.body = @ \o m, !.part = "body"]
    BY DEF Callback, OnBody
<1>2. /\ Fielded(r) /\ SameParser(r, q) /\ SameBody(r, q) /\ SameLine(r, q) /\ SameHeaders(r, q)
      /\ r.part = q.part /\ r.parser.mark = <<>>
    BY DEF Fielded, SameParser, SameHeaders, SameBody, SameLine, NewRequest
<1> HIDE DEF r, m
<1>3. /\ Fielded(x) /\ x.parser = r.parser
      /\ SameLine(x, r) /\ SameHeaders(x, r) /\ x.part = "body" /\ x.body = r.body \o m
      /\ x.items = r.items /\ x.form = r.form /\ x.err = r.err /\ x.size = r.size
    BY <1>1, <1>2 DEF Fielded, SameLine, SameHeaders, SameBody, NewRequest
<1> QED
    BY <1>2, <1>3 DEF SameParser, SameLine, SameHeaders, SameBody, m


-----------------------------------------------------------------------------
(* The calls that bring a token on, at a separator or at the end of a read *)

\* The parts of a token: what has been called back with, what is marked, and both.
MarkedAs(q, X, t, c, a, called, all) ==
    /\ q.parser.mark \in Seq(X) /\ called \in Seq(X)
    /\ called \o q.parser.mark = all
    /\ a = 0 => q.parser.mark = all
    /\ \A x : x.parser.mark = <<>> => Marked(x, t, c, c)

\* When what is marked of a token is called back with, nothing is marked, all is known.
LEMMA MarkedType ==
    ASSUME NEW q, NEW X, NEW t \in Seq(X), NEW c, NEW a, Marked(q, t, c, a)
    PROVE  MarkedAs(q, X, t, c, a, SubSeq(t, 1, a), SubSeq(t, 1, c))
<1>1. c \in 0..Len(t) /\ a \in 0..c /\ q.parser.mark = SubSeq(t, a + 1, c)
    BY Zenon DEF Marked
<1>2. Len(t) \in Nat
    OBVIOUS
<1>3. a \in 0..Len(t) /\ 0 \in 0..a /\ 0 + 1 = 1
    BY <1>1, <1>2
<1>4. SubSeq(t, 1, a) \in Seq(X)
    BY <1>3, PartsAre
<1>5. SubSeq(t, a + 1, c) \in Seq(X) /\ SubSeq(t, c + 1, c) = <<>>
    BY <1>1, <1>2, PartsAre
<1>6. SubSeq(t, 1, a) \o SubSeq(t, a + 1, c) = SubSeq(t, 1, c)
    BY <1>1, PartsMeet, Zenon
<1>7. \A x : x.parser.mark = <<>> => Marked(x, t, c, c)
    <2>1. c \in 0..c
        BY <1>1
    <2> QED
        BY <1>1, <1>5, <2>1, Zenon DEF Marked
<1>8. a = 0 => SubSeq(t, a + 1, c) = SubSeq(t, 1, c)
    BY <1>3
<1> QED
    BY <1>1, <1>2, <1>4, <1>5, <1>6, <1>7, <1>8, Zenon DEF MarkedAs

\* A part of the URL.
LEMMA UrlCalled ==
    ASSUME NEW r, IsRequest(r), NEW q, Fielded(q), NEW c, NEW a, UrlHas(q, r, c, a),
           NEW x, x = Callback(q, "url")
    PROVE  Fielded(x) /\ SameParser(x, q) /\ x.size = q.size /\ UrlHas(x, r, c, c)
<1>1. /\ Fielded(x) /\ SameParser(x, q) /\ SameHeaders(x, q) /\ SameBody(x, q)
      /\ x.method = q.method /\ x.params = q.params /\ x.part = q.part
      /\ x.url = q.url \o q.parser.mark /\ x.parser.mark = <<>>
    BY CallUrl, Zenon
<1>2. Url(r) \in Seq(At) /\ Marked(q, Url(r), c, a)
    BY HeaderTexts, Zenon DEF UrlHas
<1>3. x.url = SubSeq(Url(r), 1, c) /\ Marked(x, Url(r), c, c)
    <2>1. q.url = SubSeq(Url(r), 1, a)
        BY Zenon DEF UrlHas
    <2>2. MarkedAs(q, At, Url(r), c, a, q.url, SubSeq(Url(r), 1, c))
        BY <1>2, <2>1, MarkedType, Zenon
    <2> QED
        BY <1>1, <2>2, Zenon DEF MarkedAs
<1>4. Steady(x, r) /\ Line(x, r) /\ x.headers = {} /\ x.body = <<>>
    <2>1. Steady(q, r) /\ Line(q, r) /\ q.headers = {} /\ q.body = <<>>
        BY Zenon DEF UrlHas, Started
    <2>2. Steady(x, r)
        BY <1>1, <2>1, Zenon DEF Steady, SameParser, SameBody
    <2>3. Line(x, r)
        BY <1>1, <2>1, Zenon DEF Line, SameHeaders
    <2> QED
        BY <1>1, <2>1, <2>2, <2>3, Zenon DEF SameHeaders, SameBody
<1>5. x.fields = <<>> /\ x.values = <<>> /\ x.last_was_value /\ x.size = q.size
    BY <1>1, Zenon DEF SameHeaders, SameBody, UrlHas
<1> QED
    BY <1>1, <1>3, <1>4, <1>5, Zenon DEF UrlHas, Started

\* The name of header i is known up to piece c, and called.
NameKnown(x, r, i, c) ==
    /\ Started(x, r) /\ x.parser.mark = <<>> /\ x.url = Url(r)
    /\ x.values = ValuesTo(r, i - 1) /\ ~x.last_was_value
    /\ x.fields = Append(FieldsTo(r, i - 1), SubSeq(NameOf(r, i), 1, c))

\* A part of the name of a header; the first of the first header ends the line.
LEMMA NameCalled ==
    ASSUME NEW r, IsRequest(r), NEW q, Fielded(q), NEW i \in 1..Len(r.headers), NEW c, NEW a,
           NameHas(q, r, i, c, a), NEW x, x = Callback(q, "field")
    PROVE  Fielded(x) /\ SameParser(x, q) /\ x.size = q.size /\ NameKnown(x, r, i, c)
<1> DEFINE t == NameOf(r, i)
           f == FieldsTo(r, i - 1)
<1>1. /\ Fielded(x) /\ SameParser(x, q) /\ SameBody(x, q)
      /\ x.url = q.url /\ x.values = q.values /\ x.headers = q.headers
      /\ x.parser.mark = <<>> /\ ~x.last_was_value
      /\ IF q.part = "line"
         THEN /\ x.part = "head" /\ x.method = q.parser.method
              /\ x.params = q.params \o ParseRequestUrlParams(q.url)
         ELSE x.part = q.part /\ x.method = q.method /\ x.params = q.params
      /\ x.fields = IF q.last_was_value THEN Append(q.fields, q.parser.mark)
                    ELSE AppendToLast(q.fields, q.parser.mark)
    BY CallField, Zenon
<1>2. Len(r.headers) \in Nat
    BY HeaderTexts, Zenon
<1>3. i \in Nat \ {0} /\ i - 1 \in 0..Len(r.headers)
    BY <1>2
<1>4. t \in Seq(At) /\ f \in Seq(Seq(At))
    BY <1>3, HeaderTexts, HeadersGrow, Zenon
<1>5. Marked(q, t, c, a) /\ q.url = Url(r) /\ q.values = ValuesTo(r, i - 1)
    BY Zenon DEF NameHas
<1>6. Steady(q, r) /\ Line(q, r) /\ q.headers = {} /\ q.body = <<>>
    BY Zenon DEF NameHas, Started
<1>7. IF q.last_was_value THEN a = 0 /\ q.fields = f
      ELSE a > 0 /\ q.fields = Append(f, SubSeq(t, 1, a))
    BY Zenon DEF NameHas
<1> HIDE DEF t, f
<1>8. x.fields = Append(f, SubSeq(t, 1, c))
    <2> DEFINE called == SubSeq(t, 1, a)
               all == SubSeq(t, 1, c)
               m == q.parser.mark
    <2>0. MarkedAs(q, At, t, c, a, called, all)
        BY <1>4, <1>5, MarkedType, Zenon
    <2>1. CASE q.last_was_value
        BY <1>1, <1>7, <2>0, <2>1, Zenon DEF MarkedAs
    <2>2. CASE ~q.last_was_value
        <3>1. x.fields = AppendToLast(Append(f, called), m)
            BY <1>1, <1>7, <2>2, Zenon
        <3>2. called \in Seq(At) /\ m \in Seq(At) /\ called \o m = all
            BY <2>0, Zenon DEF MarkedAs
        <3> HIDE DEF called, all, m
        <3>3. AppendToLast(Append(f, called), m) = Append(f, called \o m)
            BY <1>4, <3>2, LastAppended, Zenon
        <3> QED
            BY <3>1, <3>2, <3>3, Zenon DEF all
    <2> QED
        BY <2>1, <2>2
<1>9. x.part = "head" /\ x.method = r.method /\ x.params = UrlParams(r)
    <2>1. CASE q.fields = <<>>
        BY <1>1, <1>5, <1>6, <2>1, Zenon DEF Line, Steady, UrlParams
    <2>2. CASE q.fields # <<>>
        <3>1. q.part = "head" /\ q.method = r.method /\ q.params = UrlParams(r)
            BY <1>6, <2>2, Zenon DEF Line
        <3>2. "head" # "line"
            OBVIOUS
        <3> QED
            BY <1>1, <3>1, <3>2, Zenon
    <2> QED
        BY <2>1, <2>2
<1>10. x.fields # <<>>
    <2>1. \A y : Append(f, y) # <<>>
        BY <1>4
    <2> QED
        BY <1>8, <2>1, Zenon
<1>11. Started(x, r)
    <2>1. Steady(x, r)
        BY <1>1, <1>6, Zenon DEF Steady, SameParser, SameBody
    <2>2. Line(x, r)
        BY <1>9, <1>10, Zenon DEF Line
    <2> QED
        BY <1>1, <1>6, <2>1, <2>2, Zenon DEF Started, SameBody
<1>12. NameKnown(x, r, i, c)
    BY <1>1, <1>5, <1>8, <1>11, Zenon DEF NameKnown, t, f
<1> QED
    BY <1>1, <1>12, Zenon DEF SameBody

\* The value of header i is known up to piece c, and called.
ValueKnown(x, r, i, c) ==
    /\ Started(x, r) /\ x.parser.mark = <<>> /\ x.url = Url(r)
    /\ x.fields = FieldsTo(r, i) /\ x.last_was_value
    /\ x.values = Append(ValuesTo(r, i - 1), SubSeq(ValueOf(r, i), 1, c))

\* A part of the value of a header.
LEMMA ValueCalled ==
    ASSUME NEW r, IsRequest(r), NEW q, Fielded(q), NEW i \in 1..Len(r.headers), NEW c, NEW a,
           ValueHas(q, r, i, c, a), NEW x, x = Callback(q, "value")
    PROVE  Fielded(x) /\ SameParser(x, q) /\ x.size = q.size /\ ValueKnown(x, r, i, c)
<1> DEFINE t == ValueOf(r, i)
           v == ValuesTo(r, i - 1)
<1>1. /\ Fielded(x) /\ SameParser(x, q) /\ SameBody(x, q) /\ SameLine(x, q)
      /\ x.part = q.part /\ x.fields = q.fields /\ x.headers = q.headers
      /\ x.parser.mark = <<>> /\ x.last_was_value
      /\ x.values = IF q.last_was_value THEN AppendToLast(q.values, q.parser.mark)
                    ELSE Append(q.values, q.parser.mark)
    BY CallValue, Zenon
<1>2. Len(r.headers) \in Nat
    BY HeaderTexts, Zenon
<1>3. i \in Nat \ {0} /\ i - 1 \in 0..Len(r.headers)
    BY <1>2
<1>4. t \in Seq(At) /\ v \in Seq(Seq(At))
    BY <1>3, HeaderTexts, HeadersGrow, Zenon
<1>5. Marked(q, t, c, a) /\ q.url = Url(r) /\ q.fields = FieldsTo(r, i)
    BY Zenon DEF ValueHas
<1>6. Steady(q, r) /\ Line(q, r) /\ q.headers = {} /\ q.body = <<>>
    BY Zenon DEF ValueHas, Started
<1>7. IF q.last_was_value THEN a > 0 /\ q.values = Append(v, SubSeq(t, 1, a))
      ELSE a = 0 /\ q.values = v
    BY Zenon DEF ValueHas
<1> HIDE DEF t, v
<1>8. x.values = Append(v, SubSeq(t, 1, c))
    <2> DEFINE called == SubSeq(t, 1, a)
               all == SubSeq(t, 1, c)
               m == q.parser.mark
    <2>0. MarkedAs(q, At, t, c, a, called, all)
        BY <1>4, <1>5, MarkedType, Zenon
    <2>1. CASE ~q.last_was_value
        BY <1>1, <1>7, <2>0, <2>1, Zenon DEF MarkedAs
    <2>2. CASE q.last_was_value
        <3>1. x.values = AppendToLast(Append(v, called), m)
            BY <1>1, <1>7, <2>2, Zenon
        <3>2. called \in Seq(At) /\ m \in Seq(At) /\ called \o m = all
            BY <2>0, Zenon DEF MarkedAs
        <3> HIDE DEF called, all, m
        <3>3. AppendToLast(Append(v, called), m) = Append(v, called \o m)
            BY <1>4, <3>2, LastAppended, Zenon
        <3> QED
            BY <3>1, <3>2, <3>3, Zenon DEF all
    <2> QED
        BY <2>1, <2>2
<1>9. Started(x, r)
    <2>1. Steady(x, r)
        BY <1>1, <1>6, Zenon DEF Steady, SameParser, SameBody
    <2>2. Line(x, r)
        BY <1>1, <1>6, Zenon DEF Line, SameLine
    <2> QED
        BY <1>1, <1>6, <2>1, <2>2, Zenon DEF Started, SameBody
<1>10. ValueKnown(x, r, i, c)
    BY <1>1, <1>5, <1>8, <1>9, Zenon DEF ValueKnown, SameLine, t, v
<1> QED
    BY <1>1, <1>10, Zenon DEF SameBody

\* The body of r is known up to piece c, and called.
BodyKnown(x, r, c) ==
    /\ Steady(x, r) /\ Settled(x, r) /\ x.parser.mark = <<>> /\ x.part = "body"
    /\ x.body = SubSeq(Body(r), 1, c)

\* What of a body is taken before the last piece, and counted down.
BodyTaken(q, r, c, a) ==
    /\ Steady(q, r) /\ Settled(q, r) /\ Marked(q, Body(r), c, a)
    /\ q.body = SubSeq(Body(r), 1, a)

\* A part of the body.
LEMMA BodyCalled ==
    ASSUME NEW r, IsRequest(r), NEW q, Fielded(q), NEW c, NEW a, BodyTaken(q, r, c, a),
           NEW x, x = Callback(q, "body")
    PROVE  Fielded(x) /\ SameParser(x, q) /\ x.size = q.size /\ BodyKnown(x, r, c)
<1>1. /\ Fielded(x) /\ SameParser(x, q) /\ SameHeaders(x, q) /\ SameLine(x, q)
      /\ x.part = "body" /\ x.parser.mark = <<>> /\ x.body = q.body \o q.parser.mark
      /\ x.items = q.items /\ x.form = q.form /\ x.err = q.err /\ x.size = q.size
    BY CallBody, Zenon
<1>2. PICK X : Body(r) \in Seq(X)
    BY BodyType, Zenon
<1>3. Steady(q, r) /\ Settled(q, r) /\ Marked(q, Body(r), c, a)
      /\ q.body = SubSeq(Body(r), 1, a)
    BY Zenon DEF BodyTaken
<1>4. x.body = SubSeq(Body(r), 1, c)
    <2>1. MarkedAs(q, X, Body(r), c, a, q.body, SubSeq(Body(r), 1, c))
        BY <1>2, <1>3, MarkedType, Zenon
    <2> QED
        BY <1>1, <2>1, Zenon DEF MarkedAs
<1>5. Steady(x, r)
    BY <1>1, <1>3, Zenon DEF Steady, SameParser
<1>6. Settled(x, r)
    BY <1>1, <1>3, Zenon DEF Settled, SameLine, SameHeaders
<1> QED
    BY <1>1, <1>4, <1>5, <1>6, Zenon DEF BodyKnown


-----------------------------------------------------------------------------
(* One piece of the request *)

\* x is q, but for where its parser is, and what it has marked.
Moved(x, q, at) ==
    /\ Fielded(x) /\ SameLine(x, q) /\ SameHeaders(x, q) /\ SameBody(x, q)
    /\ x.part = q.part /\ x.parser.at = at /\ x.parser.method = q.parser.method
    /\ x.parser.error = q.parser.error

\* A piece of a token is marked.
LEMMA ConsumeMarks ==
    ASSUME NEW q, Fielded(q), ~q.parser.error, q.parser.at # "start",
           NEW p, p.on \in {"url", "field", "value"}, NEW x, x = Consume(q, p)
    PROVE  Moved(x, q, p.on) /\ x.parser.mark = Append(q.parser.mark, p.at)
<1> DEFINE r == [q EXCEPT !.parser.at = p.on]
<1>1. x = [r EXCEPT !.parser.mark = Append(@, p.at)]
    BY DEF Consume
<1>2. Moved(r, q, p.on) /\ r.parser.mark = q.parser.mark
    BY DEF Moved, Fielded, SameLine, SameHeaders, SameBody, NewRequest
<1> HIDE DEF r
<1>3. Moved(x, r, p.on) /\ x.parser.mark = Append(r.parser.mark, p.at)
    BY <1>1, <1>2 DEF Moved, Fielded, SameLine, SameHeaders, SameBody, NewRequest
<1> QED
    BY <1>2, <1>3, Zenon DEF Moved, SameLine, SameHeaders, SameBody

\* A separator ends a token: what is marked of it is called back with.
LEMMA ConsumeEnd ==
    ASSUME NEW q, Fielded(q), ~q.parser.error, q.parser.at # "start",
           NEW on, NEW x, x = Consume(q, Piece("end", on))
    PROVE  \E m : Moved(m, q, "end") /\ m.parser.mark = q.parser.mark /\ x = Callback(m, on)
<1> DEFINE m == [q EXCEPT !.parser.at = "end"]
<1>1. x = Callback(m, on)
    BY DEF Consume, Piece
<1>2. Moved(m, q, "end") /\ m.parser.mark = q.parser.mark
    BY DEF Moved, Fielded, SameLine, SameHeaders, SameBody, NewRequest
<1> QED
    BY <1>1, <1>2, Zenon

\* The method.
LEMMA ConsumeMethod ==
    ASSUME NEW q, Fielded(q), ~q.parser.error,
           NEW method, NEW x, x = Consume(q, Piece("method", method))
    PROVE  /\ Fielded(x) /\ SameLine(x, q) /\ SameHeaders(x, q) /\ SameBody(x, q)
           /\ x.part = q.part /\ x.parser.at = "method" /\ x.parser.method = method
           /\ ~x.parser.error /\ x.parser.mark = q.parser.mark
<1> DEFINE r == [q EXCEPT !.parser.at = "method"]
<1>1. x = [r EXCEPT !.parser.method = method]
    BY DEF Consume, Piece
<1>2. Moved(r, q, "method") /\ r.parser.mark = q.parser.mark
    BY DEF Moved, Fielded, SameLine, SameHeaders, SameBody, NewRequest
<1> HIDE DEF r
<1>3. /\ Fielded(x) /\ SameLine(x, r) /\ SameHeaders(x, r) /\ SameBody(x, r)
      /\ x.part = r.part /\ x.parser.at = "method" /\ x.parser.method = method
      /\ x.parser.error = r.parser.error /\ x.parser.mark = r.parser.mark
    BY <1>1, <1>2 DEF Moved, Fielded, SameLine, SameHeaders, SameBody, NewRequest
<1> QED
    BY <1>2, <1>3, Zenon DEF Moved, SameLine, SameHeaders, SameBody

\* The line after the headers, with the length of the body.
LEMMA ConsumeBlank ==
    ASSUME NEW q, Fielded(q), ~q.parser.error, q.parser.at # "start",
           NEW n, NEW x, x = Consume(q, Piece("blank", n))
    PROVE  \E m : /\ Moved(m, q, "blank") /\ m.parser.mark = q.parser.mark
                  /\ m.parser.left = n
                  /\ x = LET h == OnHeadersComplete(m)
                         IN  IF h.parser.error \/ n > 0 THEN h ELSE Complete(h)
<1> DEFINE r == [q EXCEPT !.parser.at = "blank"]
           m == [r EXCEPT !.parser.left = n]
<1>1. x = LET h == OnHeadersComplete(m)
          IN  IF h.parser.error \/ n > 0 THEN h ELSE Complete(h)
    BY DEF Consume, Piece
<1>2. Moved(r, q, "blank") /\ r.parser.mark = q.parser.mark
    BY DEF Moved, Fielded, SameLine, SameHeaders, SameBody, NewRequest
<1>3. Moved(m, r, "blank") /\ m.parser.mark = r.parser.mark /\ m.parser.left = n
    <2> HIDE DEF r
    <2> QED
        BY <1>2 DEF Moved, Fielded, SameLine, SameHeaders, SameBody, NewRequest
<1> HIDE DEF r, m
<1>4. Moved(m, q, "blank") /\ m.parser.mark = q.parser.mark
    BY <1>2, <1>3, Zenon DEF Moved, SameLine, SameHeaders, SameBody
<1> QED
    BY <1>1, <1>3, <1>4, Zenon

\* A piece of the body, and the end of the request after the last.
LEMMA ConsumeBody ==
    ASSUME NEW q, Fielded(q), ~q.parser.error, q.parser.at # "start",
           NEW y, NEW x, x = Consume(q, Piece("body", y))
    PROVE  \E m : /\ Moved(m, q, "body") /\ m.parser.mark = Append(q.parser.mark, y)
                  /\ m.parser.left = q.parser.left - 1
                  /\ x = IF m.parser.left > 0 THEN m ELSE Complete(Callback(m, "body"))
<1> DEFINE r == [q EXCEPT !.parser.at = "body"]
           k == [r EXCEPT !.parser.mark = Append(@, y)]
           m == [k EXCEPT !.parser.left = @ - 1]
<1>1. x = IF m.parser.left > 0 THEN m ELSE Complete(Callback(m, "body"))
    BY DEF Consume, Piece
<1>2. Moved(r, q, "body") /\ r.parser.mark = q.parser.mark /\ r.parser.left = q.parser.left
    BY DEF Moved, Fielded, SameLine, SameHeaders, SameBody, NewRequest
<1>3. Moved(k, r, "body") /\ k.parser.mark = Append(r.parser.mark, y)
      /\ k.parser.left = r.parser.left
    <2> HIDE DEF r
    <2> QED
        BY <1>2 DEF Moved, Fielded, SameLine, SameHeaders, SameBody, NewRequest
<1>4. Moved(m, k, "body") /\ m.parser.mark = k.parser.mark
      /\ m.parser.left = k.parser.left - 1
    <2> HIDE DEF k
    <2> QED
        BY <1>3 DEF Moved, Fielded, SameLine, SameHeaders, SameBody, NewRequest
<1> HIDE DEF r, k, m
<1>5. Moved(m, q, "body")
    BY <1>2, <1>3, <1>4, Zenon DEF Moved, SameLine, SameHeaders, SameBody
<1> QED
    BY <1>1, <1>2, <1>3, <1>4, <1>5, Zenon

\* What is known of a request does not depend on where the parser is.
LEMMA MovedKeeps ==
    ASSUME NEW r, NEW q, NEW at, NEW x, Moved(x, q, at)
    PROVE  /\ Started(q, r) => Started(x, r)
           /\ Steady(q, r) => Steady(x, r)
           /\ Settled(q, r) => Settled(x, r)
           /\ x.parser.mark = q.parser.mark =>
                \A c, a : /\ UrlHas(q, r, c, a) => UrlHas(x, r, c, a)
                          /\ \A i : /\ NameHas(q, r, i, c, a) => NameHas(x, r, i, c, a)
                                    /\ ValueHas(q, r, i, c, a) => ValueHas(x, r, i, c, a)
<1>1. Steady(q, r) => Steady(x, r)
    BY Zenon DEF Moved, Steady, SameBody
<1>2. Line(q, r) => Line(x, r)
    BY Zenon DEF Moved, Line, SameHeaders, SameLine
<1>3. Started(q, r) => Started(x, r)
    BY <1>1, <1>2, Zenon DEF Started, Moved, SameHeaders, SameBody
<1>4. Settled(q, r) => Settled(x, r)
    BY Zenon DEF Moved, Settled, SameHeaders, SameLine
<1>5. ASSUME x.parser.mark = q.parser.mark, NEW c, NEW a
      PROVE  /\ UrlHas(q, r, c, a) => UrlHas(x, r, c, a)
             /\ \A i : /\ NameHas(q, r, i, c, a) => NameHas(x, r, i, c, a)
                       /\ ValueHas(q, r, i, c, a) => ValueHas(x, r, i, c, a)
    <2>1. \A t : Marked(q, t, c, a) => Marked(x, t, c, a)
        BY <1>5, Zenon DEF Marked
    <2>2. x.url = q.url /\ x.fields = q.fields /\ x.values = q.values
          /\ x.last_was_value = q.last_was_value
        BY Zenon DEF Moved, SameLine, SameHeaders
    <2>3. UrlHas(q, r, c, a) => UrlHas(x, r, c, a)
        BY <1>3, <2>1, <2>2, Zenon DEF UrlHas
    <2>4. \A i : NameHas(q, r, i, c, a) => NameHas(x, r, i, c, a)
        BY <1>3, <2>1, <2>2, Zenon DEF NameHas
    <2>5. \A i : ValueHas(q, r, i, c, a) => ValueHas(x, r, i, c, a)
        BY <1>3, <2>1, <2>2, Zenon DEF ValueHas
    <2> QED
        BY <2>3, <2>4, <2>5, Zenon
<1> QED
    BY <1>1, <1>3, <1>4, <1>5, Zenon

\* One more piece of a token is marked.
LEMMA MarkedGrows ==
    ASSUME NEW X, NEW t \in Seq(X), NEW q, NEW c, NEW a, Marked(q, t, c, a), c < Len(t),
           NEW x, x.parser.mark = Append(q.parser.mark, t[c + 1])
    PROVE  Marked(x, t, c + 1, a) /\ c + 1 \in 0..Len(t) /\ a \in 0..(c + 1) /\ c + 1 # 0
<1>1. c \in 0..Len(t) /\ a \in 0..c /\ q.parser.mark = SubSeq(t, a + 1, c)
    BY Zenon DEF Marked
<1>2. Len(t) \in Nat
    OBVIOUS
<1>3. c \in 0..(Len(t) - 1) /\ c + 1 \in 0..Len(t) /\ a \in 0..(c + 1) /\ c + 1 # 0
    BY <1>1, <1>2
<1>4. Append(SubSeq(t, a + 1, c), t[c + 1]) = SubSeq(t, a + 1, c + 1)
    BY <1>1, <1>3, PartGrows
<1> QED
    BY <1>1, <1>3, <1>4, Zenon DEF Marked


\* on_headers_complete, when every name has its value: only a POST without a length
\* fails there.
LEMMA HeadersDone ==
    ASSUME NEW r, IsRequest(r), NEW q, Fielded(q), Started(q, r), q.url = Url(r),
           q.fields = FieldsTo(r, Len(r.headers)), q.values = ValuesTo(r, Len(r.headers)),
           NEW x, x = OnHeadersComplete(q)
    PROVE  /\ Fielded(x)
           /\ IF x.parser.error THEN Refusable(r)
              ELSE /\ Steady(x, r) /\ Settled(x, r) /\ x.body = <<>>
                   /\ x.part = "head_over" /\ x.parser = q.parser
<1> DEFINE n == Len(r.headers)
           y == [q EXCEPT !.headers = AddHeaders(q.fields, q.values), !.part = "head_over"]
           bad == y.method = "POST" /\ ~HasHeader(y, "length")
<1>1. n \in Nat /\ Len(FieldsTo(r, n)) = n /\ Len(ValuesTo(r, n)) = n
    <2>1. n \in Nat
        BY HeaderTexts, Zenon
    <2>2. n \in 0..n
        BY <2>1
    <2> QED
        BY <2>1, <2>2, HeadersGrow, Zenon
<1>2. Len(q.fields) = Len(q.values)
    BY <1>1, Zenon
<1>3. x = IF bad THEN Fails([y EXCEPT !.err = PARSE_LEN_REQUIRED]) ELSE y
    BY <1>2, Zenon DEF OnHeadersComplete
<1>4. /\ Fielded(y) /\ y.parser = q.parser /\ SameLine(y, q) /\ SameBody(y, q)
      /\ y.headers = AddHeaders(q.fields, q.values) /\ y.part = "head_over"
    BY DEF Fielded, SameLine, SameBody, NewRequest
<1> HIDE DEF y
<1>5. y.headers = HeadersOf(r)
    BY <1>4, Zenon DEF HeadersOf
<1>6. Steady(q, r) /\ Line(q, r) /\ q.body = <<>>
    BY Zenon DEF Started
<1>7. y.method = MethodOf(r) /\ y.params = ParamsOf(r)
    <2>1. CASE n = 0
        <3>1. q.fields = <<>>
            BY <1>1, <2>1, HeadersGrow, Zenon
        <3>2. r.headers = <<>>
            <4>1. r.headers \in Seq(STRING \X STRING)
                BY Zenon DEF IsRequest
            <4> QED
                BY <2>1, <4>1
        <3> QED
            BY <1>4, <1>6, <3>1, <3>2, Zenon DEF SameLine, Line, MethodOf, ParamsOf
    <2>2. CASE n # 0
        <3>1. q.fields # <<>>
            <4>1. Len(q.fields) # 0
                BY <1>1, <2>2
            <4> QED
                BY <4>1
        <3>2. r.headers # <<>>
            BY <2>2
        <3> QED
            BY <1>4, <1>6, <3>1, <3>2, Zenon DEF SameLine, Line, MethodOf, ParamsOf
    <2> QED
        BY <2>1, <2>2
<1>8. CASE bad
    <2>1. Fielded(x) /\ x.parser.error
        BY <1>3, <1>4, <1>8 DEF Fielded, Fails, NewRequest
    <2>2. r.method = "POST"
        <3>1. MethodOf(r) = "POST"
            BY <1>7, <1>8, Zenon
        <3> QED
            BY <3>1 DEF MethodOf
    <2>3. ~HasHeader(Gathered(r), "length")
        <3>1. Gathered(r).headers = HeadersOf(r)
            BY DEF Gathered, NewRequest
        <3>2. HasHeader(Gathered(r), "length") = HasHeader(y, "length")
            BY <1>5, <3>1, Zenon DEF HasHeader, GetHeader
        <3> QED
            BY <1>8, <3>2, Zenon
    <2> QED
        BY <2>1, <2>2, <2>3, Zenon DEF Refusable
<1>9. CASE ~bad
    <2>1. x = y
        BY <1>3, <1>9, Zenon
    <2>2. Steady(x, r)
        BY <1>4, <1>6, <2>1, Zenon DEF Steady, SameBody
    <2>3. Settled(x, r)
        BY <1>4, <1>5, <1>7, <2>1, Zenon DEF Settled, SameLine
    <2>4. ~x.parser.error
        BY <2>2, Zenon DEF Steady
    <2> QED
        BY <1>4, <1>6, <2>1, <2>2, <2>3, <2>4, Zenon DEF SameBody
<1> QED
    BY <1>8, <1>9, Zenon

\* What a body is parsed to depends on the headers and the body only.
LEMMA ParsedSame ==
    ASSUME NEW q, NEW x, x.headers = q.headers, x.body = q.body, x.items = q.items,
           x.form = q.form
    PROVE  ParsedBody(x) = ParsedBody(q)
<1>1. GetHeader(x, "type") = GetHeader(q, "type")
    BY Zenon DEF GetHeader
<1> QED
    BY <1>1 DEF ParsedBody

\* on_message_complete: only a body that cannot be parsed fails there.
LEMMA BodyDone ==
    ASSUME NEW r, NEW q, Fielded(q), Steady(q, r), Settled(q, r), q.body = Body(r),
           q.parser.mark = <<>>, NEW x, x = Complete(q)
    PROVE  Fielded(x) /\ IF x.parser.error THEN Refusable(r) ELSE Over(x, r)
<1> DEFINE c == [q EXCEPT !.parser.at = "start"]
           b == ParsedBody(c)
           o == Outcome(r)
           y == [c EXCEPT !.items = b.items, !.form = b.params, !.part = "over"]
<1>1. x = IF b.failed THEN Fails([y EXCEPT !.err = PARSE_MULTIPART_ERR]) ELSE y
    BY Zenon DEF Complete, OnMessageComplete, EndOfMessage
<1>2. /\ Fielded(c) /\ SameLine(c, q) /\ SameHeaders(c, q) /\ SameBody(c, q)
      /\ c.parser.mark = q.parser.mark /\ c.parser.error = q.parser.error
    BY DEF Fielded, SameLine, SameHeaders, SameBody, NewRequest
<1> HIDE DEF c
<1>3. b = o
    <2> DEFINE g == Gathered(r)
    <2>1. g.headers = HeadersOf(r) /\ g.body = Body(r) /\ g.items = <<>> /\ g.form = <<>>
        BY DEF Gathered, NewRequest
    <2>2. c.headers = HeadersOf(r) /\ c.body = Body(r) /\ c.items = <<>> /\ c.form = <<>>
        BY <1>2, Zenon DEF SameHeaders, SameBody, Steady, Settled
    <2> HIDE DEF g
    <2>3. ParsedBody(c) = ParsedBody(g)
        BY <2>1, <2>2, ParsedSame, Zenon
    <2> QED
        BY <2>3, Zenon DEF Outcome, g
<1> HIDE DEF b
<1>4. /\ Fielded(y) /\ SameLine(y, c) /\ SameHeaders(y, c) /\ y.body = c.body
      /\ y.err = c.err /\ y.items = b.items /\ y.form = b.params /\ y.part = "over"
      /\ y.parser = c.parser
    BY <1>2 DEF Fielded, SameLine, SameHeaders, NewRequest
<1> HIDE DEF y, o
<1>5. CASE b.failed
    <2>1. Fielded(x) /\ x.parser.error
        BY <1>1, <1>4, <1>5 DEF Fielded, Fails, NewRequest
    <2> QED
        BY <1>3, <1>5, <2>1, Zenon DEF Refusable, o
<1>6. CASE ~b.failed
    <2>1. x = y
        BY <1>1, <1>6, Zenon
    <2>2. ~x.parser.error
        BY <1>2, <1>4, <2>1, Zenon DEF Steady
    <2>3. Settled(x, r)
        BY <1>2, <1>4, <2>1, Zenon DEF Settled, SameLine, SameHeaders
    <2>4. x.err = 0 /\ x.parser.mark = <<>> /\ x.body = Body(r)
        BY <1>2, <1>4, <2>1, Zenon DEF SameBody, Steady
    <2>5. Over(x, r)
        BY <1>3, <1>4, <2>1, <2>2, <2>3, <2>4, Zenon DEF Over, o
    <2> QED
        BY <1>4, <2>1, <2>2, <2>5, Zenon
<1> QED
    BY <1>5, <1>6

\* After piece j of r: it has gone wrong, or not yet come to its end, or has.
Taken(x, r, j) ==
    /\ Fielded(x)
    /\ IF x.parser.error THEN Refusable(r)
       ELSE Underway(x, r, j) \/ (j = Len(Wire(r)) /\ Over(x, r))

\* Nothing that is under way has failed, nor is it complete.
LEMMA UnderwayIs ==
    ASSUME NEW r, NEW q, NEW j, Underway(q, r, j)
    PROVE  /\ ~q.parser.error /\ q.err = 0 /\ q.part # "over"
           /\ j # 0 => q.parser.at # "start"
<1>1. CASE j = 0 /\ Fresh(q)
    BY <1>1 DEF Fresh
<1>2. CASE AtUrl(q, r, j)
    <2>1. PICK c, a : UrlHas(q, r, c, a) /\ q.parser.at = IF c = 0 THEN "method" ELSE "url"
        BY <1>2, Zenon DEF AtUrl
    <2>2. Steady(q, r) /\ Line(q, r)
        BY <2>1, Zenon DEF UrlHas, Started
    <2> QED
        BY <2>1, <2>2 DEF Steady, Line
<1>3. CASE AtName(q, r, j)
    <2>1. PICK i, c, a : NameHas(q, r, i, c, a)
                         /\ q.parser.at = IF c = 0 THEN "end" ELSE "field"
        BY <1>3, Zenon DEF AtName
    <2>2. Steady(q, r) /\ Line(q, r)
        BY <2>1, Zenon DEF NameHas, Started
    <2> QED
        BY <2>1, <2>2 DEF Steady, Line
<1>4. CASE AtValue(q, r, j)
    <2>1. PICK i, c, a : ValueHas(q, r, i, c, a)
                         /\ q.parser.at = IF c = 0 THEN "end" ELSE "value"
        BY <1>4, Zenon DEF AtValue
    <2>2. Steady(q, r) /\ Line(q, r)
        BY <2>1, Zenon DEF ValueHas, Started
    <2> QED
        BY <2>1, <2>2 DEF Steady, Line
<1>5. CASE AtBody(q, r, j)
    <2>1. PICK c, a : BodyHas(q, r, c, a) /\ q.parser.at = IF c = 0 THEN "blank" ELSE "body"
        BY <1>5, Zenon DEF AtBody
    <2> QED
        BY <2>1 DEF BodyHas, Steady
<1> QED
    BY <1>1, <1>2, <1>3, <1>4, <1>5, Zenon DEF Underway

\* The first piece is the method.
LEMMA TakesMethod ==
    ASSUME NEW r, IsRequest(r), NEW q, Fielded(q), Fresh(q),
           NEW x, x = Consume(q, Wire(r)[1])
    PROVE  Taken(x, r, 1)
<1>1. Wire(r)[1] = Piece("method", r.method)
    BY WireAt, Zenon DEF WireIs
<1>2. ~q.parser.error /\ q.parser.mark = <<>>
    BY Zenon DEF Fresh, Between
<1>3. /\ Fielded(x) /\ SameLine(x, q) /\ SameHeaders(x, q) /\ SameBody(x, q)
      /\ x.part = q.part /\ x.parser.at = "method" /\ x.parser.method = r.method
      /\ ~x.parser.error /\ x.parser.mark = q.parser.mark
    <2>1. x = Consume(q, Piece("method", r.method))
        BY <1>1, Zenon
    <2> QED
        BY <1>2, <2>1, ConsumeMethod
<1>4. Started(x, r)
    <2>1. Steady(x, r)
        BY <1>3, Zenon DEF Steady, Fresh, SameBody
    <2>2. Line(x, r)
        BY <1>3, Zenon DEF Line, Fresh, SameLine, SameHeaders
    <2> QED
        BY <1>3, <2>1, <2>2, Zenon DEF Started, Fresh, SameHeaders, SameBody
<1>5. Url(r) \in Seq(At) /\ 0 \in 0..Len(Url(r)) /\ 0 \in 0..0 /\ 1 = 1 + 0
    BY HeaderTexts
<1>6. SubSeq(Url(r), 1, 0) = <<>> /\ SubSeq(Url(r), 0 + 1, 0) = <<>>
    BY <1>5
<1>7. UrlHas(x, r, 0, 0)
    <2>1. Marked(x, Url(r), 0, 0)
        BY <1>2, <1>3, <1>5, <1>6, Zenon DEF Marked
    <2> QED
        BY <1>3, <1>4, <1>6, <2>1, Zenon DEF UrlHas, Fresh, SameLine, SameHeaders
<1>8. AtUrl(x, r, 1)
    BY <1>3, <1>5, <1>7, Zenon DEF AtUrl
<1> QED
    BY <1>3, <1>8, Zenon DEF Taken, Underway


\* Of the next token nothing is marked.
LEMMA NothingMarked ==
    ASSUME NEW X, NEW t \in Seq(X), NEW x, x.parser.mark = <<>>
    PROVE  /\ Marked(x, t, 0, 0) /\ 0 \in 0..Len(t) /\ 0 \in 0..0
           /\ SubSeq(t, 1, Len(t)) = t
<1>1. 0 \in 0..Len(t) /\ 0 \in 0..0 /\ SubSeq(t, 0 + 1, 0) = <<>> /\ SubSeq(t, 1, Len(t)) = t
    OBVIOUS
<1> QED
    BY <1>1, Zenon DEF Marked

\* A piece of the URL, or the separator after it.
LEMMA TakesUrl ==
    ASSUME NEW r, IsRequest(r), NEW q, Fielded(q), NEW j, AtUrl(q, r, j), NEW p,
           p = Wire(r)[j + 1], NEW x, x = Consume(q, p)
    PROVE  Taken(x, r, j + 1)
<1>0. PICK c \in 0..Len(Url(r)) : \E a \in 0..c :
          /\ j = 1 + c /\ UrlHas(q, r, c, a)
          /\ q.parser.at = IF c = 0 THEN "method" ELSE "url"
    BY Zenon DEF AtUrl
<1>1. PICK a \in 0..c :
          /\ j = 1 + c /\ UrlHas(q, r, c, a)
          /\ q.parser.at = IF c = 0 THEN "method" ELSE "url"
    BY <1>0, Zenon
<1>2. ~q.parser.error /\ q.parser.at # "start"
    BY <1>1 DEF UrlHas, Started, Steady
<1>3. Url(r) \in Seq(At) /\ Len(Url(r)) \in Nat /\ Len(r.headers) \in Nat
    BY HeaderTexts, Zenon
<1>4. CASE c < Len(Url(r))
    <2>1. c + 1 \in 1..Len(Url(r)) /\ j + 1 = 1 + (c + 1)
        BY <1>1, <1>3, <1>4
    <2>2. p = Piece("url", Url(r)[c + 1])
        BY <2>1, WireAt, Zenon DEF WireIs
    <2>3. p.on = "url" /\ p.at = Url(r)[c + 1]
        BY <2>2 DEF Piece
    <2>4. Moved(x, q, "url") /\ x.parser.mark = Append(q.parser.mark, Url(r)[c + 1])
        <3>1. p.on \in {"url", "field", "value"}
            BY <2>3
        <3>2. Moved(x, q, p.on) /\ x.parser.mark = Append(q.parser.mark, p.at)
            BY <1>2, <3>1, ConsumeMarks
        <3> QED
            BY <2>3, <3>2, Zenon
    <2>5. /\ Marked(x, Url(r), c + 1, a) /\ c + 1 \in 0..Len(Url(r)) /\ a \in 0..(c + 1)
          /\ c + 1 # 0
        <3>1. Marked(q, Url(r), c, a)
            BY <1>1, Zenon DEF UrlHas
        <3> QED
            BY <1>3, <1>4, <2>4, <3>1, MarkedGrows, Zenon
    <2>6. UrlHas(x, r, c + 1, a)
        <3>1. Started(x, r)
            BY <1>1, <2>4, MovedKeeps, Zenon DEF UrlHas
        <3> QED
            BY <1>1, <2>4, <2>5, <3>1, Zenon DEF UrlHas, Moved, SameLine, SameHeaders
    <2>7. AtUrl(x, r, j + 1)
        <3>1. x.parser.at = "url"
            BY <2>4, Zenon DEF Moved
        <3> QED
            BY <2>1, <2>5, <2>6, <3>1, Zenon DEF AtUrl
    <2> QED
        BY <1>2, <2>4, <2>7, Zenon DEF Taken, Underway, Moved
<1>5. CASE c = Len(Url(r))
    <2>1. j + 1 = Base(r, 0)
        BY <1>1, <1>3, <1>5, BaseSteps
    <2>2. x = Consume(q, Piece("end", "url"))
        BY <2>1, WireAt, Zenon DEF WireIs
    <2>3. PICK m : Moved(m, q, "end") /\ m.parser.mark = q.parser.mark /\ x = Callback(m, "url")
        BY <1>2, <2>2, ConsumeEnd
    <2>4. UrlHas(m, r, c, a) /\ Fielded(m)
        BY <1>1, <2>3, MovedKeeps, Zenon DEF Moved
    <2>5. Fielded(x) /\ SameParser(x, m) /\ UrlHas(x, r, c, c)
        BY <2>3, <2>4, UrlCalled, Zenon
    <2>6. x.url = Url(r) /\ x.parser.mark = <<>>
        <3>1. x.url = SubSeq(Url(r), 1, Len(Url(r)))
              /\ x.parser.mark = SubSeq(Url(r), Len(Url(r)) + 1, Len(Url(r)))
            BY <1>5, <2>5, Zenon DEF UrlHas, Marked
        <3> QED
            BY <1>3, <3>1
    <2>7. 1 \in Nat \ {0} /\ 1 \in 1..(Len(r.headers) + 1) /\ 1 - 1 = 0
          /\ Base(r, 0) + 0 = Base(r, 0)
        <3>1. Base(r, 0) \in Nat
            BY <1>3, BaseSteps
        <3> QED
            BY <1>3, <3>1
    <2>8. /\ Marked(x, NameOf(r, 1), 0, 0) /\ 0 \in 0..Len(NameOf(r, 1)) /\ 0 \in 0..0
        <3>1. NameOf(r, 1) \in Seq(At)
            BY <2>7, HeaderTexts, Zenon
        <3> QED
            BY <2>6, <3>1, NothingMarked, Zenon
    <2>9. NameHas(x, r, 1, 0, 0)
        <3>1. FieldsTo(r, 0) = <<>> /\ ValuesTo(r, 0) = <<>>
            BY HeadersGrow, Zenon
        <3>2. /\ Started(x, r) /\ x.fields = <<>> /\ x.values = <<>> /\ x.last_was_value
            BY <2>5, Zenon DEF UrlHas
        <3> QED
            BY <2>6, <2>7, <2>8, <3>1, <3>2, Zenon DEF NameHas
    <2>10. x.parser.at = "end" /\ ~x.parser.error
        BY <2>3, <2>5, Zenon DEF Moved, SameParser, UrlHas, Started, Steady
    <2>11. AtName(x, r, j + 1)
        BY <2>1, <2>7, <2>8, <2>9, <2>10, Zenon DEF AtName
    <2> QED
        BY <2>5, <2>10, <2>11, Zenon DEF Taken, Underway
<1> QED
    BY <1>1, <1>3, <1>4, <1>5

\* A piece of the name of a header, or the separator after it.
LEMMA TakesName ==
    ASSUME NEW r, IsRequest(r), NEW q, Fielded(q), NEW i \in 1..Len(r.headers),
           NEW c \in 0..Len(NameOf(r, i)), NEW a \in 0..c,
           NEW j, j = Base(r, i - 1) + c, NameHas(q, r, i, c, a),
           q.parser.at = IF c = 0 THEN "end" ELSE "field", NEW p, p = Wire(r)[j + 1],
           NEW x, x = Consume(q, p)
    PROVE  Taken(x, r, j + 1)
<1> DEFINE t == NameOf(r, i)
<1>1. ~q.parser.error /\ q.parser.at # "start"
    <2>1. ~q.parser.error
        BY Zenon DEF NameHas, Started, Steady
    <2> QED
        BY <2>1
<1>2. Len(r.headers) \in Nat /\ i \in Nat \ {0} /\ i - 1 \in 0..Len(r.headers)
      /\ i \in 1..(Len(r.headers) + 1)
    <2>1. Len(r.headers) \in Nat
        BY HeaderTexts, Zenon
    <2> QED
        BY <2>1
<1>3. t \in Seq(At) /\ Len(t) \in Nat /\ Base(r, i - 1) \in Nat
    BY <1>2, HeaderTexts, BaseSteps, Zenon
<1>4. HeaderAt(r, i)
    BY WireAt, Zenon DEF WireIs
<1>5. CASE c < Len(t)
    <2>1. c + 1 \in 1..Len(t) /\ j + 1 = Base(r, i - 1) + (c + 1)
        BY <1>3, <1>5
    <2>2. p = Piece("field", t[c + 1])
        BY <1>4, <2>1, Zenon DEF HeaderAt
    <2>3. p.on = "field" /\ p.at = t[c + 1]
        BY <2>2 DEF Piece
    <2>4. Moved(x, q, "field") /\ x.parser.mark = Append(q.parser.mark, t[c + 1])
        <3>1. p.on \in {"url", "field", "value"}
            BY <2>3
        <3>2. Moved(x, q, p.on) /\ x.parser.mark = Append(q.parser.mark, p.at)
            BY <1>1, <3>1, ConsumeMarks
        <3> QED
            BY <2>3, <3>2, Zenon
    <2>5. /\ Marked(x, t, c + 1, a) /\ c + 1 \in 0..Len(t) /\ a \in 0..(c + 1)
          /\ c + 1 # 0
        <3>1. Marked(q, t, c, a)
            BY Zenon DEF NameHas
        <3> HIDE DEF t
        <3> QED
            BY <1>3, <1>5, <2>4, <3>1, MarkedGrows, Zenon
    <2>6. NameHas(x, r, i, c + 1, a)
        <3>1. Started(x, r)
            BY <2>4, MovedKeeps, Zenon DEF NameHas
        <3> QED
            BY <2>4, <2>5, <3>1, Zenon DEF NameHas, Moved, SameLine, SameHeaders
    <2>7. AtName(x, r, j + 1)
        <3>1. x.parser.at = "field"
            BY <2>4, Zenon DEF Moved
        <3> QED
            BY <1>2, <2>1, <2>5, <2>6, <3>1, Zenon DEF AtName
    <2> QED
        BY <1>1, <2>4, <2>7, Zenon DEF Taken, Underway, Moved
<1>6. CASE c = Len(t)
    <2>1. j + 1 = Base(r, i - 1) + Len(t) + 1 + 0 /\ j + 1 = Base(r, i - 1) + Len(t) + 1
        BY <1>3, <1>6
    <2>2. x = Consume(q, Piece("end", "field"))
        BY <1>4, <2>1, Zenon DEF HeaderAt
    <2>3. PICK m : Moved(m, q, "end") /\ m.parser.mark = q.parser.mark
                   /\ x = Callback(m, "field")
        BY <1>1, <2>2, ConsumeEnd
    <2>4. NameHas(m, r, i, c, a) /\ Fielded(m)
        BY <2>3, MovedKeeps, Zenon DEF Moved
    <2>5. Fielded(x) /\ SameParser(x, m) /\ NameKnown(x, r, i, c)
        BY <2>3, <2>4, NameCalled, Zenon
    <2>6. x.fields = FieldsTo(r, i)
        <3>1. x.fields = Append(FieldsTo(r, i - 1), SubSeq(t, 1, Len(t)))
            BY <1>6, <2>5, Zenon DEF NameKnown
        <3>2. SubSeq(t, 1, Len(t)) = t
            BY <1>3
        <3> QED
            BY <3>1, <3>2, HeadersGrow, Zenon
    <2>7. /\ Marked(x, ValueOf(r, i), 0, 0) /\ 0 \in 0..Len(ValueOf(r, i)) /\ 0 \in 0..0
        <3>1. ValueOf(r, i) \in Seq(At)
            BY <1>2, HeaderTexts, Zenon
        <3> QED
            BY <2>5, <3>1, NothingMarked, Zenon DEF NameKnown
    <2>8. ValueHas(x, r, i, 0, 0)
        BY <2>5, <2>6, <2>7, Zenon DEF NameKnown, ValueHas
    <2>9. x.parser.at = "end" /\ ~x.parser.error
        BY <2>3, <2>5, Zenon DEF Moved, SameParser, NameKnown, Started, Steady
    <2>10. AtValue(x, r, j + 1)
        BY <2>1, <2>7, <2>8, <2>9, Zenon DEF AtValue
    <2> QED
        BY <2>5, <2>9, <2>10, Zenon DEF Taken, Underway
<1> QED
    BY <1>3, <1>5, <1>6

\* A piece of the value of a header, or the separator after it.
LEMMA TakesValue ==
    ASSUME NEW r, IsRequest(r), NEW q, Fielded(q), NEW i \in 1..Len(r.headers),
           NEW c \in 0..Len(ValueOf(r, i)), NEW a \in 0..c,
           NEW j, j = Base(r, i - 1) + Len(NameOf(r, i)) + 1 + c, ValueHas(q, r, i, c, a),
           q.parser.at = IF c = 0 THEN "end" ELSE "value", NEW p, p = Wire(r)[j + 1],
           NEW x, x = Consume(q, p)
    PROVE  Taken(x, r, j + 1)
<1> DEFINE t == ValueOf(r, i)
           b == Base(r, i - 1) + Len(NameOf(r, i)) + 1
<1>1. ~q.parser.error /\ q.parser.at # "start"
    <2>1. ~q.parser.error
        BY Zenon DEF ValueHas, Started, Steady
    <2> QED
        BY <2>1
<1>2. /\ Len(r.headers) \in Nat /\ i \in Nat \ {0} /\ i - 1 \in 0..Len(r.headers)
      /\ i + 1 \in 1..(Len(r.headers) + 1) /\ (i + 1) - 1 = i /\ i \in 0..Len(r.headers)
      /\ i + 1 \in Nat \ {0}
    <2>1. Len(r.headers) \in Nat
        BY HeaderTexts, Zenon
    <2> QED
        BY <2>1
<1>3. /\ t \in Seq(At) /\ Len(t) \in Nat /\ Base(r, i - 1) \in Nat /\ Base(r, i) \in Nat
      /\ Len(NameOf(r, i)) \in Nat
      /\ Base(r, i) = Base(r, i - 1) + Len(NameOf(r, i)) + Len(t) + 2
    BY <1>2, HeaderTexts, BaseSteps, Zenon
<1>4. HeaderAt(r, i)
    BY WireAt, Zenon DEF WireIs
<1>5. CASE c < Len(t)
    <2>1. c + 1 \in 1..Len(t) /\ j + 1 = b + (c + 1)
        BY <1>3, <1>5
    <2>2. p = Piece("value", t[c + 1])
        BY <1>4, <2>1, Zenon DEF HeaderAt
    <2>3. p.on = "value" /\ p.at = t[c + 1]
        BY <2>2 DEF Piece
    <2>4. Moved(x, q, "value") /\ x.parser.mark = Append(q.parser.mark, t[c + 1])
        <3>1. p.on \in {"url", "field", "value"}
            BY <2>3
        <3>2. Moved(x, q, p.on) /\ x.parser.mark = Append(q.parser.mark, p.at)
            BY <1>1, <3>1, ConsumeMarks
        <3> QED
            BY <2>3, <3>2, Zenon
    <2>5. /\ Marked(x, t, c + 1, a) /\ c + 1 \in 0..Len(t) /\ a \in 0..(c + 1)
          /\ c + 1 # 0
        <3>1. Marked(q, t, c, a)
            BY Zenon DEF ValueHas
        <3> HIDE DEF t
        <3> QED
            BY <1>3, <1>5, <2>4, <3>1, MarkedGrows, Zenon
    <2>6. ValueHas(x, r, i, c + 1, a)
        <3>1. Started(x, r)
            BY <2>4, MovedKeeps, Zenon DEF ValueHas
        <3> QED
            BY <2>4, <2>5, <3>1, Zenon DEF ValueHas, Moved, SameLine, SameHeaders
    <2>7. AtValue(x, r, j + 1)
        <3>1. x.parser.at = "value"
            BY <2>4, Zenon DEF Moved
        <3> QED
            BY <2>1, <2>5, <2>6, <3>1, Zenon DEF AtValue
    <2> QED
        BY <1>1, <2>4, <2>7, Zenon DEF Taken, Underway, Moved
<1>6. CASE c = Len(t)
    <2>1. j + 1 = Base(r, i) /\ Base(r, i) + 0 = Base(r, i)
        BY <1>3, <1>6
    <2>2. x = Consume(q, Piece("end", "value"))
        BY <1>4, <2>1, Zenon DEF HeaderAt
    <2>3. PICK m : Moved(m, q, "end") /\ m.parser.mark = q.parser.mark
                   /\ x = Callback(m, "value")
        BY <1>1, <2>2, ConsumeEnd
    <2>4. ValueHas(m, r, i, c, a) /\ Fielded(m)
        BY <2>3, MovedKeeps, Zenon DEF Moved
    <2>5. Fielded(x) /\ SameParser(x, m) /\ ValueKnown(x, r, i, c)
        BY <2>3, <2>4, ValueCalled, Zenon
    <2>6. x.values = ValuesTo(r, i)
        <3>1. x.values = Append(ValuesTo(r, i - 1), SubSeq(t, 1, Len(t)))
            BY <1>6, <2>5, Zenon DEF ValueKnown
        <3>2. SubSeq(t, 1, Len(t)) = t
            BY <1>3
        <3> QED
            BY <3>1, <3>2, HeadersGrow, Zenon
    <2>7. /\ Marked(x, NameOf(r, i + 1), 0, 0) /\ 0 \in 0..Len(NameOf(r, i + 1))
          /\ 0 \in 0..0
        <3>1. NameOf(r, i + 1) \in Seq(At)
            BY <1>2, HeaderTexts, Zenon
        <3> QED
            BY <2>5, <3>1, NothingMarked, Zenon DEF ValueKnown
    <2>8. NameHas(x, r, i + 1, 0, 0)
        BY <1>2, <2>5, <2>6, <2>7, Zenon DEF ValueKnown, NameHas
    <2>9. x.parser.at = "end" /\ ~x.parser.error
        BY <2>3, <2>5, Zenon DEF Moved, SameParser, ValueKnown, Started, Steady
    <2>10. AtName(x, r, j + 1)
        BY <1>2, <2>1, <2>7, <2>8, <2>9, Zenon DEF AtName
    <2> QED
        BY <2>5, <2>9, <2>10, Zenon DEF Taken, Underway
<1> QED
    BY <1>3, <1>5, <1>6


\* A request's body is a sequence.
LEMMA BodyIs ==
    ASSUME NEW r, IsRequest(r)
    PROVE  /\ Body(r) \in Seq(ToSet(Body(r))) /\ Len(Body(r)) \in Nat
           /\ Len(Body(r)) = 0 => Body(r) = <<>>
<1>1. Body(r) \in Seq(ToSet(Body(r)))
    <2>1. PICK X : Body(r) \in Seq(X)
        BY BodyType, Zenon
    <2> QED
        BY <2>1 DEF ToSet
<1> QED
    BY <1>1

\* The line after the headers: with no body to come it ends the request.
LEMMA TakesBlank ==
    ASSUME NEW r, IsRequest(r), NEW q, Fielded(q), NEW j, j = Base(r, Len(r.headers)),
           NameHas(q, r, Len(r.headers) + 1, 0, 0), q.parser.at = "end",
           NEW p, p = Wire(r)[j + 1], NEW x, x = Consume(q, p)
    PROVE  Taken(x, r, j + 1)
<1> DEFINE n == Len(r.headers)
           b == Len(Body(r))
<1>1. n \in Nat /\ (n + 1) - 1 = n /\ n + 1 > Len(r.headers) /\ n \in 0..n
    <2>1. n \in Nat
        BY HeaderTexts, Zenon
    <2> QED
        BY <2>1
<1>2. /\ Body(r) \in Seq(ToSet(Body(r))) /\ b \in Nat
      /\ b = 0 => Body(r) = <<>>
      /\ Base(r, n) \in Nat /\ Len(Wire(r)) = Base(r, n) + 1 + b
    <2>1. Base(r, n) \in Nat /\ Len(Wire(r)) = Base(r, n) + 1 + b
        BY <1>1, BaseSteps, WireAt, Zenon DEF WireIs
    <2> QED
        BY <2>1, BodyIs, Zenon
<1>3. ~q.parser.error /\ q.parser.at # "start"
    <2>1. ~q.parser.error
        BY Zenon DEF NameHas, Started, Steady
    <2> QED
        BY <2>1
<1>4. x = Consume(q, Piece("blank", b))
    <2>1. p = Piece("blank", b)
        BY WireAt, Zenon DEF WireIs
    <2> QED
        BY <2>1
<1>5. PICK m : /\ Moved(m, q, "blank") /\ m.parser.mark = q.parser.mark
               /\ m.parser.left = b
               /\ x = LET h == OnHeadersComplete(m)
                      IN  IF h.parser.error \/ b > 0 THEN h ELSE Complete(h)
    BY <1>3, <1>4, ConsumeBlank
<1>6. /\ Fielded(m) /\ Started(m, r) /\ m.url = Url(r) /\ m.parser.mark = <<>>
      /\ m.fields = FieldsTo(r, n) /\ m.values = ValuesTo(r, n)
    <2>1. Fielded(m) /\ NameHas(m, r, n + 1, 0, 0)
        BY <1>5, MovedKeeps, Zenon DEF Moved
    <2>2. m.last_was_value
        <3>1. ~(0 > 0)
            OBVIOUS
        <3> QED
            BY <2>1, <3>1, Zenon DEF NameHas
    <2>3. NameOf(r, n + 1) = <<>> /\ SubSeq(<<>>, 0 + 1, 0) = <<>>
        BY <1>1 DEF NameOf
    <2>4. m.fields = FieldsTo(r, n) /\ m.values = ValuesTo(r, n)
        BY <1>1, <2>1, <2>2, Zenon DEF NameHas
    <2> QED
        BY <2>1, <2>3, <2>4, Zenon DEF NameHas, Marked
<1> DEFINE h == OnHeadersComplete(m)
<1>7. /\ Fielded(h)
      /\ IF h.parser.error THEN Refusable(r)
         ELSE /\ Steady(h, r) /\ Settled(h, r) /\ h.body = <<>>
              /\ h.part = "head_over" /\ h.parser = m.parser
    BY <1>6, HeadersDone, Zenon
<1>8. x = IF h.parser.error \/ b > 0 THEN h ELSE Complete(h)
    BY <1>5, Zenon
<1> HIDE DEF h
<1>9. CASE h.parser.error
    <2>1. x = h
        BY <1>8, <1>9, Zenon
    <2> QED
        BY <1>7, <1>9, <2>1, Zenon DEF Taken
<1>10. CASE ~h.parser.error /\ b > 0
    <2>1. x = h
        BY <1>8, <1>10, Zenon
    <2>2. h.parser.mark = <<>> /\ h.parser.left = b /\ h.parser.at = "blank"
        BY <1>5, <1>6, <1>7, <1>10, Zenon DEF Moved
    <2>3. /\ Marked(h, Body(r), 0, 0) /\ 0 \in 0..b /\ 0 \in 0..0
        BY <1>2, <2>2, NothingMarked, Zenon
    <2>4. SubSeq(Body(r), 1, 0) = <<>> /\ 0 < b /\ b = b - 0 /\ j + 1 = Base(r, n) + 1 + 0
        <3> HIDE DEF b
        <3>1. SubSeq(Body(r), 1, 0) = <<>>
            BY <1>2
        <3> QED
            BY <1>2, <1>10, <3>1
    <2>5. BodyHas(h, r, 0, 0)
        <3>1. h.part \in {"head_over", "body"}
            BY <1>7, <1>10
        <3> QED
            BY <1>7, <1>10, <2>2, <2>3, <2>4, <3>1, Zenon DEF BodyHas
    <2>6. AtBody(h, r, j + 1)
        BY <2>2, <2>3, <2>4, <2>5, Zenon DEF AtBody
    <2> QED
        BY <1>7, <1>10, <2>1, <2>6, Zenon DEF Taken, Underway
<1>11. CASE ~h.parser.error /\ ~(b > 0)
    <2>1. x = Complete(h) /\ h.parser.mark = <<>>
        BY <1>6, <1>7, <1>8, <1>11, Zenon
    <2>2. b = 0
        <3> HIDE DEF b
        <3> QED
            BY <1>2, <1>11
    <2>3. h.body = Body(r)
        BY <1>2, <1>7, <1>11, <2>2, Zenon
    <2>4. Fielded(x) /\ IF x.parser.error THEN Refusable(r) ELSE Over(x, r)
        BY <1>7, <1>11, <2>1, <2>3, BodyDone, Zenon
    <2>5. j + 1 = Len(Wire(r))
        <3> HIDE DEF b
        <3> QED
            BY <1>2, <2>2
    <2> QED
        BY <2>4, <2>5, Zenon DEF Taken
<1> QED
    BY <1>9, <1>10, <1>11, Zenon

\* A piece of the body: the last one ends the request.
LEMMA TakesBody ==
    ASSUME NEW r, IsRequest(r), NEW q, Fielded(q), NEW c \in 0..Len(Body(r)), NEW a \in 0..c,
           NEW j, j = Base(r, Len(r.headers)) + 1 + c, BodyHas(q, r, c, a),
           q.parser.at = IF c = 0 THEN "blank" ELSE "body", NEW p, p = Wire(r)[j + 1],
           NEW x, x = Consume(q, p)
    PROVE  Taken(x, r, j + 1)
<1> DEFINE t == Body(r)
           b == Len(t)
           blank == Base(r, Len(r.headers)) + 1
<1>1. /\ t \in Seq(ToSet(t)) /\ b \in Nat /\ blank \in Nat /\ Len(Wire(r)) = blank + b
    <2>1. Len(r.headers) \in Nat /\ t \in Seq(ToSet(t)) /\ b \in Nat
        BY HeaderTexts, BodyIs, Zenon
    <2>2. Len(r.headers) \in 0..Len(r.headers)
        BY <2>1
    <2>3. Base(r, Len(r.headers)) \in Nat /\ Len(Wire(r)) = blank + b
        BY <2>2, BaseSteps, WireAt, Zenon DEF WireIs
    <2> QED
        BY <2>1, <2>3
<1>2. ~q.parser.error /\ q.parser.at # "start"
    <2>1. ~q.parser.error
        BY Zenon DEF BodyHas, Steady
    <2> QED
        BY <2>1
<1>3. c < b /\ c + 1 \in 1..b /\ c + 1 \in 0..b /\ j + 1 = blank + (c + 1)
    <2>1. c < b
        BY Zenon DEF BodyHas
    <2> HIDE DEF b, blank
    <2>2. j = blank + c
        BY Zenon DEF blank
    <2> QED
        BY <1>1, <2>1, <2>2
<1>4. x = Consume(q, Piece("body", t[c + 1]))
    <2>1. p = Piece("body", t[c + 1])
        BY <1>3, WireAt, Zenon DEF WireIs
    <2> QED
        BY <2>1
<1>5. PICK m : /\ Moved(m, q, "body") /\ m.parser.mark = Append(q.parser.mark, t[c + 1])
               /\ m.parser.left = q.parser.left - 1
               /\ x = IF m.parser.left > 0 THEN m ELSE Complete(Callback(m, "body"))
    BY <1>2, <1>4, ConsumeBody
<1>6. /\ Marked(m, t, c + 1, a) /\ a \in 0..(c + 1) /\ c + 1 # 0
    <2>1. Marked(q, t, c, a)
        BY Zenon DEF BodyHas
    <2> HIDE DEF t
    <2> QED
        BY <1>1, <1>3, <1>5, <2>1, MarkedGrows, Zenon
<1>7. /\ Fielded(m) /\ Steady(m, r) /\ Settled(m, r) /\ m.body = SubSeq(t, 1, a)
      /\ m.part \in {"head_over", "body"} /\ m.parser.at = "body"
    <2>1. Steady(m, r) /\ Settled(m, r)
        BY <1>5, MovedKeeps, Zenon DEF BodyHas
    <2> QED
        BY <1>5, <2>1, Zenon DEF BodyHas, Moved, SameBody
<1>8. m.parser.left = b - (c + 1)
    <2>1. q.parser.left = b - c
        BY Zenon DEF BodyHas
    <2> HIDE DEF b
    <2> QED
        BY <1>1, <1>5, <2>1
<1>9. CASE m.parser.left > 0
    <2>1. x = m
        BY <1>5, <1>9, Zenon
    <2>2. c + 1 < b
        <3> HIDE DEF b
        <3> QED
            BY <1>1, <1>8, <1>9
    <2>3. BodyHas(m, r, c + 1, a)
        BY <1>6, <1>7, <1>8, <2>2, Zenon DEF BodyHas
    <2>4. AtBody(m, r, j + 1)
        BY <1>3, <1>6, <1>7, <2>3, Zenon DEF AtBody
    <2> QED
        BY <1>7, <2>1, <2>4, Zenon DEF Taken, Underway, Steady
<1>10. CASE ~(m.parser.left > 0)
    <2> DEFINE y == Callback(m, "body")
    <2>1. x = Complete(y)
        BY <1>5, <1>10, Zenon
    <2>2. c + 1 = b /\ j + 1 = Len(Wire(r))
        <3> HIDE DEF b, blank
        <3> QED
            BY <1>1, <1>3, <1>8, <1>10
    <2>3. Fielded(y) /\ BodyKnown(y, r, c + 1)
        <3>1. BodyTaken(m, r, c + 1, a)
            BY <1>6, <1>7, Zenon DEF BodyTaken
        <3> QED
            BY <1>7, <3>1, BodyCalled, Zenon
    <2> HIDE DEF y
    <2>4. y.body = Body(r)
        <3>1. y.body = SubSeq(t, 1, b)
            BY <2>2, <2>3, Zenon DEF BodyKnown
        <3>2. SubSeq(t, 1, b) = t
            BY <1>1
        <3> QED
            BY <3>1, <3>2, Zenon
    <2>5. Fielded(x) /\ IF x.parser.error THEN Refusable(r) ELSE Over(x, r)
        BY <2>1, <2>3, <2>4, BodyDone, Zenon DEF BodyKnown
    <2> QED
        BY <2>2, <2>5, Zenon DEF Taken
<1> QED
    BY <1>9, <1>10, Zenon

\* Any piece of a request.
LEMMA Takes ==
    ASSUME NEW r, IsRequest(r), NEW q, Fielded(q), NEW j, Underway(q, r, j),
           NEW x, x = Consume(q, Wire(r)[j + 1])
    PROVE  Taken(x, r, j + 1)
<1>1. CASE j = 0 /\ Fresh(q)
    <2>1. x = Consume(q, Wire(r)[1]) /\ j + 1 = 1
        <3>1. j + 1 = 1
            BY <1>1
        <3> QED
            BY <3>1
    <2> QED
        BY <1>1, <2>1, TakesMethod
<1>2. CASE AtUrl(q, r, j)
    BY <1>2, TakesUrl
<1>3. CASE AtName(q, r, j)
    <2>1. PICK i \in 1..(Len(r.headers) + 1) : \E c \in 0..Len(NameOf(r, i)) : \E a \in 0..c :
              /\ j = Base(r, i - 1) + c /\ NameHas(q, r, i, c, a)
              /\ q.parser.at = IF c = 0 THEN "end" ELSE "field"
        BY <1>3, Zenon DEF AtName
    <2>2. PICK c \in 0..Len(NameOf(r, i)) : \E a \in 0..c :
              /\ j = Base(r, i - 1) + c /\ NameHas(q, r, i, c, a)
              /\ q.parser.at = IF c = 0 THEN "end" ELSE "field"
        BY <2>1, Zenon
    <2>3. PICK a \in 0..c :
              /\ j = Base(r, i - 1) + c /\ NameHas(q, r, i, c, a)
              /\ q.parser.at = IF c = 0 THEN "end" ELSE "field"
        BY <2>2, Zenon
    <2>4. Len(r.headers) \in Nat
        BY HeaderTexts, Zenon
    <2>5. CASE i \in 1..Len(r.headers)
        BY <2>3, <2>5, TakesName
    <2>6. CASE i = Len(r.headers) + 1
        <3>1. NameOf(r, i) = <<>>
            BY <2>4, <2>6 DEF NameOf
        <3>2. c = 0 /\ a = 0 /\ i - 1 = Len(r.headers)
            BY <2>4, <2>6, <3>1
        <3>3. j = Base(r, Len(r.headers))
            <4>1. Base(r, Len(r.headers)) \in Nat
                <5>1. Len(r.headers) \in 0..Len(r.headers)
                    BY <2>4
                <5> QED
                    BY <5>1, BaseSteps, Zenon
            <4>2. j = Base(r, Len(r.headers)) + 0
                BY <2>3, <3>2, Zenon
            <4> QED
                BY <4>1, <4>2
        <3>4. NameHas(q, r, Len(r.headers) + 1, 0, 0) /\ q.parser.at = "end"
            BY <2>3, <2>6, <3>2, Zenon
        <3> QED
            BY <3>3, <3>4, TakesBlank
    <2> QED
        BY <2>4, <2>5, <2>6
<1>4. CASE AtValue(q, r, j)
    <2>1. PICK i \in 1..Len(r.headers) : \E c \in 0..Len(ValueOf(r, i)) : \E a \in 0..c :
              /\ j = Base(r, i - 1) + Len(NameOf(r, i)) + 1 + c /\ ValueHas(q, r, i, c, a)
              /\ q.parser.at = IF c = 0 THEN "end" ELSE "value"
        BY <1>4, Zenon DEF AtValue
    <2>2. PICK c \in 0..Len(ValueOf(r, i)) : \E a \in 0..c :
              /\ j = Base(r, i - 1) + Len(NameOf(r, i)) + 1 + c /\ ValueHas(q, r, i, c, a)
              /\ q.parser.at = IF c = 0 THEN "end" ELSE "value"
        BY <2>1, Zenon
    <2>3. PICK a \in 0..c :
              /\ j = Base(r, i - 1) + Len(NameOf(r, i)) + 1 + c /\ ValueHas(q, r, i, c, a)
              /\ q.parser.at = IF c = 0 THEN "end" ELSE "value"
        BY <2>2, Zenon
    <2> QED
        BY <2>3, TakesValue
<1>5. CASE AtBody(q, r, j)
    <2>1. PICK c \in 0..Len(Body(r)) : \E a \in 0..c :
              /\ j = Base(r, Len(r.headers)) + 1 + c /\ BodyHas(q, r, c, a)
              /\ q.parser.at = IF c = 0 THEN "blank" ELSE "body"
        BY <1>5, Zenon DEF AtBody
    <2>2. PICK a \in 0..c :
              /\ j = Base(r, Len(r.headers)) + 1 + c /\ BodyHas(q, r, c, a)
              /\ q.parser.at = IF c = 0 THEN "blank" ELSE "body"
        BY <2>1, Zenon
    <2> QED
        BY <2>2, TakesBody
<1> QED
    BY <1>1, <1>2, <1>3, <1>4, <1>5, Zenon DEF Underway


\* What is under way is not whole.
LEMMA UnderwayShort ==
    ASSUME NEW r, IsRequest(r), NEW q, NEW j, Underway(q, r, j)
    PROVE  j \in Nat /\ j < Len(Wire(r)) /\ Len(Wire(r)) \in Nat
<1> DEFINE n == Len(r.headers)
           b == Len(Body(r))
           w == Len(Wire(r))
           end == Base(r, n)
<1>1. n \in Nat /\ n \in 0..n /\ b \in Nat /\ Len(Url(r)) \in Nat
    <2>1. n \in Nat
        BY HeaderTexts, Zenon
    <2>2. n \in 0..n
        BY <2>1
    <2> QED
        BY <2>1, <2>2, BodyIs, HeaderTexts, Zenon
<1>2. end \in Nat /\ w = end + 1 + b
    BY <1>1, BaseSteps, WireAt, Zenon DEF WireIs
<1>3. ASSUME NEW i \in 0..n PROVE Base(r, i) \in Nat /\ Base(r, i) <= end
    <2>1. /\ HeaderPieces(r) \in Seq(Seq(HeadPieces)) /\ Len(HeaderPieces(r)) = n
          /\ Base(r, i) \in Nat
        BY BaseSteps, Zenon
    <2>2. n \in i..Len(HeaderPieces(r)) /\ i \in 0..Len(HeaderPieces(r))
        BY <1>1, <2>1
    <2>3. /\ Upto(HeaderPieces(r), i) <= Upto(HeaderPieces(r), n)
          /\ Upto(HeaderPieces(r), i) \in Nat /\ Upto(HeaderPieces(r), n) \in Nat
        BY <1>1, <2>1, <2>2, UptoMonotone, UptoSteps, Zenon
    <2>4. Len(Url(r)) + 2 + Upto(HeaderPieces(r), i) <= Len(Url(r)) + 2 + Upto(HeaderPieces(r), n)
        BY <1>1, <2>3
    <2> QED
        BY <2>1, <2>4, Zenon DEF Base
<1>4. Base(r, 0) = Len(Url(r)) + 2
    BY BaseSteps, Zenon
<1> HIDE DEF n, b, w, end
<1>5. CASE j = 0 /\ Fresh(q)
    BY <1>1, <1>2, <1>5 DEF w
<1>6. CASE AtUrl(q, r, j)
    <2>1. PICK c \in 0..Len(Url(r)) : j = 1 + c
        BY <1>6, Zenon DEF AtUrl
    <2>2. Base(r, 0) <= end
        BY <1>1, <1>3
    <2> QED
        BY <1>1, <1>2, <1>4, <2>1, <2>2 DEF w
<1>7. CASE AtName(q, r, j)
    <2>1. PICK i \in 1..(n + 1) : \E c \in 0..Len(NameOf(r, i)) : j = Base(r, i - 1) + c
        BY <1>7, Zenon DEF AtName, n
    <2>2. PICK c \in 0..Len(NameOf(r, i)) : j = Base(r, i - 1) + c
        BY <2>1, Zenon
    <2>3. i - 1 \in 0..n /\ (i \in 1..n \/ i = n + 1)
        BY <1>1
    <2>4. Base(r, i - 1) \in Nat /\ Base(r, i - 1) <= end
        BY <1>3, <2>3, Zenon
    <2>5. CASE i \in 1..n
        <3>1. i \in 0..n /\ i \in Nat \ {0}
            BY <1>1, <2>5
        <3>2. /\ Base(r, i) = Base(r, i - 1) + Len(NameOf(r, i)) + Len(ValueOf(r, i)) + 2
              /\ Len(NameOf(r, i)) \in Nat /\ Len(ValueOf(r, i)) \in Nat
            BY <2>5, <3>1, BaseSteps, HeaderTexts, Zenon DEF n
        <3>3. Base(r, i) \in Nat /\ Base(r, i) <= end
            BY <1>3, <3>1, Zenon
        <3> QED
            BY <1>1, <1>2, <2>2, <2>4, <3>2, <3>3 DEF w
    <2>6. CASE i = n + 1
        <3>1. NameOf(r, i) = <<>>
            BY <1>1, <2>6 DEF NameOf, n
        <3>2. c = 0
            BY <3>1
        <3> QED
            BY <1>1, <1>2, <2>2, <2>4, <3>2 DEF w
    <2> QED
        BY <2>3, <2>5, <2>6
<1>8. CASE AtValue(q, r, j)
    <2>1. PICK i \in 1..n : \E c \in 0..Len(ValueOf(r, i)) :
              j = Base(r, i - 1) + Len(NameOf(r, i)) + 1 + c
        BY <1>8, Zenon DEF AtValue, n
    <2>2. PICK c \in 0..Len(ValueOf(r, i)) : j = Base(r, i - 1) + Len(NameOf(r, i)) + 1 + c
        BY <2>1, Zenon
    <2>3. i \in 0..n /\ i - 1 \in 0..n /\ i \in Nat \ {0}
        BY <1>1
    <2>4. /\ Base(r, i) = Base(r, i - 1) + Len(NameOf(r, i)) + Len(ValueOf(r, i)) + 2
          /\ Len(NameOf(r, i)) \in Nat /\ Len(ValueOf(r, i)) \in Nat
        BY <2>3, BaseSteps, HeaderTexts, Zenon DEF n
    <2>5. /\ Base(r, i) \in Nat /\ Base(r, i) <= end /\ Base(r, i - 1) \in Nat
        BY <1>3, <2>3, Zenon
    <2> QED
        BY <1>1, <1>2, <2>2, <2>4, <2>5 DEF w
<1>9. CASE AtBody(q, r, j)
    <2>1. PICK c \in 0..b : j = end + 1 + c /\ c < b
        BY <1>9, Zenon DEF AtBody, BodyHas, b, end, n
    <2> QED
        BY <1>1, <1>2, <2>1 DEF w
<1> QED
    BY <1>5, <1>6, <1>7, <1>8, <1>9, Zenon DEF Underway

\* What is marked when a read ends is called back with: nothing else changes.
LEMMA UnderwayReads ==
    ASSUME NEW r, IsRequest(r), NEW q, Fielded(q), NEW j, Underway(q, r, j),
           NEW x, x = EndOfRead(q)
    PROVE  Fielded(x) /\ x.size = q.size /\ Underway(x, r, j)
<1>1. CASE q.parser.mark = <<>>
    <2>1. x = q
        BY <1>1, Zenon DEF EndOfRead
    <2> QED
        BY <2>1, Zenon
<1>2. CASE q.parser.mark # <<>>
    <2>1. x = Callback(q, q.parser.at)
        BY <1>2, UnderwayIs, Zenon DEF EndOfRead
    <2>2. \A X : \A t \in Seq(X) : \A c, a : Marked(q, t, c, a) => c # 0 /\ c \in 0..c /\ c > 0
                                    /\ \A y : y.parser.mark = <<>> => Marked(y, t, c, c)
        <3>1. ASSUME NEW X, NEW t \in Seq(X), NEW c, NEW a, Marked(q, t, c, a)
              PROVE  c # 0 /\ c \in 0..c /\ c > 0
            <4>1. c \in 0..Len(t) /\ a \in 0..c /\ q.parser.mark = SubSeq(t, a + 1, c)
                BY <3>1, Zenon DEF Marked
            <4> QED
                BY <1>2, <4>1
        <3>2. ASSUME NEW X, NEW t \in Seq(X), NEW c, NEW a, Marked(q, t, c, a),
                     NEW y, y.parser.mark = <<>>
              PROVE  Marked(y, t, c, c)
            <4>1. MarkedAs(q, X, t, c, a, SubSeq(t, 1, a), SubSeq(t, 1, c))
                BY <3>2, MarkedType, Zenon
            <4> QED
                BY <3>2, <4>1, Zenon DEF MarkedAs
        <3> QED
            BY <3>1, <3>2, Zenon
    <2>3. CASE Fresh(q)
        BY <1>2, <2>3, Zenon DEF Fresh, Between
    <2>4. CASE AtUrl(q, r, j)
        <3>1. PICK c \in 0..Len(Url(r)) : \E a \in 0..c :
                  /\ j = 1 + c /\ UrlHas(q, r, c, a)
                  /\ q.parser.at = IF c = 0 THEN "method" ELSE "url"
            BY <2>4, Zenon DEF AtUrl
        <3>2. PICK a \in 0..c :
                  /\ j = 1 + c /\ UrlHas(q, r, c, a)
                  /\ q.parser.at = IF c = 0 THEN "method" ELSE "url"
            BY <3>1, Zenon
        <3>3. c # 0 /\ c \in 0..c
            <4>1. Marked(q, Url(r), c, a)
                BY <3>2, Zenon DEF UrlHas
            <4>2. Url(r) \in Seq(At)
                BY HeaderTexts, Zenon
            <4> QED
                BY <2>2, <4>1, <4>2, Zenon
        <3>4. q.parser.at = "url" /\ x = Callback(q, "url")
            BY <2>1, <3>2, <3>3, Zenon
        <3>5. Fielded(x) /\ SameParser(x, q) /\ x.size = q.size /\ UrlHas(x, r, c, c)
            BY <3>2, <3>4, UrlCalled, Zenon
        <3>6. x.parser.at = "url"
            BY <3>4, <3>5, Zenon DEF SameParser
        <3>7. AtUrl(x, r, j)
            BY <3>2, <3>3, <3>5, <3>6, Zenon DEF AtUrl
        <3> QED
            BY <3>5, <3>7, Zenon DEF Underway
    <2>5. CASE AtName(q, r, j)
        <3>1. PICK i \in 1..(Len(r.headers) + 1) :
                  \E c \in 0..Len(NameOf(r, i)) : \E a \in 0..c :
                      /\ j = Base(r, i - 1) + c /\ NameHas(q, r, i, c, a)
                      /\ q.parser.at = IF c = 0 THEN "end" ELSE "field"
            BY <2>5, Zenon DEF AtName
        <3>2. PICK c \in 0..Len(NameOf(r, i)) : \E a \in 0..c :
                      /\ j = Base(r, i - 1) + c /\ NameHas(q, r, i, c, a)
                      /\ q.parser.at = IF c = 0 THEN "end" ELSE "field"
            BY <3>1, Zenon
        <3>3. PICK a \in 0..c :
                      /\ j = Base(r, i - 1) + c /\ NameHas(q, r, i, c, a)
                      /\ q.parser.at = IF c = 0 THEN "end" ELSE "field"
            BY <3>2, Zenon
        <3>4. NameOf(r, i) \in Seq(At) /\ Len(r.headers) \in Nat
            <4>1. Len(r.headers) \in Nat
                BY HeaderTexts, Zenon
            <4>2. i \in Nat \ {0}
                BY <4>1
            <4> QED
                BY <4>1, <4>2, HeaderTexts, Zenon
        <3>5. Marked(q, NameOf(r, i), c, a)
            BY <3>3, Zenon DEF NameHas
        <3>6. c # 0 /\ c \in 0..c /\ c > 0
            BY <2>2, <3>4, <3>5, Zenon
        <3>7. q.parser.at = "field" /\ x = Callback(q, "field")
            BY <2>1, <3>3, <3>6, Zenon
        <3>8. i \in 1..Len(r.headers)
            <4>1. CASE i > Len(r.headers)
                <5>1. NameOf(r, i) = <<>>
                    BY <4>1 DEF NameOf
                <5> QED
                    BY <3>6, <5>1
            <4> QED
                BY <3>4, <4>1
        <3>9. Fielded(x) /\ SameParser(x, q) /\ x.size = q.size /\ NameKnown(x, r, i, c)
            BY <3>3, <3>7, <3>8, NameCalled, Zenon
        <3>10. NameHas(x, r, i, c, c)
            <4>1. Marked(x, NameOf(r, i), c, c)
                BY <2>2, <3>4, <3>5, <3>9, Zenon DEF NameKnown
            <4> QED
                BY <3>6, <3>9, <4>1, Zenon DEF NameKnown, NameHas
        <3>11. x.parser.at = "field"
            BY <3>7, <3>9, Zenon DEF SameParser
        <3>12. AtName(x, r, j)
            BY <3>3, <3>6, <3>10, <3>11, Zenon DEF AtName
        <3> QED
            BY <3>9, <3>12, Zenon DEF Underway
    <2>6. CASE AtValue(q, r, j)
        <3>1. PICK i \in 1..Len(r.headers) :
                  \E c \in 0..Len(ValueOf(r, i)) : \E a \in 0..c :
                      /\ j = Base(r, i - 1) + Len(NameOf(r, i)) + 1 + c
                      /\ ValueHas(q, r, i, c, a)
                      /\ q.parser.at = IF c = 0 THEN "end" ELSE "value"
            BY <2>6, Zenon DEF AtValue
        <3>2. PICK c \in 0..Len(ValueOf(r, i)) : \E a \in 0..c :
                      /\ j = Base(r, i - 1) + Len(NameOf(r, i)) + 1 + c
                      /\ ValueHas(q, r, i, c, a)
                      /\ q.parser.at = IF c = 0 THEN "end" ELSE "value"
            BY <3>1, Zenon
        <3>3. PICK a \in 0..c :
                      /\ j = Base(r, i - 1) + Len(NameOf(r, i)) + 1 + c
                      /\ ValueHas(q, r, i, c, a)
                      /\ q.parser.at = IF c = 0 THEN "end" ELSE "value"
            BY <3>2, Zenon
        <3>4. ValueOf(r, i) \in Seq(At)
            <4>1. Len(r.headers) \in Nat
                BY HeaderTexts, Zenon
            <4>2. i \in Nat \ {0}
                BY <4>1
            <4> QED
                BY <4>2, HeaderTexts, Zenon
        <3>5. Marked(q, ValueOf(r, i), c, a)
            BY <3>3, Zenon DEF ValueHas
        <3>6. c # 0 /\ c \in 0..c /\ c > 0
            BY <2>2, <3>4, <3>5, Zenon
        <3>7. q.parser.at = "value" /\ x = Callback(q, "value")
            BY <2>1, <3>3, <3>6, Zenon
        <3>8. Fielded(x) /\ SameParser(x, q) /\ x.size = q.size /\ ValueKnown(x, r, i, c)
            BY <3>3, <3>7, ValueCalled, Zenon
        <3>9. ValueHas(x, r, i, c, c)
            <4>1. Marked(x, ValueOf(r, i), c, c)
                BY <2>2, <3>4, <3>5, <3>8, Zenon DEF ValueKnown
            <4> QED
                BY <3>6, <3>8, <4>1, Zenon DEF ValueKnown, ValueHas
        <3>10. x.parser.at = "value"
            BY <3>7, <3>8, Zenon DEF SameParser
        <3>11. AtValue(x, r, j)
            BY <3>3, <3>6, <3>9, <3>10, Zenon DEF AtValue
        <3> QED
            BY <3>8, <3>11, Zenon DEF Underway
    <2>7. CASE AtBody(q, r, j)
        <3>1. PICK c \in 0..Len(Body(r)) : \E a \in 0..c :
                  /\ j = Base(r, Len(r.headers)) + 1 + c /\ BodyHas(q, r, c, a)
                  /\ q.parser.at = IF c = 0 THEN "blank" ELSE "body"
            BY <2>7, Zenon DEF AtBody
        <3>2. PICK a \in 0..c :
                  /\ j = Base(r, Len(r.headers)) + 1 + c /\ BodyHas(q, r, c, a)
                  /\ q.parser.at = IF c = 0 THEN "blank" ELSE "body"
            BY <3>1, Zenon
        <3>3. Body(r) \in Seq(ToSet(Body(r)))
            BY BodyIs, Zenon
        <3>4. Marked(q, Body(r), c, a) /\ BodyTaken(q, r, c, a)
            BY <3>2, Zenon DEF BodyHas, BodyTaken
        <3>5. c # 0 /\ c \in 0..c
            BY <2>2, <3>3, <3>4, Zenon
        <3>6. q.parser.at = "body" /\ x = Callback(q, "body")
            BY <2>1, <3>2, <3>5, Zenon
        <3>7. Fielded(x) /\ SameParser(x, q) /\ x.size = q.size /\ BodyKnown(x, r, c)
            BY <3>4, <3>6, BodyCalled, Zenon
        <3>8. BodyHas(x, r, c, c)
            <4>1. Marked(x, Body(r), c, c)
                BY <2>2, <3>3, <3>4, <3>7, Zenon DEF BodyKnown
            <4>2. x.part \in {"head_over", "body"}
                BY <3>7 DEF BodyKnown
            <4> QED
                BY <3>2, <3>7, <4>1, <4>2, Zenon DEF BodyKnown, BodyHas, SameParser
        <3>9. x.parser.at = "body"
            BY <3>6, <3>7, Zenon DEF SameParser
        <3>10. AtBody(x, r, j)
            BY <3>2, <3>5, <3>8, <3>9, Zenon DEF AtBody
        <3> QED
            BY <3>7, <3>10, Zenon DEF Underway
    <2> QED
        BY <2>3, <2>4, <2>5, <2>6, <2>7, Zenon DEF Underway
<1> QED
    BY <1>1, <1>2, Zenon

\* The end of a read, whatever has come of the pieces.
LEMMA ReadEnds ==
    ASSUME NEW r, IsRequest(r), NEW q, NEW j, Taken(q, r, j), NEW x, x = EndOfRead(q)
    PROVE  Taken(x, r, j)
<1>1. CASE q.parser.error \/ q.parser.mark = <<>>
    <2>1. x = q
        BY <1>1, Zenon DEF EndOfRead
    <2> QED
        BY <2>1, Zenon
<1>2. CASE ~q.parser.error /\ q.parser.mark # <<>>
    <2>1. Underway(q, r, j) /\ Fielded(q)
        BY <1>2, Zenon DEF Taken, Over
    <2>2. Underway(x, r, j) /\ Fielded(x)
        BY <2>1, UnderwayReads, Zenon
    <2> QED
        BY <2>2, UnderwayIs, Zenon DEF Taken
<1> QED
    BY <1>1, <1>2, Zenon


-----------------------------------------------------------------------------
(* A read of a request *)

\* A request in the stream is its wire.
LEMMA StreamHas ==
    ASSUME sent \in Sessions, NEW k \in 1..Len(sent)
    PROVE  /\ IsRequest(sent[k])
           /\ \A j \in 1..Len(Wire(sent[k])) : Stream[End(k - 1) + j] = Wire(sent[k])[j]
<1> DEFINE ss == Wires(sent)
<1>1. /\ Len(sent) \in Nat /\ Len(ss) = Len(sent) /\ ss[k] = Wire(sent[k])
      /\ IsRequest(sent[k])
    BY WiresType, Zenon
<1>2. PICK X : ss \in Seq(Seq(X))
    BY WiresType, Zenon
<1>3. Stream = FlattenSeq(ss) /\ \A n \in 0..Len(sent) : End(n) = Upto(ss, n)
    BY EndsAre, Zenon DEF Stream, End
<1> HIDE DEF ss
<1>4. k - 1 \in 0..Len(sent) /\ k \in 1..Len(ss)
    BY <1>1
<1>5. ASSUME NEW j \in 1..Len(ss[k]) PROVE FlattenSeq(ss)[Upto(ss, k - 1) + j] = ss[k][j]
    BY <1>2, <1>4, PlaceHas, Zenon
<1> QED
    BY <1>1, <1>3, <1>4, <1>5, Zenon

\* What has been taken of a request, after some pieces more of it.
LEMMA ReadTakes ==
    ASSUME sent \in Sessions, NEW k \in 1..Len(sent), NEW r, r = sent[k],
           NEW s \in Nat, NEW n \in Nat \ {0}, s + n <= Len(Wire(r)),
           NEW q, Fielded(q), Underway(q, r, s),
           NEW x, x = Execute(q, SubSeq(Stream, End(k - 1) + s + 1, End(k - 1) + s + n))
    PROVE  Taken(x, r, s + n)
<1> DEFINE from == End(k - 1) + s
           pieces == SubSeq(Stream, from + 1, from + n)
           w == Wire(r)
<1>1. /\ IsRequest(r) /\ Len(w) \in Nat /\ End(k - 1) \in Nat /\ from \in Nat
      /\ \A j \in 1..Len(w) : Stream[End(k - 1) + j] = w[j]
      /\ from + n <= Len(Stream) /\ Len(Stream) \in Nat
    <2>1. IsRequest(r) /\ \A j \in 1..Len(w) : Stream[End(k - 1) + j] = w[j]
        BY StreamHas, Zenon
    <2>2. /\ Len(sent) \in Nat /\ k - 1 \in 0..Len(sent) /\ k \in 0..Len(sent)
          /\ Len(sent) \in k..Len(sent) /\ Len(sent) \in 0..Len(sent)
        <3>1. Len(sent) \in Nat
            BY StreamShape
        <3> QED
            BY <3>1
    <2>3. /\ End(k - 1) \in Nat /\ End(k) \in Nat /\ End(Len(sent)) \in Nat
          /\ End(k) = End(k - 1) + Len(w) /\ End(k) <= End(Len(sent))
          /\ End(Len(sent)) = Len(Stream) /\ Len(w) \in Nat
        BY <2>2, StreamShape, Zenon
    <2> HIDE DEF w
    <2>4. s + n <= Len(w)
        BY Zenon DEF w
    <2> DEFINE l == Len(Stream)
               e == End(Len(sent))
               e0 == End(k - 1)
               e1 == End(k)
    <2>5. e \in Nat /\ e0 \in Nat /\ e1 \in Nat /\ e1 = e0 + Len(w) /\ e1 <= e /\ e = l
        BY <2>3, Zenon
    <2> HIDE DEF l, e, e0, e1
    <2>6. e0 + s \in Nat /\ e0 + s + n <= l /\ l \in Nat
        BY <2>3, <2>4, <2>5
    <2> QED
        BY <2>1, <2>3, <2>6, Zenon DEF e0, l
<1> HIDE DEF w
<1>2. s + n <= Len(w)
    BY Zenon DEF w
<1>3. Len(pieces) = n /\ \A i \in 1..n : pieces[i] = w[s + i]
    <2>1. PICK X : Stream \in Seq(X)
        BY StreamShape, Zenon
    <2>2. Len(pieces) = n /\ \A i \in 1..n : pieces[i] = Stream[from + i]
        <3> HIDE DEF Stream, from
        <3> QED
            BY <1>1, <2>1
    <2>3. ASSUME NEW i \in 1..n PROVE pieces[i] = w[s + i]
        <3>1. s + i \in 1..Len(w)
            BY <1>1, <1>2
        <3>2. from + i = End(k - 1) + (s + i)
            BY <1>1
        <3>3. Stream[from + i] = w[s + i]
            BY <1>1, <3>1, <3>2, Zenon
        <3> QED
            BY <2>2, <3>3, Zenon
    <2> QED
        BY <2>2, <2>3, Zenon
<1>4. x = Execute(q, pieces)
    BY Zenon
<1> HIDE DEF pieces
<1>5. PICK f : /\ x = EndOfRead(f[n]) /\ f[0] = q
               /\ \A i \in 1..n : f[i] = Consume(f[i - 1], pieces[i])
    <2>1. Len(pieces) \in Nat
        BY <1>3
    <2>2. PICK f : Execute(q, pieces) = EndOfRead(f[Len(pieces)])
                   /\ InTurn(f, q, pieces, Len(pieces))
        BY <2>1, ExecuteIs, Zenon
    <2> QED
        BY <1>3, <1>4, <2>2, Zenon DEF InTurn
<1> DEFINE S == {i \in Nat : Taken(f[i], r, s + i)}
<1>6. 0 \in S
    <2>1. s + 0 = s
        OBVIOUS
    <2>2. Taken(q, r, s)
        BY UnderwayIs, Zenon DEF Taken
    <2>3. Taken(f[0], r, s + 0)
        BY <1>5, <2>1, <2>2, Zenon
    <2> QED
        BY <2>3
<1>7. ASSUME NEW i \in 0..(n - 1), i \in S PROVE i + 1 \in S
    <2>1. Taken(f[i], r, s + i)
        BY <1>7
    <2>2. /\ i + 1 \in Nat /\ i + 1 \in 1..n /\ (i + 1) - 1 = i
          /\ s + (i + 1) = (s + i) + 1 /\ s + i # Len(w)
        BY <1>1, <1>2
    <2>3. f[i + 1] = Consume(f[i], w[(s + i) + 1])
        <3>1. f[i + 1] = Consume(f[(i + 1) - 1], pieces[i + 1])
            BY <1>5, <2>2, Zenon
        <3>2. pieces[i + 1] = w[s + (i + 1)]
            BY <1>3, <2>2, Zenon
        <3> QED
            BY <2>2, <3>1, <3>2, Zenon
    <2>4. Taken(f[i + 1], r, (s + i) + 1)
        <3>1. CASE f[i].parser.error
            <4>1. f[i + 1] = f[i]
                BY <2>3, <3>1, Zenon DEF Consume
            <4> QED
                BY <2>1, <3>1, <4>1, Zenon DEF Taken
        <3>2. CASE ~f[i].parser.error
            <4>1. Fielded(f[i]) /\ Underway(f[i], r, s + i)
                BY <2>1, <2>2, <3>2, Zenon DEF Taken, w
            <4> QED
                BY <1>1, <2>3, <4>1, Takes, Zenon DEF w
        <3> QED
            BY <3>1, <3>2, Zenon
    <2>5. Taken(f[i + 1], r, s + (i + 1))
        BY <2>2, <2>4, Zenon
    <2> QED
        BY <2>2, <2>5
<1>8. n \in S
    <2> HIDE DEF S
    <2> QED
        BY <1>6, <1>7, Induction
<1>9. Taken(f[n], r, s + n)
    BY <1>8
<1> QED
    BY <1>1, <1>5, <1>9, ReadEnds, Zenon

\* What counts the bytes of a request has no say in how they are taken.
LEMMA CountedKeeps ==
    ASSUME NEW r, NEW q, Fielded(q), NEW s, Underway(q, r, s),
           NEW n, NEW x, x = [q EXCEPT !.size = n]
    PROVE  Fielded(x) /\ Underway(x, r, s)
<1>1. /\ Fielded(x) /\ x.parser = q.parser /\ SameLine(x, q) /\ SameHeaders(x, q)
      /\ x.body = q.body /\ x.items = q.items /\ x.form = q.form /\ x.err = q.err
      /\ x.part = q.part
    BY DEF Fielded, SameLine, SameHeaders, NewRequest
<1>2. /\ Started(q, r) => Started(x, r)
      /\ Steady(q, r) => Steady(x, r)
      /\ Settled(q, r) => Settled(x, r)
      /\ Fresh(q) => Fresh(x)
    <2>1. Steady(q, r) => Steady(x, r)
        BY <1>1, Zenon DEF Steady
    <2>2. Line(q, r) => Line(x, r)
        BY <1>1, Zenon DEF Line, SameLine, SameHeaders
    <2>3. Started(q, r) => Started(x, r)
        BY <1>1, <2>1, <2>2, Zenon DEF Started, SameHeaders
    <2>4. Settled(q, r) => Settled(x, r)
        BY <1>1, Zenon DEF Settled, SameLine, SameHeaders
    <2>5. Fresh(q) => Fresh(x)
        BY <1>1, Zenon DEF Fresh, Between, SameLine, SameHeaders
    <2> QED
        BY <2>1, <2>3, <2>4, <2>5, Zenon
<1>3. \A c, a : UrlHas(q, r, c, a) => UrlHas(x, r, c, a)
    BY <1>1, <1>2, Zenon DEF UrlHas, Marked, SameLine, SameHeaders
<1>4. \A i, c, a : NameHas(q, r, i, c, a) => NameHas(x, r, i, c, a)
    BY <1>1, <1>2, Zenon DEF NameHas, Marked, SameLine, SameHeaders
<1>5. \A i, c, a : ValueHas(q, r, i, c, a) => ValueHas(x, r, i, c, a)
    BY <1>1, <1>2, Zenon DEF ValueHas, Marked, SameLine, SameHeaders
<1>6. \A c, a : BodyHas(q, r, c, a) => BodyHas(x, r, c, a)
    BY <1>1, <1>2, Zenon DEF BodyHas, Marked
<1>7. AtUrl(q, r, s) => AtUrl(x, r, s)
    BY <1>1, <1>3, Zenon DEF AtUrl
<1>8. AtName(q, r, s) => AtName(x, r, s)
    BY <1>1, <1>4, Zenon DEF AtName
<1>9. AtValue(q, r, s) => AtValue(x, r, s)
    BY <1>1, <1>5, Zenon DEF AtValue
<1>10. AtBody(q, r, s) => AtBody(x, r, s)
    BY <1>1, <1>6, Zenon DEF AtBody
<1> QED
    BY <1>1, <1>2, <1>7, <1>8, <1>9, <1>10, Zenon DEF Underway

\* A handler sees the request that is over.
LEMMA OverIsSeen ==
    ASSUME NEW r, NEW q, Over(q, r)
    PROVE  Seen(q) = Seen(Final(r))
<1> DEFINE f == Final(r)
<1>1. /\ f.url = Url(r) /\ f.method = MethodOf(r) /\ f.params = ParamsOf(r)
      /\ f.headers = HeadersOf(r) /\ f.body = Body(r) /\ f.items = Outcome(r).items
      /\ f.form = Outcome(r).params
    BY DEF Final, NewRequest
<1> HIDE DEF f
<1>2. /\ q.url = f.url /\ q.method = f.method /\ q.params = f.params
      /\ q.headers = f.headers /\ q.body = f.body /\ q.items = f.items /\ q.form = f.form
    BY <1>1, Zenon DEF Over, Settled
<1>3. Params(q) = Params(f)
    BY <1>2, Zenon DEF Params
<1>4. Seen(q) = Seen(f)
    BY <1>2, <1>3, Zenon DEF Seen
<1> QED
    BY <1>4, Zenon DEF f


-----------------------------------------------------------------------------
(* The invariant *)

\* At first nothing is taken.
LEMMA AnswerInit == Init => AnswerInv
<1> SUFFICES ASSUME Init PROVE AnswerInv
    OBVIOUS
<1>1. sent \in Sessions /\ got = 0 /\ conn = "reading" /\ req = NewRequest /\ handled = <<>>
    BY Zenon DEF Init
<1>2. /\ Len(handled) = 0 /\ DOMAIN handled = {} /\ Len(sent) \in Nat /\ End(0) = 0
      /\ 0 \in 0..Len(sent)
    BY <1>1, StreamShape
<1>3. Since = 0
    BY <1>1, <1>2 DEF Since
<1>4. req.size = 0 /\ Fresh(req)
    BY <1>1 DEF Fresh, Between, NewRequest
<1>5. Len(handled) # Len(sent) => Since < Len(Wire(Current)) /\ Underway(req, Current, Since)
    <2>1. ASSUME Len(handled) # Len(sent)
          PROVE  Len(Wire(Current)) \in Nat /\ Len(Wire(Current)) > 1
        <3>1. Len(handled) + 1 \in 1..Len(sent)
            BY <1>2, <2>1
        <3> QED
            BY <1>1, <3>1, StreamShape, Zenon DEF Current
    <2>2. Underway(req, Current, Since)
        BY <1>3, <1>4, Zenon DEF Underway
    <2> HIDE DEF Current
    <2> QED
        BY <1>3, <2>1, <2>2
<1>6. conn # "writing" /\ conn # "refused"
    BY <1>1
<1> QED
    BY <1>2, <1>3, <1>4, <1>5, <1>6, Zenon DEF AnswerInv

\* What is known of the request a connection is reading.
Expects(k, r) ==
    /\ k = Len(handled) + 1 /\ k \in 1..Len(sent) /\ r = sent[k] /\ IsRequest(r)
    /\ End(k - 1) \in Nat /\ End(k) = End(k - 1) + Len(Wire(r)) /\ Len(Wire(r)) \in Nat
    /\ got = End(k - 1) + req.size /\ req.size \in Nat /\ Fielded(req)
    /\ Available = End(k) /\ Underway(req, r, req.size)

\* A client that waits and is read from has a request to answer.
LEMMA ExpectsOne ==
    ASSUME ParserInv, AnswerInv, ~ahead, conn = "reading", NEW n \in 1..(Available - got)
    PROVE  Expects(Len(handled) + 1, Current)
<1> DEFINE h == Len(handled)
<1>1. /\ sent \in Sessions /\ Len(sent) \in Nat /\ h \in Nat /\ h <= Len(sent) /\ h \in 0..Len(sent)
      /\ req.size \in Nat /\ Fielded(req)
    <2>1. Len(sent) \in Nat /\ h \in Nat /\ h <= Len(sent) /\ Shaped(req, Ats)
        BY SeqDomain, StreamShape, Zenon DEF ParserInv
    <2>2. h \in 0..Len(sent)
        BY <2>1
    <2> QED
        BY <2>1, <2>2, Zenon DEF ParserInv, Shaped, Fielded
<1>2. /\ Since = req.size
      /\ IF h = Len(sent) THEN Since = 0 ELSE Underway(req, Current, Since)
    BY Zenon DEF AnswerInv
<1>3. got \in Nat /\ End(h) \in Nat /\ got = End(h) + req.size
    <2>1. got \in Nat /\ End(h) \in Nat
        BY <1>1, StreamShape DEF ParserInv
    <2> QED
        BY <1>1, <1>2, <2>1 DEF Since
<1>4. h # Len(sent)
    <2> SUFFICES ASSUME h = Len(sent) PROVE FALSE
        OBVIOUS
    <2>1. Available = End(h) /\ req.size = 0
        BY <1>1, <1>2, StreamShape, Zenon DEF Available
    <2> HIDE DEF h
    <2> QED
        BY <1>3, <2>1
<1>5. h + 1 \in 1..Len(sent) /\ (h + 1) - 1 = h
    <2> HIDE DEF h
    <2> QED
        BY <1>1, <1>4
<1>6. Available = End(h + 1)
    BY <1>4, Zenon DEF Available
<1>7. IsRequest(sent[h + 1])
    BY <1>1, <1>5, StreamHas, Zenon
<1>8. End(h + 1) = End(h) + Len(Wire(sent[h + 1])) /\ Len(Wire(sent[h + 1])) \in Nat
    BY <1>1, <1>5, StreamShape, Zenon
<1> QED
    BY <1>1, <1>2, <1>3, <1>4, <1>5, <1>6, <1>7, <1>8, Zenon DEF Expects, Current

\* One read of a client that waits: the request is refused for a reason, is still under
\* way, or is over with its last piece.
LEMMA ReadOutcome ==
    ASSUME ParserInv, AnswerInv, ~ahead, conn = "reading", NEW n \in 1..(Available - got),
           NEW k, NEW r, Expects(k, r),
           NEW x, x = ParseRequest(req, SubSeq(Stream, got + 1, got + n))
    PROVE  IF TooBig(x) THEN Len(Wire(r)) > MAX_REQ_SIZE
           ELSE Taken(x, r, req.size + n) /\ (~x.parser.error => x.size = req.size + n)
<1> DEFINE pieces == SubSeq(Stream, got + 1, got + n)
           c == Counted(req, pieces)
           s == req.size
           w == Len(Wire(r))
           e == End(k - 1)
<1>1. /\ sent \in Sessions /\ k \in 1..Len(sent) /\ r = sent[k] /\ IsRequest(r)
      /\ e \in Nat /\ w \in Nat /\ s \in Nat /\ got = e + s /\ Available = e + w
      /\ Fielded(req) /\ Underway(req, r, s)
    BY Zenon DEF Expects, ParserInv
<1>2. n \in Nat \ {0} /\ s + n <= w /\ MAX_REQ_SIZE \in Nat
    <2> HIDE DEF s, w, e
    <2> QED
        BY <1>1, ParserAssumption
<1>3. Len(pieces) = n
    <2>1. PICK X : Stream \in Seq(X)
        BY <1>1, StreamShape, Zenon
    <2>2. got \in Nat /\ Available \in Nat /\ Available <= Len(Stream) /\ Len(Stream) \in Nat
        <3>1. Available \in Nat /\ Available <= Len(Stream)
            BY AvailableType, Zenon
        <3>2. Len(Stream) \in Nat
            BY <2>1, SeqDomain, Zenon
        <3> HIDE DEF e, s
        <3> QED
            BY <1>1, <3>1, <3>2
    <2> HIDE DEF Stream
    <2> QED
        BY <2>1, <2>2
<1>4. c = [req EXCEPT !.size = s + n] /\ c.size = s + n
    <2> HIDE DEF pieces
    <2> QED
        BY <1>1, <1>3 DEF Counted, Fielded, NewRequest
<1>5. Fielded(c) /\ Underway(c, r, s)
    BY <1>1, <1>4, CountedKeeps, Zenon
<1> HIDE DEF c
<1>6. x = IF TooBig(c) THEN c ELSE Execute(c, pieces)
    BY Zenon DEF ParseRequest, c
<1>7. CASE TooBig(c)
    <2>1. x = c /\ c.size > MAX_REQ_SIZE
        BY <1>6, <1>7, Zenon DEF TooBig
    <2> HIDE DEF s, w
    <2>2. w > MAX_REQ_SIZE
        BY <1>1, <1>2, <1>4, <2>1
    <2> QED
        BY <1>7, <2>1, <2>2, Zenon DEF w
<1>8. CASE ~TooBig(c)
    <2>1. /\ Execute(c, pieces) = x
          /\ pieces = SubSeq(Stream, e + s + 1, e + s + n)
        BY <1>1, <1>6, <1>8, Zenon
    <2>2. x = Execute(c, SubSeq(Stream, e + s + 1, e + s + n))
        BY <2>1, Zenon
    <2>3. Taken(x, r, s + n)
        <3> HIDE DEF pieces
        <3> QED
            BY <1>1, <1>2, <1>5, <2>2, ReadTakes, Zenon
    <2>4. ~TooBig(x)
        <3>1. x.size = c.size
            <4>1. Shaped(c, Ats) /\ (~c.parser.error => Good(c, Began, got, got))
                <5>1. Shaped(req, Ats) /\ Reading
                    BY Zenon DEF ParserInv
                <5>2. Shaped(c, Ats)
                    <6> HIDE DEF s, pieces
                    <6>1. s + n \in Nat
                        BY <1>1, <1>2
                    <6> QED
                        BY <1>4, <5>1, <6>1 DEF Shaped, NewRequest
                <5>3. c.parser = req.parser /\ c.part = req.part /\ c.err = req.err
                    BY <1>1, <1>4 DEF Fielded, NewRequest
                <5> QED
                    BY <5>1, <5>2, <5>3, Zenon DEF Reading, Good, Synced, Skips, Within, Between
            <4>2. Began \in Nat /\ Began <= got /\ got \in Nat
                <5> HIDE DEF e, s
                <5>1. Began = e
                    BY <1>1 DEF Began, s
                <5> QED
                    BY <1>1, <5>1
            <4>3. got + n <= Len(Stream)
                <5>1. Available <= Len(Stream) /\ Available \in Nat
                    BY AvailableType, Zenon
                <5>2. Len(Stream) \in Nat
                    <6>1. PICK X : Stream \in Seq(X)
                        BY <1>1, StreamShape, Zenon
                    <6> QED
                        BY <6>1, SeqDomain, Zenon
                <5> HIDE DEF Stream
                <5> QED
                    BY <4>2, <5>1, <5>2
            <4>4. x = Execute(c, SubSeq(Stream, got + 1, got + n))
                BY <2>1, Zenon
            <4>5. sent \in Sessions /\ n \in Nat \ {0}
                BY <1>1, <1>2, Zenon
            <4>6. /\ Shaped(x, Ats) /\ x.size = c.size
                  /\ ~x.parser.error => Good(x, Began, got, got + n)
                <5> HIDE DEF pieces, s, w, e
                <5> QED
                    BY <4>1, <4>2, <4>3, <4>4, <4>5, ExecuteGood, Zenon
            <4> QED
                BY <4>6, Zenon
        <3> QED
            BY <1>8, <3>1, Zenon DEF TooBig
    <2>5. ~x.parser.error => x.size = s + n
        <3>1. \A y : y = ParseRequest(req, SubSeq(Stream, got + 1, got + n)) =>
                  (~TooBig(y) /\ ~y.parser.error => y.size = req.size + n)
            BY ReceivesGood, Zenon
        <3> QED
            BY <2>4, <3>1, Zenon
    <2> QED
        BY <2>3, <2>4, <2>5, Zenon
<1> QED
    BY <1>7, <1>8, Zenon


\* A read of a client that waits.
LEMMA AnswerReceive ==
    ASSUME ParserInv, AnswerInv, NEW n \in 1..(Available - got), Receive(n)
    PROVE  AnswerInv'
<1>1. /\ conn = "reading" /\ got' = got + n /\ sent' = sent /\ ahead' = ahead
      /\ req' = ParseRequest(req, SubSeq(Stream, got + 1, got + n))
      /\ conn' = IF Return(req') < 0 THEN "refused"
                 ELSE IF Return(req') = NEED_MORE_STATUS THEN "reading" ELSE "writing"
      /\ handled' = IF Return(req') = 0 THEN Append(handled, Seen(req')) ELSE handled
    BY Zenon DEF Receive
<1> SUFFICES ASSUME ~ahead PROVE AnswerInv'
    BY <1>1, Zenon DEF AnswerInv
<1> DEFINE h == Len(handled)
           k == h + 1
           r == Current
           s == req.size
<1>2. /\ k \in 1..Len(sent) /\ k - 1 = h /\ r = sent[k] /\ IsRequest(r) /\ s \in Nat /\ h \in Nat
      /\ End(h) \in Nat /\ got = End(h) + s /\ Len(Wire(r)) \in Nat
      /\ End(k) = End(h) + Len(Wire(r)) /\ Len(sent) \in Nat
    <2>1. Expects(k, r)
        BY <1>1, ExpectsOne, Zenon
    <2>2. h \in Nat /\ k - 1 = h /\ Len(sent) \in Nat
        <3>1. h \in Nat /\ Len(sent) \in Nat
            BY SeqDomain, StreamShape, Zenon DEF ParserInv
        <3> HIDE DEF h
        <3> QED
            BY <3>1
    <2> HIDE DEF r, k, h, s
    <2> QED
        BY <2>1, <2>2, Zenon DEF Expects, s
<1>3. IF TooBig(req') THEN Len(Wire(r)) > MAX_REQ_SIZE
      ELSE Taken(req', r, s + n) /\ (~req'.parser.error => req'.size = s + n)
    <2>1. Expects(k, r)
        BY <1>1, ExpectsOne, Zenon
    <2> QED
        BY <1>1, <2>1, ReadOutcome, Zenon
<1> HIDE DEF r, s
<1>5. got' = End(h) + (s + n) /\ s + n \in Nat /\ n \in Nat
    <2>1. n \in Nat
        BY <1>2, AvailableType
    <2> HIDE DEF k, h
    <2> QED
        BY <1>1, <1>2, <2>1
<1>6. \A i \in DOMAIN handled : handled[i] = Seen(Final(sent[i]))
    BY Zenon DEF AnswerInv
<1>7. ASSUME Return(req') < 0, handled' = handled,
             Len(Wire(r)) > MAX_REQ_SIZE \/ Refusable(r)
      PROVE  AnswerInv'
    <2>1. conn' = "refused"
        BY <1>1, <1>7, Zenon
    <2>2. conn' # "reading" /\ conn' # "writing"
        BY <2>1
    <2>3. Len(handled') < Len(sent')
        <3>1. h < Len(sent)
            <4> HIDE DEF h
            <4> QED
                BY <1>2
        <3> QED
            BY <1>1, <1>7, <3>1, Zenon
    <2>4. Current' = r
        BY <1>1, <1>7, Zenon DEF Current, r
    <2> QED
        BY <1>1, <1>6, <1>7, <2>2, <2>3, <2>4, Zenon DEF AnswerInv
<1>8. CASE TooBig(req') \/ req'.parser.error
    <2>1. Return(req') = -1
        BY <1>8, Zenon DEF Return
    <2>2. Return(req') < 0 /\ handled' = handled
        BY <1>1, <2>1
    <2>3. Len(Wire(r)) > MAX_REQ_SIZE \/ Refusable(r)
        BY <1>3, <1>8, Zenon DEF Taken
    <2> QED
        BY <1>7, <2>2, <2>3, Zenon
<1>9. CASE ~TooBig(req') /\ ~req'.parser.error /\ Underway(req', r, s + n)
    <2>1. Return(req') = NEED_MORE_STATUS
        BY <1>9, UnderwayIs, Zenon DEF Return
    <2>2. conn' = "reading" /\ handled' = handled
        BY <1>1, <2>1 DEF NEED_MORE_STATUS
    <2>3. conn' # "refused" /\ conn' # "writing"
        BY <2>2
    <2>4. Since' = req'.size /\ Since' = s + n
        <3>1. End(Len(handled))' = End(h)
            BY <1>1, <2>2 DEF End
        <3>2. Since' = got' - End(h)
            BY <3>1, Zenon DEF Since
        <3>3. got' - End(h) = s + n
            <4> HIDE DEF h, k
            <4> QED
                BY <1>2, <1>5
        <3> QED
            BY <1>3, <1>9, <3>2, <3>3, Zenon
    <2>5. Current' = r
        BY <1>1, <2>2, Zenon DEF Current, r
    <2>6. s + n < Len(Wire(r))
        BY <1>2, <1>9, UnderwayShort, Zenon
    <2>7. Len(handled') # Len(sent')
        <3>1. h # Len(sent)
            <4> HIDE DEF h
            <4> QED
                BY <1>2
        <3> QED
            BY <1>1, <2>2, <3>1, Zenon
    <2> QED
        BY <1>1, <1>6, <1>9, <2>2, <2>3, <2>4, <2>5, <2>6, <2>7, Zenon DEF AnswerInv
<1>10. CASE ~TooBig(req') /\ ~req'.parser.error /\ s + n = Len(Wire(r)) /\ Over(req', r)
    <2>1. Return(req') = 0
        BY <1>10, Zenon DEF Return, Over
    <2>2. conn' = "writing" /\ handled' = Append(handled, Seen(req'))
        BY <1>1, <2>1 DEF NEED_MORE_STATUS
    <2>3. conn' # "refused" /\ conn' # "reading"
        BY <2>2
    <2>4. /\ Len(handled') = k /\ DOMAIN handled' = 1..k /\ handled'[k] = Seen(req')
          /\ DOMAIN handled = 1..h /\ \A i \in 1..h : handled'[i] = handled[i]
        <3>1. handled \in Seq(ToSet(handled))
            BY Zenon DEF ParserInv
        <3> QED
            BY <2>2, <3>1
    <2>5. Since' = 0
        <3>1. End(Len(handled))' = End(k)
            BY <1>1, <2>4 DEF End
        <3>2. Since' = got' - End(k)
            BY <3>1, Zenon DEF Since
        <3>3. got' - End(k) = 0
            <4> HIDE DEF h, k
            <4> QED
                BY <1>2, <1>5, <1>10
        <3> QED
            BY <3>2, <3>3, Zenon
    <2>6. ASSUME NEW i \in DOMAIN handled' PROVE handled'[i] = Seen(Final(sent'[i]))
        <3>1. i \in 1..h \/ i = k
            <4> HIDE DEF h
            <4> QED
                BY <1>2, <2>4, <2>6
        <3>2. CASE i \in 1..h
            BY <1>1, <1>6, <2>4, <3>2, Zenon
        <3>3. CASE i = k
            <4>1. Seen(req') = Seen(Final(r))
                BY <1>10, OverIsSeen, Zenon
            <4> QED
                BY <1>1, <1>2, <2>4, <3>3, <4>1, Zenon
        <3> QED
            BY <3>1, <3>2, <3>3, Zenon
    <2> QED
        BY <2>3, <2>5, <2>6, Zenon DEF AnswerInv
<1> QED
    BY <1>3, <1>8, <1>9, <1>10, Zenon DEF Taken

\* The next request begins with a new Request.
LEMMA AnswerAlive == ParserInv /\ AnswerInv /\ RespondAlive => AnswerInv'
<1> SUFFICES ASSUME ParserInv, AnswerInv, RespondAlive PROVE AnswerInv'
    OBVIOUS
<1>1. /\ conn = "writing" /\ req' = NewRequest /\ conn' = "reading" /\ sent' = sent
      /\ ahead' = ahead /\ got' = got /\ handled' = handled
    BY Zenon DEF RespondAlive
<1> SUFFICES ASSUME ~ahead PROVE AnswerInv'
    BY <1>1, Zenon DEF AnswerInv
<1>2. Since = 0 /\ \A n \in DOMAIN handled : handled[n] = Seen(Final(sent[n]))
    BY <1>1, Zenon DEF AnswerInv
<1>3. Since' = 0 /\ Current' = Current
    <2>1. End(Len(handled))' = End(Len(handled))
        BY <1>1 DEF End
    <2> QED
        BY <1>1, <1>2, <2>1, Zenon DEF Since, Current
<1>4. req'.size = 0 /\ Fresh(req')
    BY <1>1 DEF Fresh, Between, NewRequest
<1>5. Len(handled) # Len(sent)
          => Since' < Len(Wire(Current)) /\ Underway(req', Current, Since')
    <2>1. ASSUME Len(handled) # Len(sent)
          PROVE  Len(Wire(Current)) \in Nat /\ Len(Wire(Current)) > 1
        <3>1. Len(handled) + 1 \in 1..Len(sent)
            BY <2>1, SeqDomain, StreamShape DEF ParserInv
        <3> QED
            BY <3>1, StreamShape, Zenon DEF Current, ParserInv
    <2>2. Underway(req', Current, Since')
        BY <1>3, <1>4, Zenon DEF Underway
    <2> HIDE DEF Current
    <2> QED
        BY <1>3, <2>1, <2>2
<1>6. conn' # "writing" /\ conn' # "refused"
    BY <1>1
<1> QED
    BY <1>1, <1>2, <1>3, <1>4, <1>5, <1>6, Zenon DEF AnswerInv

\* A connection that closes forgets what it was about.
LEMMA AnswerCloses ==
    ASSUME AnswerInv,
           ReceiveNothing \/ RespondClose \/ UNCHANGED vars
    PROVE  AnswerInv'
<1>1. /\ sent' = sent /\ ahead' = ahead /\ got' = got /\ handled' = handled /\ req' = req
      /\ conn' = conn \/ conn' = "closed"
    BY Zenon DEF ReceiveNothing, RespondClose, vars
<1>2. Since' = Since /\ Current' = Current
    <2>1. End(Len(handled))' = End(Len(handled))
        BY <1>1 DEF End
    <2> QED
        BY <1>1, <2>1, Zenon DEF Since, Current
<1>3. CASE conn' = conn
    BY <1>1, <1>2, <1>3, Zenon DEF AnswerInv
<1>4. CASE conn' = "closed"
    <2>1. conn' # "reading" /\ conn' # "writing" /\ conn' # "refused"
        BY <1>4
    <2> QED
        BY <1>1, <2>1, Zenon DEF AnswerInv
<1> QED
    BY <1>1, <1>3, <1>4, Zenon

\* Every step keeps it.
LEMMA AnswerNext == ParserInv /\ AnswerInv /\ [Next]_vars => AnswerInv'
<1> SUFFICES ASSUME ParserInv, AnswerInv, [Next]_vars PROVE AnswerInv'
    OBVIOUS
<1>1. CASE \E n \in 1..(Available - got) : Receive(n)
    BY <1>1, AnswerReceive, Zenon
<1>2. CASE RespondAlive
    BY <1>2, AnswerAlive, Zenon
<1>3. CASE ReceiveNothing \/ RespondClose \/ UNCHANGED vars
    BY <1>3, AnswerCloses, Zenon
<1> QED
    BY <1>1, <1>2, <1>3, Zenon DEF Next, Terminated

\* What has been taken of the request of a client that waits is what it has sent of it,
\* in every state, and a handler has seen no other request than the one sent.
THEOREM AnswerInvAlways == Spec => []AnswerInv
<1>1. ParserInv /\ ParserInv' /\ AnswerInv /\ [Next]_vars => AnswerInv'
    BY AnswerNext, Zenon
<1> QED
    BY <1>1, AnswerInit, InvAlways, PTL DEF Spec


-----------------------------------------------------------------------------
(* What a multipart body is parsed to *)

\* The callbacks for a part.
LEMMA PartIsSent ==
    \A p : PartCalls(p) = PartSent(p.name, p.file, p.filename, p.type, p.data)
BY Zenon DEF PartCalls, PartSent, Disposition, DataSent, Call, Quoted, InQuotes

\* A name a multipart body may have.
LEMMA ClearIsFree ==
    ASSUME NEW t, Clear(t, {";", "="})
    PROVE  Free(t, ";") /\ Free(t, "=")
BY Zenon DEF Clear, Free

\* The item of a part.
ItemSent(p) == ItemOf(p.name, p.filename, p.file, p.type, FlattenSeq(p.data), TRUE)
Items(r) == [i \in DOMAIN r.parts |-> ItemSent(r.parts[i])]

\* The items of a request are a sequence, that grows by one item.
LEMMA ItemsAre ==
    ASSUME NEW r, IsRequest(r)
    PROVE  LET n == Len(r.parts)
               I(k) == First(Items(r), k)
           IN  /\ n \in Nat /\ DOMAIN r.parts = 1..n /\ Len(Items(r)) = n
               /\ DOMAIN Items(r) = 1..n
               /\ I(0) = <<>> /\ I(n) = Items(r) /\ IsSeq(Items(r))
               /\ \A k \in 0..(n - 1) : /\ IsSeq(I(k))
                                        /\ I(k + 1) = Append(I(k), ItemSent(r.parts[k + 1]))
<1> DEFINE n == Len(r.parts)
           s == Items(r)
           X == {ItemSent(r.parts[i]) : i \in DOMAIN r.parts}
           I(k) == First(s, k)
<1>1. n \in Nat /\ DOMAIN r.parts = 1..n
    <2>1. \E Y : r.parts \in Seq(Y)
        BY Zenon DEF IsRequest
    <2> QED
        BY <2>1, SeqDomain, Zenon
<1>2. s = [i \in 1..n |-> s[i]] /\ \A i \in 1..n : s[i] = ItemSent(r.parts[i]) /\ s[i] \in X
    BY <1>1, Zenon DEF Items
<1> HIDE DEF n, s, X
<1>3. s \in Seq(X) /\ Len(s) = n /\ DOMAIN s = 1..n
    BY <1>1, <1>2
<1>4. I(0) = <<>> /\ I(n) = s
    BY <1>1, <1>2, <1>3 DEF First
<1>5. ASSUME NEW k \in 0..(n - 1)
      PROVE  I(k) \in Seq(X) /\ I(k + 1) = Append(I(k), s[k + 1]) /\ k + 1 \in 1..n
    <2>1. k \in Nat /\ k + 1 \in 1..n /\ \A i \in 1..k : i \in 1..n
        BY <1>1
    <2>2. I(k) = SubSeq(s, 1, k) /\ I(k + 1) = SubSeq(s, 1, k + 1)
        BY <1>3, <2>1 DEF First
    <2>3. SubSeq(s, 1, k) \in Seq(X) /\ SubSeq(s, 1, k + 1) = Append(SubSeq(s, 1, k), s[k + 1])
        BY <1>3, <2>1
    <2> QED
        BY <2>1, <2>2, <2>3, Zenon
<1>6. ASSUME NEW k \in 0..(n - 1)
      PROVE  IsSeq(I(k)) /\ I(k + 1) = Append(I(k), ItemSent(r.parts[k + 1]))
    BY <1>2, <1>5, Zenon DEF IsSeq
<1>7. IsSeq(s)
    BY <1>3, Zenon DEF IsSeq
<1> QED
    BY <1>1, <1>3, <1>4, <1>6, <1>7, Zenon DEF n, s

NamesClear(r) ==
    \A i \in DOMAIN r.parts : /\ Clear(r.parts[i].name, {";", "="})
                              /\ Clear(r.parts[i].filename, {";", "="})

\* What the parts of a request come to.
LEMMA PartsComes ==
    ASSUME NEW r, IsRequest(r), NamesClear(r)
    PROVE  Comes(ByCall, NoneYet(<<>>, <<>>),
                 FlattenSeq([i \in DOMAIN r.parts |-> PartCalls(r.parts[i])]),
                 NoneYet(Items(r), <<>>))
<1> DEFINE n == Len(r.parts)
           ss == [i \in DOMAIN r.parts |-> PartCalls(r.parts[i])]
           I(k) == First(Items(r), k)
           f == [k \in 0..n |-> NoneYet(I(k), <<>>)]
           P == [name : Seq(STRING), file : BOOLEAN, filename : Seq(STRING),
                 type : Seq(STRING), data : Seq(Seq(STRING))]
<1>1. /\ n \in Nat /\ DOMAIN r.parts = 1..n
      /\ I(0) = <<>> /\ I(n) = Items(r)
      /\ \A k \in 0..(n - 1) : /\ IsSeq(I(k))
                               /\ I(k + 1) = Append(I(k), ItemSent(r.parts[k + 1]))
    BY ItemsAre, Zenon
<1>2. r.parts \in Seq(P) /\ \A i \in DOMAIN r.parts : r.parts[i].file \/ r.parts[i].filename = <<>>
    BY Zenon DEF IsRequest
<1>0. n \in Nat /\ DOMAIN r.parts = 1..n
    BY <1>1, Zenon
<1>3. ASSUME NEW i \in 1..n PROVE r.parts[i] \in P
    <2> HIDE DEF P
    <2>1. r.parts \in Seq(P)
        BY <1>2, Zenon
    <2> QED
        BY <1>0, <2>1
<1>4. ss \in Seq(Seq(Calls)) /\ Len(ss) = n /\ \A i \in 1..n : ss[i] = PartCalls(r.parts[i])
    <2>1. ss = [i \in 1..n |-> ss[i]] /\ \A i \in 1..n : ss[i] = PartCalls(r.parts[i])
        BY <1>1, Zenon
    <2>2. \A i \in 1..n : ss[i] \in Seq(Calls)
        BY <1>3, <2>1, PartType, Zenon
    <2> HIDE DEF ss, n
    <2>3. ss \in Seq(Seq(Calls))
        BY <1>1, <2>1, <2>2, FunctionType, Zenon
    <2> QED
        BY <1>0, <2>1, <2>3
<1>5. f[0] = NoneYet(<<>>, <<>>) /\ f[n] = NoneYet(Items(r), <<>>)
      /\ \A k \in 0..(n - 1) : f[k] = NoneYet(I(k), <<>>) /\ f[k + 1] = NoneYet(I(k + 1), <<>>)
    <2>1. 0 \in 0..n /\ n \in 0..n /\ \A k \in 0..(n - 1) : k \in 0..n /\ k + 1 \in 0..n
        BY <1>0
    <2> QED
        BY <1>1, <2>1, Zenon
<1>6. ASSUME NEW k \in 0..(n - 1) PROVE Comes(ByCall, f[k], ss[k + 1], f[k + 1])
    <2> DEFINE p == r.parts[k + 1]
    <2>1. k + 1 \in 1..n
        BY <1>0
    <2>2. p \in P /\ (p.file \/ p.filename = <<>>) /\ ss[k + 1] = PartCalls(p)
        BY <1>1, <1>2, <1>3, <1>4, <2>1, Zenon
    <2> HIDE DEF p, ss, f
    <2>3. p.name \in Seq(STRING) /\ p.filename \in Seq(STRING) /\ p.data \in Seq(Seq(STRING))
          /\ p.file \in BOOLEAN
        BY <2>2
    <2>4. p.name \in Seq(Char) /\ p.filename \in Seq(Char) /\ p.data \in Seq(Seq(Char))
        <3>1. Seq(STRING) \subseteq Seq(Char)
            BY CharType, Zenon
        <3>2. p.data \in Seq(Seq(Char))
            BY <2>3, <3>1, SubType, Zenon
        <3> QED
            BY <2>3, <3>1, <3>2, Zenon
    <2>5. Written \subseteq Char
        BY Zenon DEF Written, Char
    <2>6. Free(p.name, ";") /\ Free(p.name, "=") /\ Free(p.filename, ";") /\ Free(p.filename, "=")
        <3>1. k + 1 \in DOMAIN r.parts
            BY <1>0, <2>1, Zenon
        <3> QED
            BY <3>1, ClearIsFree, Zenon DEF NamesClear, p
    <2>7. IsSeq(I(k))
        BY <1>1, Zenon
    <2>8. Comes(ByCall, NoneYet(I(k), <<>>), PartSent(p.name, p.file, p.filename, p.type, p.data),
                With(I(k), ItemSent(p), <<>>))
        BY <2>2, <2>3, <2>4, <2>5, <2>6, <2>7, PartComes, Zenon DEF ItemSent
    <2>9. With(I(k), ItemSent(p), <<>>) = f[k + 1]
        BY <1>1, <1>5, Zenon DEF With, p
    <2> QED
        BY <1>5, <2>2, <2>8, <2>9, PartIsSent, Zenon
<1> HIDE DEF f, ss, n
<1>7. Comes(ByCall, NoneYet(<<>>, <<>>), FlattenSeq(ss), f[Len(ss)])
    <2>1. \A k \in 0..(Len(ss) - 1) : Comes(ByCall, f[k], ss[k + 1], f[k + 1])
        BY <1>4, <1>6, Zenon
    <2> QED
        BY <1>4, <1>5, <2>1, ComesFlat
<1> QED
    BY <1>4, <1>5, <1>7, Zenon DEF ss


\* The body of a request in parts only.
LEMMA BodyOfParts ==
    ASSUME NEW r, IsRequest(r), NamesClear(r), r.form = <<>>, r.raw = <<>>
    PROVE  /\ r.parts = <<>> => Body(r) = <<>>
           /\ r.parts # <<>> => Comes(ByCall, NoneYet(<<>>, <<>>), Body(r),
                                      NoneYet(Items(r), <<>> \o Named(Items(r))))
<1> DEFINE F == [i \in DOMAIN Query(r.form) |-> [on |-> "char", text |-> Query(r.form)[i]]]
           ss == [i \in DOMAIN r.parts |-> PartCalls(r.parts[i])]
           P == FlattenSeq(ss)
           last == Call("end", "")
           E == IF r.parts = <<>> THEN <<>> ELSE <<last>>
           m == NoneYet(Items(r), <<>>)
           z == NoneYet(Items(r), <<>> \o Named(Items(r)))
<1>1. Body(r) = ((F \o P) \o E) \o <<>>
    BY Zenon DEF Body, Call
<1>2. FlattenSeq(<<>>) = <<>>
    <2>1. <<>> \in Seq(Seq({})) /\ First(<<>>, 0) = <<>>
        BY DEF First
    <2> QED
        BY <2>1, FlattenSteps, Zenon
<1>3. F = <<>>
    <2>1. Query(r.form) = <<>>
        <3> DEFINE h(i) == (IF i = 1 THEN <<>> ELSE <<"&">>) \o <<>>[i][1] \o <<"=">>
                           \o Escape(<<>>[i][2])
                   g == [i \in DOMAIN <<>> |-> h(i)]
        <3>1. Query(r.form) = FlattenSeq(g)
            BY Zenon DEF Query
        <3> HIDE DEF h
        <3>2. [i \in DOMAIN <<>> |-> h(i)] = <<>>
            OBVIOUS
        <3> QED
            BY <1>2, <3>1, <3>2, Zenon
    <2> DEFINE q == Query(r.form)
    <2>2. q = <<>>
        BY <2>1, Zenon
    <2>3. F = [i \in DOMAIN q |-> [on |-> "char", text |-> q[i]]]
        BY Zenon
    <2> HIDE DEF q, F
    <2> QED
        BY <2>2, <2>3
<1>4. Comes(ByCall, NoneYet(<<>>, <<>>), P, m)
    BY PartsComes, Zenon
<1> HIDE DEF F, ss, P, last, m, z
<1>5. PICK X : P \in Seq(X)
    BY <1>4, Zenon DEF Comes, IsSeq
<1>6. CASE r.parts = <<>>
    <2>1. P = <<>>
        <3>1. ss = <<>>
            BY <1>6 DEF ss
        <3> QED
            BY <1>2, <3>1, Zenon DEF P
    <2>2. (<<>> \o <<>>) \o <<>> = <<>> /\ <<>> \o <<>> = <<>>
        OBVIOUS
    <2>3. Body(r) = <<>>
        BY <1>1, <1>3, <1>6, <2>1, <2>2, Zenon
    <2> QED
        BY <1>6, <2>3, Zenon
<1>7. CASE r.parts # <<>>
    <2>1. Body(r) = P \o <<last>>
        <3>1. \A x : <<x>> \in Seq({x})
            OBVIOUS
        <3>2. P \in Seq(X \cup {last}) /\ <<last>> \in Seq(X \cup {last})
            BY <1>5
        <3>3. P \o <<last>> \in Seq(X \cup {last})
            BY <3>2, ConcatType, Zenon
        <3>4. (P \o <<last>>) \o <<>> = P \o <<last>> /\ <<>> \o P = P
            <4> DEFINE w == P \o <<last>>
            <4>1. w \in Seq(X \cup {last})
                BY <3>3, Zenon
            <4> HIDE DEF w
            <4>2. w \o <<>> = w /\ <<>> \o P = P
                BY <3>2, <4>1
            <4> QED
                BY <4>2, Zenon DEF w
        <3> QED
            BY <1>1, <1>3, <1>7, <3>4, Zenon
    <2>2. Gives(m, "end", "", z)
        BY GivesEnd, Zenon DEF m, z
    <2>3. Comes(ByCall, m, <<last>>, z)
        BY <2>2, CallComes, Zenon DEF last
    <2>4. Comes(ByCall, NoneYet(<<>>, <<>>), P \o <<last>>, z)
        BY <1>4, <2>3, ComesJoined, Zenon
    <2> QED
        BY <1>7, <2>1, <2>4, Zenon DEF z
<1> QED
    BY <1>6, <1>7, Zenon

-----------------------------------------------------------------------------
(* The headers *)

\* Words are told apart by their pieces.
LEMMA TextIs ==
    /\ \A v, w : Text(v) = Text(w) => v = w
    /\ \A v : Text(v) = <<>> <=> v = ""
<1>1. ASSUME NEW v, NEW w, Text(v) = Text(w) PROVE v = w
    <2> DEFINE p(x) == << <<x, 1>>, <<x, 2>> >>
    <2>1. \A x : p(x) # <<>> /\ <<>> # p(x) /\ p(x)[1][1] = x
        OBVIOUS
    <2>2. Text(v) = (IF v = "" THEN <<>> ELSE p(v)) /\ Text(w) = (IF w = "" THEN <<>> ELSE p(w))
        BY Zenon DEF Text
    <2> HIDE DEF p
    <2>3. CASE v = "" \/ w = ""
        BY <1>1, <2>1, <2>2, <2>3, Zenon
    <2>4. CASE v # "" /\ w # ""
        <3>1. p(v) = p(w)
            BY <1>1, <2>2, <2>4, Zenon
        <3>2. p(v)[1][1] = p(w)[1][1]
            BY <3>1, Zenon
        <3>3. p(v)[1][1] = v /\ p(w)[1][1] = w
            BY <2>1, Zenon
        <3> QED
            BY <3>2, <3>3
    <2> QED
        BY <2>3, <2>4, Zenon
<1>2. ASSUME NEW v PROVE Text(v) = <<>> <=> v = ""
    <2>1. << <<v, 1>>, <<v, 2>> >> # <<>>
        OBVIOUS
    <2> QED
        BY <2>1, Zenon DEF Text
<1> QED
    BY <1>1, <1>2, Zenon

\* What add_header leaves of the headers sent.
LEMMA HeadersMeant ==
    ASSUME NEW r, IsRequest(r)
    PROVE  HeadersOf(r) = MeantHeaders(r)
<1> DEFINE n == Len(r.headers)
           F == FieldsTo(r, n)
           V == ValuesTo(r, n)
           L == {j \in 1..n : \A k \in (j + 1)..n : F[k] # F[j]}
           M == {j \in 1..n : \A k \in (j + 1)..n : r.headers[k][1] # r.headers[j][1]}
<1>1. n \in Nat /\ DOMAIN r.headers = 1..n
    <2>1. r.headers \in Seq(STRING \X STRING)
        BY Zenon DEF IsRequest
    <2> QED
        BY <2>1, SeqDomain, Zenon
<1>2. /\ DOMAIN F = 1..n /\ Len(F) = n
      /\ \A i \in 1..n : F[i] = Text(r.headers[i][1]) /\ V[i] = Text(r.headers[i][2])
    <2> HIDE DEF n
    <2> QED
        BY <1>1 DEF FieldsTo, ValuesTo
<1>3. HeadersOf(r) = {<<F[i], V[i]>> : i \in L}
    BY <1>2, Zenon DEF HeadersOf, AddHeaders
<1>4. MeantHeaders(r) = {<<Text(r.headers[i][1]), Text(r.headers[i][2])>> : i \in M}
    BY <1>1, Zenon DEF MeantHeaders
<1>5. L = M
    <2>1. ASSUME NEW j \in 1..n, NEW k \in (j + 1)..n
          PROVE  F[k] # F[j] <=> r.headers[k][1] # r.headers[j][1]
        <3>1. k \in 1..n
            BY <1>1
        <3>2. F[k] = Text(r.headers[k][1]) /\ F[j] = Text(r.headers[j][1])
            BY <1>2, <3>1, Zenon
        <3> HIDE DEF F, n
        <3>3. F[k] = F[j] <=> r.headers[k][1] = r.headers[j][1]
            BY <3>2, TextIs, Zenon
        <3> QED
            BY <3>3, Zenon
    <2> QED
        BY <2>1, Zenon
<1>6. \A i \in L : <<F[i], V[i]>> = <<Text(r.headers[i][1]), Text(r.headers[i][2])>>
    BY <1>2, Zenon
<1> DEFINE f(i) == <<F[i], V[i]>>
           g(i) == <<Text(r.headers[i][1]), Text(r.headers[i][2])>>
<1>7. HeadersOf(r) = {f(i) : i \in L} /\ MeantHeaders(r) = {g(i) : i \in L}
      /\ \A i \in L : f(i) = g(i)
    BY <1>3, <1>4, <1>5, <1>6, Zenon
<1> HIDE DEF f, g, L
<1> QED
    BY <1>7

\* There is one header of a name, and get_header finds it.
LEMMA HeaderGot ==
    ASSUME NEW r, IsRequest(r), NEW name, NEW q, q.headers = HeadersOf(r)
    PROVE  /\ \A v : <<Text(name), v>> \in MeantHeaders(r) => GetHeader(q, name) = v
           /\ GetHeader(q, name) # <<>> => <<Text(name), GetHeader(q, name)>> \in MeantHeaders(r)
<1> DEFINE H == MeantHeaders(r)
<1>1. q.headers = H
    BY HeadersMeant, Zenon
<1>2. \A h \in H : h = <<h[1], h[2]>>
    BY DEF MeantHeaders
<1>3. \A g, h \in H : g[1] = h[1] => g = h
    <2> DEFINE n == Len(r.headers)
               N(i) == r.headers[i][1]
               T(i) == <<Text(N(i)), Text(r.headers[i][2])>>
               M == {j \in 1..n : \A k \in (j + 1)..n : N(k) # N(j)}
    <2>1. n \in Nat /\ DOMAIN r.headers = 1..n
        <3>1. r.headers \in Seq(STRING \X STRING)
            BY Zenon DEF IsRequest
        <3> QED
            BY <3>1, SeqDomain, Zenon
    <2>2. H = {T(i) : i \in M}
        BY <2>1, Zenon DEF MeantHeaders
    <2>3. ASSUME NEW g \in H, NEW h \in H, g[1] = h[1] PROVE g = h
        <3>1. PICK i \in M : g = T(i)
            BY <2>2, Zenon
        <3>2. PICK j \in M : h = T(j)
            BY <2>2, Zenon
        <3>3. N(i) = N(j)
            <4>1. g[1] = Text(N(i)) /\ h[1] = Text(N(j))
                BY <3>1, <3>2
            <4> QED
                BY <2>3, <4>1, TextIs, Zenon
        <3>4. i = j
            <4> HIDE DEF N, n
            <4>1. i \in 1..n /\ j \in 1..n
                OBVIOUS
            <4>2. j \notin (i + 1)..n /\ i \notin (j + 1)..n
                BY <3>3, Zenon
            <4> QED
                BY <2>1, <4>1, <4>2
        <3> QED
            BY <3>1, <3>2, <3>4, Zenon
    <2> QED
        BY <2>3, Zenon
<1>4. ASSUME NEW v, <<Text(name), v>> \in H PROVE GetHeader(q, name) = v
    <2> DEFINE g == <<Text(name), v>>
               h == CHOOSE h \in q.headers : h[1] = Text(name)
    <2>1. g \in H /\ g[1] = Text(name) /\ g[2] = v
        BY <1>4
    <2> HIDE DEF g
    <2>2. h \in H /\ h[1] = Text(name)
        BY <1>1, <2>1, Zenon
    <2>3. h = g
        BY <1>3, <2>1, <2>2, Zenon
    <2>4. GetHeader(q, name) = h[2]
        BY <1>1, <2>1, Zenon DEF GetHeader
    <2> QED
        BY <2>1, <2>3, <2>4, Zenon
<1>5. ASSUME GetHeader(q, name) # <<>> PROVE <<Text(name), GetHeader(q, name)>> \in H
    <2> DEFINE h == CHOOSE h \in q.headers : h[1] = Text(name)
    <2>1. \E x \in q.headers : x[1] = Text(name)
        BY <1>5, Zenon DEF GetHeader
    <2>2. h \in H /\ h[1] = Text(name)
        BY <1>1, <2>1, Zenon
    <2>3. GetHeader(q, name) = h[2]
        BY <2>1, Zenon DEF GetHeader
    <2> QED
        BY <1>2, <2>2, <2>3, Zenon
<1> QED
    BY <1>4, <1>5, Zenon


\* The type of a body, and whether a request names its length.
LEMMA TypeGot ==
    ASSUME NEW r, IsRequest(r)
    PROVE  /\ \A t : t # "" => (GetHeader(Gathered(r), "type") = Text(t) <=> TypeIs(r, t))
           /\ ~HasHeader(Gathered(r), "length") =>
                ~\E h \in MeantHeaders(r) : h[1] = Text("length") /\ h[2] # <<>>
<1> DEFINE q == Gathered(r)
<1>1. q.headers = HeadersOf(r)
    BY DEF Gathered, NewRequest
<1> HIDE DEF q
<1>2. ASSUME NEW name
      PROVE  /\ \A v : <<Text(name), v>> \in MeantHeaders(r) => GetHeader(q, name) = v
             /\ GetHeader(q, name) # <<>> =>
                  <<Text(name), GetHeader(q, name)>> \in MeantHeaders(r)
    BY <1>1, HeaderGot, Zenon
<1>3. ASSUME NEW t, t # "" PROVE GetHeader(q, "type") = Text(t) <=> TypeIs(r, t)
    <2>1. Text(t) # <<>>
        BY <1>3, TextIs, Zenon
    <2> QED
        BY <1>2, <2>1, Zenon DEF TypeIs
<1>4. ASSUME NEW h \in MeantHeaders(r), h[1] = Text("length"), h[2] # <<>>
      PROVE  HasHeader(q, "length")
    <2>1. h = <<h[1], h[2]>>
        BY DEF MeantHeaders
    <2>2. GetHeader(q, "length") = h[2]
        BY <1>2, <1>4, <2>1, Zenon
    <2> QED
        BY <1>4, <2>2, Zenon DEF HasHeader
<1> QED
    BY <1>3, <1>4, Zenon DEF q

\* What comes of the body of a request.
IsOutcome(b, items, params) == b.items = items /\ b.params = params /\ ~b.failed

LEMMA OutcomeIs ==
    ASSUME NEW r, IsRequest(r), SentInParts(r)
    PROVE  /\ TypeIs(r, "multipart") /\ r.parts # <<>> =>
                 IsOutcome(Outcome(r), Items(r), <<>> \o Named(Items(r)))
           /\ TypeIs(r, "form") /\ Body(r) # <<>> =>
                 IsOutcome(Outcome(r), <<>>,
                           <<>> \o ParseQueryUrl([i \in DOMAIN Body(r) |-> Body(r)[i].text]))
           /\ (~TypeIs(r, "multipart") /\ ~TypeIs(r, "form")) \/ Body(r) = <<>> =>
                 IsOutcome(Outcome(r), <<>>, <<>>)
           /\ TypeIs(r, "multipart") /\ r.parts = <<>> => Body(r) = <<>>
           /\ ~(TypeIs(r, "multipart") /\ TypeIs(r, "form"))
<1> DEFINE q == Gathered(r)
           asis == [items |-> <<>>, params |-> <<>>, failed |-> FALSE]
           form == <<>> \o ParseQueryUrl([i \in DOMAIN Body(r) |-> Body(r)[i].text])
           many == NoneYet(Items(r), <<>> \o Named(Items(r)))
           type == GetHeader(q, "type")
<1>1. q.headers = HeadersOf(r) /\ q.body = Body(r) /\ q.items = <<>> /\ q.form = <<>>
    BY DEF Gathered, NewRequest
<1>2. /\ type = Text("multipart") <=> TypeIs(r, "multipart")
      /\ type = Text("form") <=> TypeIs(r, "form")
    <2>1. "multipart" # "" /\ "form" # ""
        OBVIOUS
    <2> QED
        BY <2>1, TypeGot, Zenon
<1>3. Text("multipart") # Text("form")
    <2>1. "multipart" # "form"
        OBVIOUS
    <2> QED
        BY <2>1, TextIs, Zenon
<1>4. ASSUME TypeIs(r, "multipart") PROVE NamesClear(r) /\ r.form = <<>> /\ r.raw = <<>>
    BY <1>4, Zenon DEF SentInParts, NamesClear
<1> HIDE DEF q
<1>5. IsOutcome(asis, <<>>, <<>>) /\ IsOutcome([asis EXCEPT !.params = form], <<>>, form)
    <2> HIDE DEF form
    <2> QED
        BY DEF IsOutcome
<1>6. IsOutcome(many, Items(r), <<>> \o Named(Items(r)))
    <2> DEFINE I == Items(r)
               P == <<>> \o Named(Items(r))
    <2> HIDE DEF I, P
    <2>1. IsOutcome(NoneYet(I, P), I, P)
        BY DEF IsOutcome, NoneYet
    <2> QED
        BY <2>1, Zenon DEF I, P
<1>7. CASE Body(r) = <<>>
    <2>1. Outcome(r) = asis
        BY <1>1, <1>7, Zenon DEF Outcome, ParsedBody, q
    <2>2. TypeIs(r, "multipart") => r.parts = <<>>
        <3> SUFFICES ASSUME TypeIs(r, "multipart"), r.parts # <<>> PROVE FALSE
            OBVIOUS
        <3>1. Comes(ByCall, NoneYet(<<>>, <<>>), <<>>, many)
            BY <1>4, <1>7, BodyOfParts, Zenon
        <3>2. ParseMultipart(<<>>, <<>>, <<>>) = many
            BY <3>1, CallsCome
        <3>3. Comes(ByCall, NoneYet(<<>>, <<>>), <<>>, NoneYet(<<>>, <<>>))
            BY ComesShort, Zenon
        <3>4. ParseMultipart(<<>>, <<>>, <<>>) = NoneYet(<<>>, <<>>)
            BY <3>3, CallsCome
        <3>5. Items(r) = <<>>
            <4> DEFINE I == Items(r)
                       P == <<>> \o Named(Items(r))
            <4> HIDE DEF I, P
            <4>1. NoneYet(I, P) = NoneYet(<<>>, <<>>) => I = <<>>
                BY DEF NoneYet
            <4> QED
                BY <3>2, <3>4, <4>1, Zenon DEF I, P
        <3> QED
            BY <3>5, ItemsAre
    <2> QED
        BY <1>2, <1>3, <1>5, <1>7, <2>1, <2>2, Zenon
<1>8. CASE Body(r) # <<>> /\ type = Text("form")
    <2>1. Outcome(r) = [asis EXCEPT !.params = form]
        BY <1>1, <1>3, <1>8, Zenon DEF Outcome, ParsedBody, q
    <2> QED
        BY <1>2, <1>3, <1>5, <1>8, <2>1, Zenon
<1>9. CASE Body(r) # <<>> /\ type = Text("multipart")
    <2>1. Outcome(r) = ParseMultipart(Body(r), <<>>, <<>>)
        BY <1>1, <1>3, <1>9, Zenon DEF Outcome, ParsedBody, q
    <2>2. r.parts # <<>> /\ Comes(ByCall, NoneYet(<<>>, <<>>), Body(r), many)
        BY <1>2, <1>4, <1>9, BodyOfParts, Zenon
    <2>3. Outcome(r) = many
        BY <2>1, <2>2, CallsCome
    <2> QED
        BY <1>2, <1>3, <1>6, <1>9, <2>2, <2>3, Zenon
<1>10. CASE Body(r) # <<>> /\ type # Text("form") /\ type # Text("multipart")
    <2>1. Outcome(r) = asis
        BY <1>1, <1>10, Zenon DEF Outcome, ParsedBody, q
    <2> QED
        BY <1>2, <1>3, <1>5, <1>10, <2>1, Zenon
<1> QED
    BY <1>7, <1>8, <1>9, <1>10, Zenon

-----------------------------------------------------------------------------
(* What follows from the invariant *)

\* A request that may be served is not refused.
LEMMA AcceptableServed ==
    ASSUME NEW r, IsRequest(r), Acceptable(r)
    PROVE  Len(Wire(r)) <= MAX_REQ_SIZE /\ ~Refusable(r)
<1>1. SentInParts(r) /\ Len(Wire(r)) <= MAX_REQ_SIZE
    BY Zenon DEF Acceptable
<1>2. r.method = "POST" => HasHeader(Gathered(r), "length")
    BY TypeGot, Zenon DEF Acceptable
<1>3. ~Outcome(r).failed
    BY <1>1, OutcomeIs, Zenon DEF IsOutcome
<1> QED
    BY <1>1, <1>2, <1>3, Zenon DEF Refusable

\* The requests of a session.
LEMMA RequestsAre ==
    ASSUME sent \in Sessions
    PROVE  \A n \in 1..Len(sent) : IsRequest(sent[n])
<1>1. sent \in Seq(ToSet(sent)) /\ \A n \in DOMAIN sent : IsRequest(sent[n])
    BY ParserAssumption, Zenon
<1>2. DOMAIN sent = 1..Len(sent)
    BY <1>1, SeqDomain, Zenon
<1> QED
    BY <1>1, <1>2, Zenon

\* A client that waits for its answers gets one: nothing that has arrived whole is
\* left unanswered, and nothing that may be served is refused (RequestParser!Answered).
THEOREM AnsweredAlways == Spec => []Answered
<1>1. ASSUME ParserInv, AnswerInv PROVE Answered
    <2> SUFFICES ASSUME ~ahead
                 PROVE  /\ conn = "reading" /\ Len(handled) < Len(sent)
                              => got < End(Len(handled) + 1)
                        /\ conn = "refused" => ~Acceptable(sent[Len(handled) + 1])
        BY Zenon DEF Answered
    <2>1. /\ sent \in Sessions /\ got \in Nat /\ Len(handled) \in Nat
          /\ Len(handled) <= Len(sent)
        <3>1. sent \in Sessions /\ got \in 0..Len(Stream) /\ handled \in Seq(ToSet(handled))
              /\ Len(handled) <= Len(sent)
            BY <1>1, Zenon DEF ParserInv
        <3> QED
            BY <3>1, SeqDomain
    <2> DEFINE n == Len(handled) + 1
               w == Len(Wire(sent[n]))
    <2>2. ASSUME Len(handled) < Len(sent)
          PROVE  /\ n \in 1..Len(sent) /\ n - 1 = Len(handled) /\ IsRequest(sent[n])
                 /\ w \in Nat /\ End(n) = End(n - 1) + w /\ End(n - 1) \in Nat
        <3>1. Len(sent) \in Nat
            BY <2>1, StreamShape, Zenon
        <3>2. n \in 1..Len(sent) /\ n - 1 = Len(handled) /\ n - 1 \in 0..Len(sent)
            BY <2>1, <2>2, <3>1
        <3> QED
            BY <2>1, <3>2, StreamShape, RequestsAre, Zenon
    <2>3. ASSUME conn = "reading", Len(handled) < Len(sent) PROVE got < End(n)
        <3>1. Len(handled) # Len(sent)
            BY <2>1, <2>3
        <3>2. got - End(Len(handled)) < w
            BY <1>1, <2>3, <3>1, Zenon DEF AnswerInv, Since, Current
        <3> HIDE DEF w
        <3>3. got - End(n - 1) < w
            BY <2>2, <2>3, <3>2, Zenon
        <3>4. End(n) = End(n - 1) + w /\ End(n - 1) \in Nat /\ w \in Nat
            BY <2>2, <2>3, Zenon
        <3> HIDE DEF n
        <3> QED
            BY <2>1, <3>3, <3>4
    <2>4. ASSUME conn = "refused" PROVE ~Acceptable(sent[n])
        <3>1. Len(handled) < Len(sent) /\ (w > MAX_REQ_SIZE \/ Refusable(sent[n]))
            BY <1>1, <2>4, Zenon DEF AnswerInv, Current
        <3>2. IsRequest(sent[n]) /\ w \in Nat
            BY <2>2, <3>1, Zenon
        <3>3. Acceptable(sent[n]) => w <= MAX_REQ_SIZE /\ ~Refusable(sent[n])
            BY <3>2, AcceptableServed, Zenon
        <3>4. w > MAX_REQ_SIZE => ~(w <= MAX_REQ_SIZE)
            BY <3>2, ParserAssumption
        <3> QED
            BY <3>1, <3>3, <3>4, Zenon
    <2> QED
        BY <2>3, <2>4, Zenon
<1> QED
    BY <1>1, InvAlways, AnswerInvAlways, PTL

-----------------------------------------------------------------------------
(* Escapes *)

\* Pieces without a character make a text without it.
LEMMA FreeFlat ==
    ASSUME NEW X, NEW ss \in Seq(Seq(X)), NEW sep, \A i \in 1..Len(ss) : Free(ss[i], sep)
    PROVE  Free(FlattenSeq(ss), sep)
<1> DEFINE s == FlattenSeq(ss)
<1>1. s \in Seq(X)
    BY FlattenIsSeq, Zenon
<1>2. Len(s) \in Nat /\ DOMAIN s = 1..Len(s)
    BY <1>1, SeqDomain, Zenon
<1>3. ASSUME NEW g \in 1..Len(s) PROVE s[g] # sep
    <2>1. PICK n \in 1..Len(ss) : Upto(ss, n - 1) < g /\ g <= Upto(ss, n)
        BY PlaceIn, Zenon
    <2>2. /\ Upto(ss, n - 1) \in Nat /\ Upto(ss, n) = Upto(ss, n - 1) + Len(ss[n])
          /\ Len(ss[n]) \in Nat /\ DOMAIN ss[n] = 1..Len(ss[n])
        <3>1. Len(ss) \in Nat
            OBVIOUS
        <3>2. n - 1 \in 0..Len(ss) /\ ss[n] \in Seq(X)
            BY <3>1
        <3> QED
            BY <3>2, SeqDomain, UptoSteps, Zenon
    <2> DEFINE j == g - Upto(ss, n - 1)
    <2>3. j \in 1..Len(ss[n]) /\ Upto(ss, n - 1) + j = g
        <3> HIDE DEF s
        <3> QED
            BY <1>2, <2>1, <2>2
    <2> HIDE DEF j
    <2>4. s[Upto(ss, n - 1) + j] = ss[n][j]
        BY <2>3, PlaceHas, Zenon
    <2>5. ss[n][j] # sep
        BY <2>2, <2>3, Zenon DEF Free
    <2> QED
        BY <2>3, <2>4, <2>5, Zenon
<1> QED
    BY <1>2, <1>3, Zenon DEF Free

\* A character as Escape writes it.
EscapeOf(c) ==
    IF c = " " THEN <<"+">>
    ELSE IF \E x \in DOMAIN CharOf : CharOf[x] = c
    THEN LET x == CHOOSE x \in DOMAIN CharOf : CharOf[x] = c IN <<"%">> \o x
    ELSE <<c>>

\* It stands for the character, and holds no separator.
Separators == {"&", "=", "?"}

LEMMA EscapeOfIs ==
    ASSUME NEW c \in STRING
    PROVE  /\ EscapeOf(c) \in Seq(Char) /\ Stands(EscapeOf(c), c)
           /\ \A sep \in Separators : Free(EscapeOf(c), sep)
<1> DEFINE x == CHOOSE x \in DOMAIN CharOf : CharOf[x] = c
<1>1. \A sep \in Separators : /\ "+" # sep /\ "%" # sep
                              /\ \A d \in HexDigits : d # sep
    BY DEF Separators, HexDigits
<1>2. \A d \in Separators \cup {"+", "%"} : \E y \in DOMAIN CharOf : CharOf[y] = d
    <2>1. Separators \cup {"+", "%"} = {"%", "+", "&", "=", "?"}
        BY DEF Separators
    <2>2. {"%", "+", "&", "=", "?"} \subseteq {CharOf[y] : y \in DOMAIN CharOf}
        BY CharAssumption, Zenon
    <2> HIDE DEF Separators
    <2> QED
        BY <2>1, <2>2, Zenon
<1>3. "+" \in Char /\ "%" \in Char /\ c \in Char /\ HexDigits \subseteq Char
    BY DEF Char
<1>4. \A a, sep : a # sep => Free(<<a>>, sep)
    BY FreeOf
<1>5. CASE c = " "
    <2>1. EscapeOf(c) = <<"+">>
        BY <1>5, Zenon DEF EscapeOf
    <2>2. <<"+">> \in Seq(Char)
        BY <1>3, SingleType, Zenon
    <2>3. \A sep \in Separators : Free(<<"+">>, sep)
        BY <1>1, <1>4, Zenon
    <2>4. Stands(<<"+">>, c)
        BY <1>5, Zenon DEF Stands
    <2> QED
        BY <2>1, <2>2, <2>3, <2>4, Zenon
<1>6. CASE c # " " /\ ~\E y \in DOMAIN CharOf : CharOf[y] = c
    <2>1. EscapeOf(c) = <<c>>
        BY <1>6, Zenon DEF EscapeOf
    <2>2. <<c>> \in Seq(Char)
        BY <1>3, SingleType, Zenon
    <2>3. c \notin Separators \cup {"+", "%"}
        BY <1>2, <1>6, Zenon
    <2>4. c # "+" /\ c # "%" /\ \A sep \in Separators : c # sep
        BY <2>3
    <2>5. \A sep \in Separators : Free(<<c>>, sep)
        <3> TAKE sep \in Separators
        <3>1. c # sep
            BY <2>4
        <3> QED
            BY <1>4, <3>1, Zenon
    <2>6. Stands(<<c>>, c)
        BY <2>4, Zenon DEF Stands
    <2> QED
        BY <2>1, <2>2, <2>5, <2>6, Zenon
<1>7. CASE c # " " /\ \E y \in DOMAIN CharOf : CharOf[y] = c
    <2>1. EscapeOf(c) = <<"%">> \o x
        BY <1>7, Zenon DEF EscapeOf
    <2>2. x \in DOMAIN CharOf /\ CharOf[x] = c
        BY <1>7, Zenon
    <2> HIDE DEF x
    <2>3. x \in HexDigits \X HexDigits
        BY <2>2, CharAssumption, Zenon
    <2>4. x \in Seq(HexDigits)
        BY <2>3, PairType, Zenon
    <2>5. x \in Seq(Char) /\ <<"%">> \in Seq(Char)
        BY <1>3, <2>4, SubType, SingleType, Zenon
    <2>6. <<"%">> \o x \in Seq(Char)
        BY <2>5, ConcatType, Zenon
    <2>7. \A sep \in Separators : Free(<<"%">> \o x, sep)
        <3> TAKE sep \in Separators
        <3>1. Free(<<"%">>, sep)
            BY <1>1, <1>4, Zenon
        <3>2. Free(x, sep)
            <4>1. \A i \in DOMAIN x : x[i] \in HexDigits
                BY <2>4
            <4> QED
                BY <1>1, <4>1, Zenon DEF Free
        <3> QED
            BY <2>5, <3>1, <3>2, FreeOf, Zenon
    <2>8. Stands(<<"%">> \o x, c)
        BY <2>2, Zenon DEF Stands
    <2> QED
        BY <2>1, <2>6, <2>7, <2>8, Zenon
<1> QED
    BY <1>5, <1>6, <1>7, Zenon

\* What is escaped is unescaped to what it was, and holds no separator.
LEMMA EscapeIs ==
    ASSUME NEW v \in Seq(STRING)
    PROVE  /\ Escape(v) \in Seq(Char) /\ Unescape(Escape(v)) = v
           /\ \A sep \in Separators : Free(Escape(v), sep)
<1> DEFINE n == Len(v)
           ss == [i \in DOMAIN v |-> EscapeOf(v[i])]
<1>1. n \in Nat /\ DOMAIN v = 1..n /\ \A i \in 1..n : v[i] \in STRING
    OBVIOUS
<1>2. Escape(v) = FlattenSeq(ss)
    BY Zenon DEF Escape, EscapeOf
<1>3. ss = [i \in 1..n |-> ss[i]] /\ \A i \in 1..n : ss[i] = EscapeOf(v[i])
    BY <1>1, Zenon
<1>4. \A i \in 1..n : /\ ss[i] \in Seq(Char) /\ Stands(ss[i], v[i])
                      /\ \A sep \in Separators : Free(ss[i], sep)
    BY <1>1, <1>3, EscapeOfIs, Zenon
<1> HIDE DEF ss
<1>5. ss \in Seq(Seq(Char)) /\ Len(ss) = n
    <2> HIDE DEF n
    <2>1. ss \in Seq(Seq(Char))
        BY <1>1, <1>3, <1>4, FunctionType, Zenon
    <2> QED
        BY <1>1, <1>3, <2>1
<1>6. Unescape(FlattenSeq(ss)) = v
    <2>1. Len(ss) = Len(v) /\ \A i \in 1..Len(v) : Stands(ss[i], v[i])
        BY <1>4, <1>5, Zenon
    <2> QED
        BY <1>5, <2>1, UnescapeStands
<1>7. \A sep \in Separators : Free(FlattenSeq(ss), sep)
    BY <1>4, <1>5, FreeFlat, Zenon
<1>8. FlattenSeq(ss) \in Seq(Char)
    BY <1>5, FlattenIsSeq, Zenon
<1> QED
    BY <1>2, <1>6, <1>7, <1>8, Zenon


-----------------------------------------------------------------------------
(* What a URL and a form carry *)

\* Parameters as they are sent.
EscapedPairs(pairs) == [i \in DOMAIN pairs |-> <<pairs[i][1], Escape(pairs[i][2])>>]

LEMMA EscapedPairsType ==
    ASSUME NEW pairs \in Seq(Seq(STRING) \X Seq(STRING))
    PROVE  /\ Len(pairs) \in Nat /\ DOMAIN pairs = 1..Len(pairs)
           /\ \A i \in 1..Len(pairs) : pairs[i][1] \in Seq(STRING) /\ pairs[i][2] \in Seq(STRING)
           /\ EscapedPairs(pairs) \in Seq(Seq(Char) \X Seq(Char))
           /\ Len(EscapedPairs(pairs)) = Len(pairs)
           /\ DOMAIN EscapedPairs(pairs) = 1..Len(pairs)
           /\ \A i \in 1..Len(pairs) :
                /\ EscapedPairs(pairs)[i] = <<pairs[i][1], Escape(pairs[i][2])>>
                /\ EscapedPairs(pairs)[i][1] = pairs[i][1]
                /\ EscapedPairs(pairs)[i][2] = Escape(pairs[i][2])
<1> DEFINE n == Len(pairs)
           ps == EscapedPairs(pairs)
<1>1. n \in Nat /\ DOMAIN pairs = 1..n
    OBVIOUS
<1>2. \A i \in 1..n : pairs[i][1] \in Seq(STRING) /\ pairs[i][2] \in Seq(STRING)
    <2>1. \A p \in Seq(STRING) \X Seq(STRING) : p[1] \in Seq(STRING) /\ p[2] \in Seq(STRING)
        OBVIOUS
    <2>2. \A i \in 1..n : pairs[i] \in Seq(STRING) \X Seq(STRING)
        OBVIOUS
    <2> QED
        BY <2>1, <2>2, Zenon
<1>3. ps = [i \in 1..n |-> ps[i]] /\ \A i \in 1..n : ps[i] = <<pairs[i][1], Escape(pairs[i][2])>>
    BY <1>1, Zenon DEF EscapedPairs
<1>4. \A i \in 1..n : pairs[i][1] \in Seq(Char) /\ Escape(pairs[i][2]) \in Seq(Char)
    BY <1>2, CharType, EscapeType, Zenon
<1> HIDE DEF n, ps
<1>5. \A i \in 1..n : /\ ps[i] \in Seq(Char) \X Seq(Char)
                      /\ ps[i][1] = pairs[i][1] /\ ps[i][2] = Escape(pairs[i][2])
    <2> TAKE i \in 1..n
    <2>1. \A a, b \in Seq(Char) : /\ <<a, b>> \in Seq(Char) \X Seq(Char)
                                  /\ <<a, b>>[1] = a /\ <<a, b>>[2] = b
        OBVIOUS
    <2> DEFINE a == pairs[i][1]
               b == Escape(pairs[i][2])
    <2>2. a \in Seq(Char) /\ b \in Seq(Char) /\ ps[i] = <<a, b>>
        BY <1>3, <1>4, Zenon
    <2> HIDE DEF a, b
    <2>3. /\ <<a, b>> \in Seq(Char) \X Seq(Char)
          /\ <<a, b>>[1] = a /\ <<a, b>>[2] = b
        BY <2>1, <2>2, Zenon
    <2>4. ps[i] \in Seq(Char) \X Seq(Char) /\ ps[i][1] = a /\ ps[i][2] = b
        BY <2>2, <2>3
    <2> QED
        BY <2>4, Zenon DEF a, b
<1>6. ps \in Seq(Seq(Char) \X Seq(Char))
    BY <1>1, <1>3, <1>5, FunctionType, Zenon
<1>7. DOMAIN ps = 1..n /\ Len(ps) = n
    BY <1>1, <1>3, <1>6
<1> QED
    BY <1>1, <1>2, <1>3, <1>5, <1>6, <1>7, Zenon DEF n, ps

\* Texts can be joined in either order.
Regroups(s, t, u) == (s \o t) \o u = s \o (t \o u)

LEMMA TextsRegroup ==
    ASSUME NEW X, NEW s \in Seq(X), NEW t \in Seq(X), NEW u \in Seq(X)
    PROVE  Regroups(s, t, u)
BY Assoc DEF Regroups

\* A query is its parameters joined, and not empty when there is one; without "?" in
\* the names there is none in it.
LEMMA QueryIs ==
    ASSUME NEW pairs \in Seq(Seq(STRING) \X Seq(STRING))
    PROVE  /\ Query(pairs) = Joined(SentParams(EscapedPairs(pairs)), "&")
           /\ pairs # <<>> => Query(pairs) # <<>>
           /\ (\A i \in DOMAIN pairs : Free(pairs[i][1], "?")) => Free(Query(pairs), "?")
<1> DEFINE n == Len(pairs)
           ps == EscapedPairs(pairs)
           st == SentParams(ps)
           sep(i) == IF i = 1 THEN <<>> ELSE <<"&">>
           ss == [i \in DOMAIN pairs |->
                     sep(i) \o pairs[i][1] \o <<"=">> \o Escape(pairs[i][2])]
<1>1. /\ n \in Nat /\ DOMAIN pairs = 1..n /\ DOMAIN ps = 1..n
      /\ \A i \in 1..n : /\ pairs[i][1] \in Seq(STRING) /\ pairs[i][2] \in Seq(STRING)
                         /\ ps[i][1] = pairs[i][1] /\ ps[i][2] = Escape(pairs[i][2])
    BY EscapedPairsType, Zenon
<1>2. Query(pairs) = FlattenSeq(ss)
    BY Zenon DEF Query
<1>3. st = [i \in 1..n |-> Param(pairs[i][1], Escape(pairs[i][2]))]
    BY <1>1, Zenon DEF SentParams
<1>4. ss = [i \in 1..n |-> ss[i]]
      /\ \A i \in 1..n : ss[i] = ((sep(i) \o pairs[i][1]) \o <<"=">>) \o Escape(pairs[i][2])
    BY <1>1, Zenon
<1>5. \A i : sep(i) \in Seq(Char)
    BY CharType, EmptySeq, Zenon
<1>6. "=" \in Char /\ "&" \in Char /\ <<"=">> \in Seq(Char)
    BY CharType DEF Char
<1> HIDE DEF sep, ss, n, st, ps
<1>7. ASSUME NEW i \in 1..n
      PROVE  /\ ss[i] \in Seq(Char) /\ ss[i] # <<>>
             /\ ss[i] = sep(i) \o Param(pairs[i][1], Escape(pairs[i][2]))
    <2> DEFINE a == sep(i)
               b == pairs[i][1]
               c == <<"=">>
               d == Escape(pairs[i][2])
    <2>1. a \in Seq(Char) /\ b \in Seq(Char) /\ c \in Seq(Char) /\ d \in Seq(Char)
        BY <1>1, <1>5, <1>6, CharType, EscapeType, Zenon
    <2>2. Len(c) = 1
        OBVIOUS
    <2> HIDE DEF a, b, c, d
    <2>3. a \o b \in Seq(Char) /\ (a \o b) \o c \in Seq(Char) /\ ((a \o b) \o c) \o d \in Seq(Char)
          /\ c \o d \in Seq(Char)
        BY <2>1, ConcatType, Zenon
    <2>4. ((a \o b) \o c) \o d = (a \o b) \o (c \o d)
        <3>1. Regroups(a \o b, c, d)
            BY <2>1, <2>3, TextsRegroup, Zenon
        <3> QED
            BY <3>1, Zenon DEF Regroups
    <2>5. (a \o b) \o (c \o d) = a \o (b \o (c \o d))
        <3>1. Regroups(a, b, c \o d)
            BY <2>1, <2>3, TextsRegroup, Zenon
        <3> QED
            BY <3>1, Zenon DEF Regroups
    <2>6. ((a \o b) \o c) \o d # <<>>
        <3> DEFINE e == a \o b
        <3>1. e \in Seq(Char)
            BY <2>3, Zenon
        <3> HIDE DEF e
        <3>3. e \o c \in Seq(Char) /\ Len(e \o c) = Len(e) + Len(c)
            BY <2>1, <3>1, ConcatType, Zenon
        <3>4. Len((e \o c) \o d) = Len(e \o c) + Len(d)
            BY <2>1, <3>3, ConcatType, Zenon
        <3>5. Len(e) \in Nat /\ Len(d) \in Nat
            BY <2>1, <3>1
        <3>2. Len((e \o c) \o d) # 0 /\ Len(<<>>) = 0
            <4> DEFINE f == e \o c
            <4> HIDE DEF f
            <4>1. Len(f \o d) # 0
                BY <2>2, <3>3, <3>4, <3>5 DEF f
            <4> QED
                BY <4>1, EmptySeq, Zenon DEF f
        <3> QED
            BY <3>2, Zenon DEF e
    <2>7. ss[i] = ((a \o b) \o c) \o d
        BY <1>4, Zenon DEF a, b, c, d
    <2>8. Param(b, d) = b \o (c \o d)
        BY Zenon DEF Param, c
    <2> QED
        BY <2>3, <2>4, <2>5, <2>6, <2>7, <2>8, Zenon DEF a, b, c, d
<1>8. ss \in Seq(Seq(Char)) /\ Len(ss) = n
    <2>1. ss \in Seq(Seq(Char))
        BY <1>1, <1>4, <1>7, FunctionType, Zenon
    <2> QED
        BY <1>1, <1>4, <2>1
<1>9. FlattenSeq(ss) = Joined(st, "&")
    <2> DEFINE g(i) == (IF i = 1 THEN <<>> ELSE <<"&">>) \o st[i]
    <2>1. DOMAIN st = 1..n /\ \A i \in 1..n : st[i] = Param(pairs[i][1], Escape(pairs[i][2]))
        BY <1>3, Zenon
    <2>2. \A i \in 1..n : ss[i] = g(i)
        BY <1>7, <2>1, Zenon DEF sep
    <2>3. ss = [i \in DOMAIN st |-> g(i)]
        BY <1>4, <2>1, <2>2, Zenon
    <2>4. Joined(st, "&") = FlattenSeq([i \in DOMAIN st |-> g(i)])
        BY Zenon DEF Joined
    <2> QED
        BY <2>3, <2>4, Zenon
<1>10. ASSUME pairs # <<>> PROVE Query(pairs) # <<>>
    <2>1. 1 \in 1..n
        BY <1>1, <1>10 DEF n
    <2>2. 1 \in 1..Len(ss[1])
        <3>1. ss[1] \in Seq(Char) /\ ss[1] # <<>>
            BY <1>7, <2>1, Zenon
        <3> QED
            BY <3>1
    <2>3. Upto(ss, 1 - 1) + 1 \in 1..Len(FlattenSeq(ss))
        BY <1>8, <2>1, <2>2, PlaceHas, Zenon
    <2>4. FlattenSeq(ss) # <<>>
        BY <2>3
    <2> QED
        BY <1>2, <2>4, Zenon
<1>11. ASSUME \A i \in DOMAIN pairs : Free(pairs[i][1], "?") PROVE Free(Query(pairs), "?")
    <2>1. ASSUME NEW i \in 1..n PROVE Free(ss[i], "?")
        <3> DEFINE a == sep(i)
                   b == pairs[i][1]
                   c == <<"=">>
                   d == Escape(pairs[i][2])
        <3>1. a \in Seq(Char) /\ b \in Seq(Char) /\ c \in Seq(Char) /\ d \in Seq(Char)
            BY <1>1, <1>5, <1>6, CharType, EscapeType, Zenon
        <3>2. Free(d, "?")
            <4>1. "?" \in Separators
                BY DEF Separators
            <4> QED
                BY <1>1, <4>1, EscapeIs, Zenon
        <3>3. Free(c, "?") /\ Free(<<"&">>, "?") /\ Free(<<>>, "?")
            BY DEF Free
        <3>4. Free(a, "?") /\ Free(b, "?")
            BY <1>1, <1>11, <3>3, Zenon DEF sep
        <3>5. ss[i] = ((a \o b) \o c) \o d
            BY <1>4, Zenon
        <3> HIDE DEF a, b, c, d
        <3>6. a \o b \in Seq(Char) /\ (a \o b) \o c \in Seq(Char)
            BY <3>1, ConcatType, Zenon
        <3>7. Free(a \o b, "?")
            BY <3>1, <3>4, FreeOf, Zenon
        <3>8. Free((a \o b) \o c, "?")
            BY <3>1, <3>3, <3>6, <3>7, FreeOf, Zenon
        <3>9. Free(((a \o b) \o c) \o d, "?")
            BY <3>1, <3>2, <3>6, <3>8, FreeOf, Zenon
        <3> QED
            BY <3>5, <3>9, Zenon
    <2> QED
        BY <1>2, <1>8, <2>1, FreeFlat, Zenon
<1> QED
    BY <1>2, <1>9, <1>10, <1>11, Zenon DEF st, ps

\* A query is parsed to its parameters, as they were sent.
LEMMA QueryReads ==
    ASSUME NEW pairs \in Seq(Seq(STRING) \X Seq(STRING)), pairs # <<>>,
           \A i \in DOMAIN pairs : Free(pairs[i][1], "&") /\ Free(pairs[i][1], "=")
    PROVE  ParseQueryUrl(Query(pairs)) = EscapedPairs(pairs)
<1> DEFINE n == Len(pairs)
           ps == EscapedPairs(pairs)
<1>1. /\ n \in Nat /\ DOMAIN pairs = 1..n /\ DOMAIN ps = 1..n /\ Len(ps) = n
      /\ ps \in Seq(Seq(Char) \X Seq(Char))
      /\ \A i \in 1..n : /\ pairs[i][1] \in Seq(STRING) /\ pairs[i][2] \in Seq(STRING)
                         /\ ps[i][1] = pairs[i][1] /\ ps[i][2] = Escape(pairs[i][2])
    BY EscapedPairsType, Zenon
<1>2. n # 0
    BY <1>1
<1>3. "&" \in Separators /\ "=" \in Separators /\ "&" \in Char /\ "=" \in Char
    BY DEF Separators, Char
<1>4. Query(pairs) = Joined(SentParams(ps), "&")
    BY QueryIs, Zenon
<1> HIDE DEF ps
<1>5. \A i \in DOMAIN ps : /\ Free(ps[i][1], "&") /\ Free(ps[i][1], "=")
                           /\ Free(ps[i][2], "&") /\ Free(ps[i][2], "=")
    BY <1>1, <1>3, EscapeIs, Zenon
<1>6. ps # <<>>
    BY <1>1, <1>2
<1>7. ParseQueryUrl(Joined(SentParams(ps), "&")) = ps
    BY <1>1, <1>3, <1>5, <1>6, QueryParsed
<1> QED
    BY <1>4, <1>7, Zenon DEF ps

\* A name free of separators.
LEMMA ClearFree ==
    \A t, S : Clear(t, S) <=> \A sep \in S : Free(t, sep)
BY Zenon DEF Clear, Free

\* The path and the parameters of a URL.
LEMMA UrlReads ==
    ASSUME NEW r, IsRequest(r), WellFormed(r)
    PROVE  /\ Uri(Url(r)) = r.path
           /\ ParseRequestUrlParams(Url(r)) = EscapedPairs(r.query)
<1>1. /\ r.path \in Seq(STRING) /\ r.query \in Seq(Seq(STRING) \X Seq(STRING))
    BY Zenon DEF IsRequest
<1>2. r.path \in Seq(Char) /\ Query(r.query) \in Seq(Char)
    BY <1>1, CharType, QueryType, Zenon
<1>3. Free(r.path, "?")
    <2>1. "?" \in {"?"}
        OBVIOUS
    <2> QED
        BY <2>1, ClearFree, Zenon DEF WellFormed
<1>4. \A i \in DOMAIN r.query :
          Free(r.query[i][1], "?") /\ Free(r.query[i][1], "&") /\ Free(r.query[i][1], "=")
    <2> DEFINE S == {"?", "&", "="}
    <2>1. "?" \in S /\ "&" \in S /\ "=" \in S
        OBVIOUS
    <2>2. \A i \in DOMAIN r.query : Clear(r.query[i][1], S)
        BY Zenon DEF WellFormed
    <2> HIDE DEF S
    <2> QED
        BY <2>1, <2>2, ClearFree, Zenon
<1>5. CASE r.query = <<>>
    <2>1. Url(r) = r.path
        <3>1. r.path \o <<>> = r.path
            BY <1>1
        <3> QED
            BY <1>5, <3>1, Zenon DEF Url
    <2>2. Parts(r.path, "?") = <<r.path>>
        BY <1>2, <1>3, PartsFew
    <2>3. Len(<<r.path>>) = 1 /\ <<r.path>>[1] = r.path
        OBVIOUS
    <2>4. EscapedPairs(<<>>) = <<>>
        <3> DEFINE g(i) == << <<>>[i][1], Escape(<<>>[i][2])>>
        <3>1. EscapedPairs(<<>>) = [i \in DOMAIN <<>> |-> g(i)]
            BY Zenon DEF EscapedPairs
        <3> HIDE DEF g
        <3>2. [i \in DOMAIN <<>> |-> g(i)] = <<>>
            OBVIOUS
        <3> QED
            BY <3>1, <3>2, Zenon
    <2> QED
        BY <1>5, <2>1, <2>2, <2>3, <2>4, Zenon DEF Uri, ParseRequestUrlParams
<1>6. CASE r.query # <<>>
    <2> DEFINE q == Query(r.query)
               t == <<r.path, q>>
    <2>1. Url(r) = r.path \o (<<"?">> \o q)
        BY <1>6, Zenon DEF Url
    <2>2. Free(q, "?")
        BY <1>1, <1>4, QueryIs, Zenon
    <2>3. q \in Seq(Char)
        BY <1>2, Zenon
    <2>4. ParseQueryUrl(q) = EscapedPairs(r.query)
        BY <1>1, <1>4, <1>6, QueryReads
    <2> HIDE DEF q
    <2>5. Parts(r.path \o (<<"?">> \o q), "?") = t
        BY <1>2, <1>3, <2>2, <2>3, PartsFew
    <2>6. Len(t) = 2 /\ 2 # 1 /\ t[1] = r.path /\ t[2] = q
        OBVIOUS
    <2> HIDE DEF t
    <2>7. Uri(Url(r)) = r.path
        BY <2>1, <2>5, <2>6, Zenon DEF Uri
    <2>8. ParseRequestUrlParams(Url(r)) = ParseQueryUrl(q)
        BY <2>1, <2>5, <2>6, Zenon DEF ParseRequestUrlParams
    <2> QED
        BY <2>4, <2>7, <2>8, Zenon
<1> QED
    BY <1>5, <1>6, Zenon


-----------------------------------------------------------------------------
(* What a handler sees *)

\* The body of a form, as text.
LEMMA FormBody ==
    ASSUME NEW r, IsRequest(r), r.parts = <<>>, r.raw = <<>>
    PROVE  /\ [i \in DOMAIN Body(r) |-> Body(r)[i].text] = Query(r.form)
           /\ r.form # <<>> <=> Body(r) # <<>>
<1> DEFINE q == Query(r.form)
           n == Len(q)
           F == [i \in DOMAIN q |-> Call("char", q[i])]
           X == {Call("char", q[i]) : i \in DOMAIN q}
           g(i) == PartCalls(r.parts[i])
           P == FlattenSeq([i \in DOMAIN r.parts |-> g(i)])
<1>1. Body(r) = ((F \o P) \o <<>>) \o <<>>
    BY Zenon DEF Body, Call
<1>2. P = <<>>
    <2>1. [i \in DOMAIN <<>> |-> g(i)] = <<>>
        <3> HIDE DEF g
        <3> QED
            OBVIOUS
    <2>2. FlattenSeq(<<>>) = <<>>
        <3>1. <<>> \in Seq(Seq({})) /\ First(<<>>, 0) = <<>>
            BY DEF First
        <3> QED
            BY <3>1, FlattenSteps, Zenon
    <2>3. P = FlattenSeq([i \in DOMAIN <<>> |-> g(i)])
        BY Zenon
    <2> HIDE DEF g, P
    <2> QED
        BY <2>1, <2>2, <2>3, Zenon
<1>3. r.form \in Seq(Seq(STRING) \X Seq(STRING))
    BY Zenon DEF IsRequest
<1>4. q \in Seq(Char)
    BY <1>3, QueryType, Zenon
<1> HIDE DEF q
<1>5. n \in Nat /\ DOMAIN q = 1..n
    BY <1>4, SeqDomain, Zenon
<1>6. F = [i \in 1..n |-> F[i]] /\ \A i \in 1..n : F[i] = Call("char", q[i]) /\ F[i] \in X
    BY <1>5, Zenon
<1> HIDE DEF F, X, n, P
<1>7. F \in Seq(X) /\ DOMAIN F = 1..n /\ Len(F) = n
    <2>1. F \in Seq(X)
        BY <1>5, <1>6, FunctionType, Zenon
    <2> QED
        BY <1>5, <1>6, <2>1
<1>8. Body(r) = F
    <2>1. ((F \o <<>>) \o <<>>) \o <<>> = F
        <3>1. F \o <<>> = F
            BY <1>7
        <3> QED
            BY <3>1, Zenon
    <2> QED
        BY <1>1, <1>2, <2>1, Zenon
<1>9. \A i \in 1..n : F[i].text = q[i]
    <2>1. \A x, y : Call(x, y).text = y
        BY DEF Call
    <2> QED
        BY <1>6, <2>1, Zenon
<1>10. [i \in DOMAIN Body(r) |-> Body(r)[i].text] = [i \in 1..n |-> q[i]]
    BY <1>7, <1>8, <1>9, Zenon
<1>11. [i \in 1..n |-> q[i]] = q
    BY <1>4 DEF n
<1>12. r.form # <<>> => Body(r) # <<>>
    <2> SUFFICES ASSUME r.form # <<>> PROVE F # <<>>
        BY <1>8, Zenon
    <2>1. q # <<>>
        BY <1>3, QueryIs, Zenon DEF q
    <2>2. n # 0
        BY <1>4, <2>1 DEF n
    <2> QED
        BY <1>7, <2>2
<1>13. r.form = <<>> => Body(r) = <<>>
    <2> SUFFICES ASSUME r.form = <<>> PROVE F = <<>>
        BY <1>8, Zenon
    <2>0. <<>> \in Seq(Seq(STRING) \X Seq(STRING))
        OBVIOUS
    <2> DEFINE h(i) == (IF i = 1 THEN <<>> ELSE <<"&">>) \o <<>>[i][1] \o <<"=">>
                       \o Escape(<<>>[i][2])
    <2>1. q = FlattenSeq([i \in DOMAIN <<>> |-> h(i)])
        BY Zenon DEF Query, q
    <2> HIDE DEF h
    <2>2. [i \in DOMAIN <<>> |-> h(i)] = <<>>
        OBVIOUS
    <2>3. FlattenSeq(<<>>) = <<>>
        <3>1. <<>> \in Seq(Seq({})) /\ First(<<>>, 0) = <<>>
            BY DEF First
        <3> QED
            BY <3>1, FlattenSteps, Zenon
    <2>4. n = 0
        <3>1. q = <<>>
            BY <2>1, <2>2, <2>3, Zenon
        <3> QED
            BY <3>1 DEF n
    <2> QED
        BY <1>7, <2>4
<1> QED
    BY <1>10, <1>11, <1>12, <1>13, Zenon DEF q

\* What comes of the body of a request: the items of its parts, and its parameters.
LEMMA BodyMeant ==
    ASSUME NEW r, IsRequest(r), WellFormed(r)
    PROVE  /\ Outcome(r).items = Items(r)
           /\ Outcome(r).params
                = IF r.parts = <<>> THEN EscapedPairs(r.form) ELSE Named(Items(r))
           /\ r.parts = <<>> \/ r.form = <<>>
<1>1. /\ SentInParts(r)
      /\ r.form # <<>> => TypeIs(r, "form")
      /\ r.parts # <<>> => TypeIs(r, "multipart")
      /\ TypeIs(r, "form") => r.raw = <<>>
      /\ \A i \in DOMAIN r.form : Clear(r.form[i][1], {"&", "="})
    BY Zenon DEF WellFormed
<1>2. r.form \in Seq(Seq(STRING) \X Seq(STRING))
    BY Zenon DEF IsRequest
<1>3. \A i \in DOMAIN r.form : Free(r.form[i][1], "&") /\ Free(r.form[i][1], "=")
    <2> DEFINE S == {"&", "="}
    <2>1. "&" \in S /\ "=" \in S
        OBVIOUS
    <2>2. \A i \in DOMAIN r.form : Clear(r.form[i][1], S)
        BY <1>1, Zenon
    <2> HIDE DEF S
    <2> QED
        BY <2>1, <2>2, ClearFree, Zenon
<1>4. EscapedPairs(r.form) \in Seq(Seq(Char) \X Seq(Char))
      /\ Len(EscapedPairs(r.form)) = Len(r.form) /\ Len(r.form) \in Nat
    BY <1>2, EscapedPairsType, Zenon
<1>5. <<>> \o EscapedPairs(r.form) = EscapedPairs(r.form)
      /\ (r.form = <<>> => EscapedPairs(r.form) = <<>>)
    <2> DEFINE e == EscapedPairs(r.form)
    <2> HIDE DEF e
    <2>1. <<>> \o e = e
        BY <1>4 DEF e
    <2>2. r.form = <<>> => e = <<>>
        BY <1>4 DEF e
    <2> QED
        BY <2>1, <2>2, Zenon DEF e
<1>6. /\ r.parts = <<>> => Items(r) = <<>>
      /\ <<>> \o Named(Items(r)) = Named(Items(r))
    <2>1. Len(r.parts) \in Nat /\ Len(Items(r)) = Len(r.parts)
          /\ DOMAIN Items(r) = 1..Len(r.parts) /\ IsSeq(Items(r))
        BY ItemsAre, Zenon
    <2>2. PICK X : Items(r) \in Seq(X)
        BY <2>1, Zenon DEF IsSeq
    <2> DEFINE I == Items(r)
               n == Len(r.parts)
               e == Named(I)
               Y == {<<I[i].name, I[i].data>> : i \in 1..n}
    <2>3. e = [i \in 1..n |-> e[i]] /\ \A i \in 1..n : e[i] \in Y
        BY <2>1, Zenon DEF Named
    <2> HIDE DEF e, Y, I
    <2>4. e \in Seq(Y)
        BY <2>1, <2>3, FunctionType, Zenon
    <2>5. <<>> \o e = e
        BY <2>4
    <2>6. r.parts = <<>> => I = <<>>
        BY <2>1, <2>2 DEF I
    <2> QED
        BY <2>5, <2>6, Zenon DEF e, I
<1>7. CASE TypeIs(r, "multipart") /\ r.parts # <<>>
    <2>1. IsOutcome(Outcome(r), Items(r), <<>> \o Named(Items(r)))
        BY <1>1, <1>7, OutcomeIs, Zenon
    <2>2. r.form = <<>>
        BY <1>1, <1>7, Zenon DEF SentInParts
    <2> QED
        BY <1>6, <1>7, <2>1, <2>2, Zenon DEF IsOutcome
<1>8. CASE r.parts = <<>> /\ TypeIs(r, "form")
    <2>1. r.raw = <<>>
        BY <1>1, <1>8, Zenon
    <2>2. /\ [i \in DOMAIN Body(r) |-> Body(r)[i].text] = Query(r.form)
          /\ r.form # <<>> <=> Body(r) # <<>>
        BY <1>8, <2>1, FormBody, Zenon
    <2>3. CASE r.form = <<>>
        <3>1. Body(r) = <<>>
            BY <2>2, <2>3, Zenon
        <3>2. IsOutcome(Outcome(r), <<>>, <<>>)
            BY <1>1, <3>1, OutcomeIs, Zenon
        <3> QED
            BY <1>5, <1>6, <1>8, <2>3, <3>2, Zenon DEF IsOutcome
    <2>4. CASE r.form # <<>>
        <3>1. Body(r) # <<>>
            BY <2>2, <2>4, Zenon
        <3>2. IsOutcome(Outcome(r), <<>>,
                        <<>> \o ParseQueryUrl([i \in DOMAIN Body(r) |-> Body(r)[i].text]))
            BY <1>1, <1>8, <3>1, OutcomeIs, Zenon
        <3>3. ParseQueryUrl(Query(r.form)) = EscapedPairs(r.form)
            BY <1>2, <1>3, <2>4, QueryReads
        <3>4. IsOutcome(Outcome(r), <<>>, EscapedPairs(r.form))
            BY <1>5, <2>2, <3>2, <3>3, Zenon
        <3> QED
            BY <1>6, <1>8, <3>4, Zenon DEF IsOutcome
    <2> QED
        BY <2>3, <2>4, Zenon
<1>9. CASE r.parts = <<>> /\ ~TypeIs(r, "form")
    <2>1. r.form = <<>>
        BY <1>1, <1>9, Zenon
    <2>2. (~TypeIs(r, "multipart") /\ ~TypeIs(r, "form")) \/ Body(r) = <<>>
        BY <1>1, <1>9, OutcomeIs, Zenon
    <2>3. IsOutcome(Outcome(r), <<>>, <<>>)
        BY <1>1, <2>2, OutcomeIs, Zenon
    <2> QED
        BY <1>5, <1>6, <1>9, <2>1, <2>3, Zenon DEF IsOutcome
<1> QED
    BY <1>1, <1>7, <1>8, <1>9, Zenon

\* The parameters a handler has, as they were sent.
Raw(r, v) == IF Escaped(r) THEN Escape(v) ELSE v
RawParams(r) ==
    [i \in DOMAIN MeantParams(r) |-> <<MeantParams(r)[i][1], Raw(r, MeantParams(r)[i][2])>>]

LEMMA FinalIs ==
    ASSUME NEW r
    PROVE  /\ Final(r).url = Url(r) /\ Final(r).method = MethodOf(r)
           /\ Final(r).params = ParamsOf(r) /\ Final(r).headers = HeadersOf(r)
           /\ Final(r).body = Body(r) /\ Final(r).items = Outcome(r).items
           /\ Final(r).form = Outcome(r).params
BY DEF Final, NewRequest

\* Of parts, the name and the data.
PartPairs(r) == [i \in DOMAIN r.parts |-> <<r.parts[i].name, FlattenSeq(r.parts[i].data)>>]

LEMMA PartPairsAre ==
    ASSUME NEW r, IsRequest(r)
    PROVE  /\ PartPairs(r) \in Seq(Seq(STRING) \X Seq(STRING))
           /\ Named(Items(r)) = PartPairs(r)
           /\ r.parts = <<>> => PartPairs(r) = <<>>
<1> DEFINE n == Len(r.parts)
           T == Seq(STRING)
           P == [name : T, file : BOOLEAN, filename : T, type : T, data : Seq(T)]
           s == PartPairs(r)
<1>1. n \in Nat /\ DOMAIN r.parts = 1..n /\ DOMAIN Items(r) = 1..n
    BY ItemsAre, Zenon
<1>2. r.parts \in Seq(P)
    BY Zenon DEF IsRequest
<1>3. ASSUME NEW i \in 1..n
      PROVE  r.parts[i].name \in T /\ FlattenSeq(r.parts[i].data) \in T
    <2> DEFINE p == r.parts[i]
    <2>1. p \in P
        <3> HIDE DEF P
        <3> QED
            BY <1>1, <1>2
    <2> HIDE DEF p
    <2>2. p.name \in T /\ p.data \in Seq(T)
        BY <2>1
    <2> QED
        BY <2>2, FlattenIsSeq, Zenon DEF p
<1>4. s = [i \in 1..n |-> s[i]]
      /\ \A i \in 1..n : s[i] = <<r.parts[i].name, FlattenSeq(r.parts[i].data)>>
    BY <1>1, Zenon DEF PartPairs
<1>5. \A i \in 1..n : s[i] \in T \X T
    <2> TAKE i \in 1..n
    <2> DEFINE a == r.parts[i].name
               b == FlattenSeq(r.parts[i].data)
    <2>1. a \in T /\ b \in T /\ s[i] = <<a, b>>
        BY <1>3, <1>4, Zenon
    <2> HIDE DEF a, b, T
    <2> QED
        BY <2>1
<1>6. s \in Seq(T \X T)
    <2> HIDE DEF s, n, T
    <2> QED
        BY <1>1, <1>4, <1>5, FunctionType, Zenon
<1>7. ASSUME NEW i \in 1..n
      PROVE  <<Items(r)[i].name, Items(r)[i].data>>
                = <<r.parts[i].name, FlattenSeq(r.parts[i].data)>>
    <2>1. Items(r)[i] = ItemSent(r.parts[i])
        BY <1>1, Zenon DEF Items
    <2> DEFINE p == r.parts[i]
               d == FlattenSeq(p.data)
               it == Items(r)[i]
    <2>2. it = ItemOf(p.name, p.filename, p.file, p.type, d, TRUE)
        BY <2>1, Zenon DEF ItemSent
    <2> HIDE DEF p, d, it
    <2>3. it.name = p.name /\ it.data = d
        BY <2>2 DEF ItemOf
    <2> QED
        BY <2>3, Zenon DEF p, d, it
<1>8. Named(Items(r)) = s
    BY <1>1, <1>7, Zenon DEF Named, PartPairs
<1>9. r.parts = <<>> => s = <<>>
    <2>1. Len(s) = n /\ Len(<<>>) = 0
        <3> HIDE DEF s, n
        <3> QED
            BY <1>1, <1>4, <1>6
    <2> HIDE DEF s
    <2> QED
        BY <1>6, <2>1
<1> QED
    BY <1>6, <1>8, <1>9, Zenon

\* The parameters a client meant are what it sends.
LEMMA MeantParamsAre ==
    ASSUME NEW r, IsRequest(r), WellFormed(r), r.headers # <<>>
    PROVE  /\ MeantParams(r) \in Seq(Seq(STRING) \X Seq(STRING))
           /\ Params(Final(r)) = RawParams(r)
<1> DEFINE T == Seq(STRING) \X Seq(STRING)
           P == PartPairs(r)
<1>1. r.query \in Seq(T) /\ r.form \in Seq(T)
    BY Zenon DEF IsRequest
<1>2. P \in Seq(T) /\ Named(Items(r)) = P /\ (r.parts = <<>> => P = <<>>)
    BY PartPairsAre, Zenon
<1>3. "GET" # "POST"
    OBVIOUS
<1> DEFINE q == Final(r)
<1>4. /\ q.method = r.method /\ q.params = UrlParams(r) /\ q.form = Outcome(r).params
    BY FinalIs, Zenon DEF MethodOf, ParamsOf
<1> HIDE DEF q
<1>5. CASE r.method = "GET"
    <2>1. MeantParams(r) = r.query /\ Escaped(r)
        BY <1>3, <1>5, Zenon DEF MeantParams, Escaped
    <2>2. Params(q) = UrlParams(r)
        BY <1>3, <1>4, <1>5, Zenon DEF Params
    <2> DEFINE e == EscapedPairs(r.query)
    <2>3. e \in Seq(Seq(Char) \X Seq(Char))
        BY <1>1, EscapedPairsType, Zenon
    <2>4. UrlParams(r) = <<>> \o e
        BY UrlReads, Zenon DEF UrlParams
    <2>5. RawParams(r) = e
        BY <2>1, Zenon DEF RawParams, Raw, EscapedPairs
    <2> HIDE DEF e
    <2>6. <<>> \o e = e
        BY <2>3
    <2> QED
        BY <1>1, <2>1, <2>2, <2>4, <2>5, <2>6, Zenon DEF q
<1>6. CASE r.method = "POST"
    <2>1. MeantParams(r) = r.form \o P
        BY <1>3, <1>6, Zenon DEF MeantParams, PartPairs
    <2>2. Params(q) = Outcome(r).params
        BY <1>3, <1>4, <1>6, Zenon DEF Params
    <2>3. CASE r.parts = <<>>
        <3>1. Escaped(r)
            BY <2>3, Zenon DEF Escaped
        <3>2. r.form \o <<>> = r.form
            BY <1>1
        <3>3. MeantParams(r) = r.form
            BY <1>2, <2>1, <2>3, <3>2, Zenon
        <3>4. RawParams(r) = EscapedPairs(r.form)
            BY <3>1, <3>3, Zenon DEF RawParams, Raw, EscapedPairs
        <3>5. Outcome(r).params = EscapedPairs(r.form)
            BY <2>3, BodyMeant, Zenon
        <3> QED
            BY <1>1, <2>2, <3>3, <3>4, <3>5, Zenon DEF q
    <2>4. CASE r.parts # <<>>
        <3>1. ~Escaped(r)
            BY <1>3, <1>6, <2>4, Zenon DEF Escaped
        <3>2. r.form = <<>> /\ Outcome(r).params = P
            BY <1>2, <2>4, BodyMeant, Zenon
        <3>3. <<>> \o P = P
            <4> HIDE DEF P
            <4> QED
                BY <1>2
        <3>4. MeantParams(r) = P
            BY <2>1, <3>2, <3>3, Zenon
        <3>5. RawParams(r) = [i \in DOMAIN P |-> <<P[i][1], P[i][2]>>]
            BY <3>1, <3>4, Zenon DEF RawParams, Raw
        <3>6. [i \in DOMAIN P |-> <<P[i][1], P[i][2]>>] = P
            <4> HIDE DEF P, T
            <4>1. Len(P) \in Nat /\ DOMAIN P = 1..Len(P) /\ P = [i \in 1..Len(P) |-> P[i]]
                BY <1>2
            <4>2. \A i \in 1..Len(P) : P[i] \in T
                BY <1>2
            <4>3. \A p \in T : <<p[1], p[2]>> = p
                BY DEF T
            <4> QED
                BY <4>1, <4>2, <4>3, Zenon
        <3> QED
            BY <1>2, <2>2, <3>2, <3>4, <3>5, <3>6, Zenon DEF q
    <2> QED
        BY <2>3, <2>4, Zenon
<1>7. CASE r.method # "GET" /\ r.method # "POST"
    <2>1. MeantParams(r) = <<>>
        BY <1>7, Zenon DEF MeantParams
    <2>2. Params(q) = <<>>
        BY <1>4, <1>7, Zenon DEF Params
    <2>3. RawParams(r) = <<>>
        <3> DEFINE g(i) == << <<>>[i][1], Raw(r, <<>>[i][2])>>
        <3>1. RawParams(r) = [i \in DOMAIN <<>> |-> g(i)]
            BY <2>1, Zenon DEF RawParams
        <3> HIDE DEF g
        <3>2. [i \in DOMAIN <<>> |-> g(i)] = <<>>
            OBVIOUS
        <3> QED
            BY <3>1, <3>2, Zenon
    <2>4. <<>> \in Seq(T)
        BY EmptySeq, Zenon
    <2> QED
        BY <2>1, <2>2, <2>3, <2>4, Zenon DEF q
<1> QED
    BY <1>5, <1>6, <1>7, Zenon


\* The items a handler sees are the parts sent.
LEMMA ItemsMeant ==
    ASSUME NEW r, IsRequest(r), WellFormed(r)
    PROVE  Seen(Final(r)).items
             = [i \in DOMAIN r.parts |-> [r.parts[i] EXCEPT !.data = FlattenSeq(r.parts[i].data)]]
<1> DEFINE q == Final(r)
           n == Len(r.parts)
           T == Seq(STRING)
           P == [name : T, file : BOOLEAN, filename : T, type : T, data : Seq(T)]
           shown(it) == [name |-> it.name, file |-> it.is_file, type |-> it.type,
                         filename |-> it.filename, data |-> it.data]
<1>1. n \in Nat /\ DOMAIN r.parts = 1..n /\ DOMAIN Items(r) = 1..n
    BY ItemsAre, Zenon
<1>2. q.items = Items(r)
    BY FinalIs, BodyMeant, Zenon
<1>3. Seen(q).items = [i \in DOMAIN q.items |-> shown(q.items[i])]
    BY DEF Seen
<1>4. Seen(q).items = [i \in 1..n |-> shown(Items(r)[i])]
    BY <1>1, <1>2, <1>3, Zenon
<1>5. ASSUME NEW i \in 1..n
      PROVE  shown(Items(r)[i]) = [r.parts[i] EXCEPT !.data = FlattenSeq(r.parts[i].data)]
    <2> DEFINE p == r.parts[i]
               d == FlattenSeq(p.data)
               it == Items(r)[i]
    <2>1. p \in P
        <3>1. r.parts \in Seq(P)
            BY Zenon DEF IsRequest
        <3> HIDE DEF P
        <3> QED
            BY <1>1, <3>1
    <2>2. it = ItemOf(p.name, p.filename, p.file, p.type, d, TRUE)
        BY <1>1, Zenon DEF Items, ItemSent
    <2> HIDE DEF p, d, it, T
    <2>3. /\ it.name = p.name /\ it.filename = p.filename /\ it.is_file = p.file
          /\ it.type = p.type /\ it.data = d
        BY <2>2 DEF ItemOf
    <2>4. shown(it) = [name |-> p.name, file |-> p.file, type |-> p.type,
                       filename |-> p.filename, data |-> d]
        BY <2>3, Zenon
    <2> HIDE DEF shown
    <2>5. shown(it) = [p EXCEPT !.data = d]
        BY <2>1, <2>4
    <2> QED
        BY <2>5, Zenon DEF p, d, it
<1> QED
    BY <1>1, <1>4, <1>5, Zenon

\* The parameters a handler sees are those meant.
LEMMA ParamsSeen ==
    ASSUME NEW r, IsRequest(r), WellFormed(r), r.headers # <<>>
    PROVE  LET seen == Seen(Final(r))
           IN  /\ DOMAIN seen.params = DOMAIN MeantParams(r)
               /\ \A i \in DOMAIN MeantParams(r) :
                    /\ seen.params[i] = MeantValues(r, i)
                    /\ \E k \in DOMAIN MeantParams(r) :
                          /\ MeantParams(r)[k][1] = MeantParams(r)[i][1]
                          /\ LET v == MeantParams(r)[k][2]
                             IN  seen.first[i] = IF Escaped(r) THEN v ELSE Unescape(v)
                          /\ \A j \in 1..(k - 1) :
                                MeantParams(r)[j][1] # MeantParams(r)[i][1]
<1> DEFINE N == Seq(STRING)
           ps == MeantParams(r)
           qs == RawParams(r)
           n == Len(ps)
           e == [v \in N |-> Raw(r, v)]
           seen == Seen(Final(r))
<1>1. ps \in Seq(N \X N) /\ Params(Final(r)) = qs
    BY MeantParamsAre, Zenon
<1>2. n \in Nat /\ DOMAIN ps = 1..n
    BY <1>1, SeqDomain, Zenon
<1>3. \A i \in 1..n : ps[i][1] \in N /\ ps[i][2] \in N
    <2>1. \A p \in N \X N : p[1] \in N /\ p[2] \in N
        OBVIOUS
    <2>2. \A i \in 1..n : ps[i] \in N \X N
        <3> HIDE DEF ps, N
        <3> QED
            BY <1>1
    <2> QED
        BY <2>1, <2>2, Zenon
<1>4. qs = [i \in 1..n |-> qs[i]] /\ DOMAIN qs = 1..n
      /\ \A i \in 1..n : qs[i] = <<ps[i][1], Raw(r, ps[i][2])>>
    BY <1>2, Zenon DEF RawParams
<1>5. /\ seen.params = [i \in DOMAIN qs |-> GetParams(qs, qs[i][1])]
      /\ seen.first = [i \in DOMAIN qs |-> GetUnescapeParam(qs, qs[i][1])]
    <2>1. \A q : /\ Seen(q).params = [i \in DOMAIN Params(q) |->
                                         GetParams(Params(q), Params(q)[i][1])]
                 /\ Seen(q).first = [i \in DOMAIN Params(q) |->
                                        GetUnescapeParam(Params(q), Params(q)[i][1])]
        BY DEF Seen
    <2> DEFINE p == Params(Final(r))
    <2>2. /\ seen.params = [i \in DOMAIN p |-> GetParams(p, p[i][1])]
          /\ seen.first = [i \in DOMAIN p |-> GetUnescapeParam(p, p[i][1])]
        BY <2>1, Zenon
    <2>3. p = qs
        BY <1>1, Zenon
    <2> HIDE DEF p, qs, seen
    <2> QED
        BY <2>2, <2>3
<1> HIDE DEF ps, qs, n, seen
<1>6. \A i \in 1..n : qs[i][1] = ps[i][1] /\ qs[i][2] = Raw(r, ps[i][2])
    <2> TAKE i \in 1..n
    <2> DEFINE a == ps[i][1]
               b == Raw(r, ps[i][2])
    <2>1. qs[i] = <<a, b>>
        BY <1>4, Zenon
    <2> HIDE DEF a, b
    <2>2. qs[i][1] = a /\ qs[i][2] = b
        BY <2>1
    <2> QED
        BY <2>2, Zenon DEF a, b
<1>7. \A v \in N : Raw(r, v) \in Seq(Char)
    BY EscapeType, CharType, Zenon DEF Raw
<1>8. qs \in Seq(N \X Seq(Char)) /\ Len(qs) = n /\ IsSeq(qs)
    <2>1. \A a \in N, b \in Seq(Char) : <<a, b>> \in N \X Seq(Char)
        OBVIOUS
    <2>2. \A i \in 1..n : qs[i] \in N \X Seq(Char)
        <3> TAKE i \in 1..n
        <3> DEFINE a == ps[i][1]
                   b == Raw(r, ps[i][2])
        <3>1. a \in N /\ b \in Seq(Char) /\ qs[i] = <<a, b>>
            BY <1>3, <1>4, <1>7, Zenon
        <3> HIDE DEF a, b, N
        <3>2. <<a, b>> \in N \X Seq(Char)
            BY <2>1, <3>1, Zenon
        <3> QED
            BY <3>1, <3>2
    <2> HIDE DEF N
    <2>3. qs \in Seq(N \X Seq(Char))
        BY <1>2, <1>4, <2>2, FunctionType, Zenon
    <2>4. Len(qs) = n
        BY <1>2, <1>4, <2>3
    <2> QED
        BY <2>3, <2>4, Zenon DEF IsSeq
<1>9. ASSUME NEW i \in 1..n
      PROVE  GetParams(qs, qs[i][1]) = MeantValues(r, i)
    <2> DEFINE of == GetParams(ps, ps[i][1])
    <2>1. \A j \in 1..n : qs[j] = <<ps[j][1], e[ps[j][2]]>>
        BY <1>3, <1>4, Zenon
    <2> HIDE DEF e
    <2>2. /\ of \in Seq(N)
          /\ GetParams(qs, ps[i][1]) = [k \in DOMAIN of |-> e[of[k]]]
        <3>1. Len(qs) = Len(ps) /\ \A j \in 1..Len(ps) : qs[j] = <<ps[j][1], e[ps[j][2]]>>
            BY <1>8, <2>1, Zenon DEF n
        <3> HIDE DEF N
        <3>2. AreMapped(ps, qs, ps[i][1], e, N)
            BY <1>1, <1>8, <3>1, ParamsMapped, Zenon
        <3> QED
            BY <3>2, Zenon DEF AreMapped
    <2>3. \A k \in DOMAIN of : e[of[k]] = IF Escaped(r) THEN Escape(of[k]) ELSE of[k]
        <3>1. \A k \in DOMAIN of : of[k] \in N
            <4> HIDE DEF of, N
            <4> QED
                BY <2>2
        <3> QED
            BY <3>1, Zenon DEF e, Raw
    <2>4. MeantValues(r, i) = [k \in DOMAIN of |-> IF Escaped(r) THEN Escape(of[k]) ELSE of[k]]
        BY Zenon DEF MeantValues, ps
    <2> QED
        BY <1>6, <2>2, <2>3, <2>4, Zenon
<1>10. ASSUME NEW i \in 1..n
       PROVE  \E k \in 1..n :
                 /\ ps[k][1] = ps[i][1]
                 /\ seen.first[i] = IF Escaped(r) THEN ps[k][2] ELSE Unescape(ps[k][2])
                 /\ \A j \in 1..(k - 1) : ps[j][1] # ps[i][1]
    <2>1. PICK k \in DOMAIN qs : IsFirst(qs, i, k)
        <3>1. i \in DOMAIN qs
            BY <1>4, Zenon
        <3> HIDE DEF N
        <3> QED
            BY <1>8, <3>1, FirstParam, Zenon
    <2>2. k \in 1..n
        BY <1>4, Zenon
    <2>3. \A j \in 1..(k - 1) : j \in 1..n
        BY <1>2, <2>2
    <2>4. \A j \in 1..(k - 1) : ps[j][1] # ps[i][1]
        BY <1>6, <2>1, <2>3, Zenon DEF IsFirst
    <2>5. seen.first[i] = Unescape(qs[k][2])
        BY <1>4, <1>5, <2>1, Zenon DEF GetUnescapeParam, IsFirst
    <2>6. seen.first[i] = Unescape(Raw(r, ps[k][2]))
        BY <1>6, <2>2, <2>5, Zenon
    <2>7. Unescape(Raw(r, ps[k][2])) = IF Escaped(r) THEN ps[k][2] ELSE Unescape(ps[k][2])
        BY <1>3, <2>2, EscapeIs, Zenon DEF Raw
    <2> QED
        BY <1>6, <2>1, <2>2, <2>4, <2>6, <2>7, Zenon DEF IsFirst
<1>11. \A i \in 1..n : seen.params[i] = MeantValues(r, i)
    BY <1>4, <1>5, <1>9, Zenon
<1>12. DOMAIN seen.params = 1..n
    BY <1>4, <1>5, Zenon
<1> QED
    BY <1>2, <1>10, <1>11, <1>12, Zenon DEF ps, seen

\* What is seen of a request that was taken whole is what was meant.
LEMMA SeenIsMeant ==
    ASSUME NEW r, IsRequest(r), WellFormed(r), r.headers # <<>>
    PROVE  MeansRequest(Seen(Final(r)), r)
<1> DEFINE q == Final(r)
           seen == Seen(q)
<1>1. \A x : /\ Seen(x).uri = Uri(x.url) /\ Seen(x).method = x.method
             /\ Seen(x).headers = x.headers /\ Seen(x).body = x.body
    BY DEF Seen
<1>2. seen.uri = r.path
    BY <1>1, FinalIs, UrlReads, Zenon
<1>3. seen.method = r.method
    BY <1>1, FinalIs, Zenon DEF MethodOf
<1>4. seen.headers = MeantHeaders(r)
    BY <1>1, FinalIs, HeadersMeant, Zenon
<1>5. seen.body = Body(r)
    BY <1>1, FinalIs, Zenon
<1>6. seen.items
        = [i \in DOMAIN r.parts |-> [r.parts[i] EXCEPT !.data = FlattenSeq(r.parts[i].data)]]
    BY ItemsMeant, Zenon
<1> HIDE DEF q, seen
<1>7. /\ DOMAIN seen.params = DOMAIN MeantParams(r)
      /\ \A i \in DOMAIN MeantParams(r) :
           /\ seen.params[i] = MeantValues(r, i)
           /\ \E k \in DOMAIN MeantParams(r) :
                 /\ MeantParams(r)[k][1] = MeantParams(r)[i][1]
                 /\ LET v == MeantParams(r)[k][2]
                    IN  seen.first[i] = IF Escaped(r) THEN v ELSE Unescape(v)
                 /\ \A j \in 1..(k - 1) : MeantParams(r)[j][1] # MeantParams(r)[i][1]
    BY ParamsSeen, Zenon DEF q, seen
<1>8. MeansRequest(seen, r)
    BY <1>2, <1>3, <1>4, <1>5, <1>6, <1>7, Zenon DEF MeansRequest
<1> QED
    BY <1>8, Zenon DEF q, seen

\* However the reads cut it, and whatever the connection carried before, a handler
\* sees the request a waiting client sent, and not what it had sent before
\* (RequestParser!Faithful).
THEOREM FaithfulAlways == Spec => []Faithful
<1>1. ASSUME ParserInv, AnswerInv PROVE Faithful
    <2> SUFFICES ASSUME ~ahead, NEW n \in DOMAIN handled,
                        sent[n].headers # <<>>, WellFormed(sent[n])
                 PROVE  MeansRequest(handled[n], sent[n])
        BY Zenon DEF Faithful
    <2>1. handled[n] = Seen(Final(sent[n]))
        BY <1>1, Zenon DEF AnswerInv
    <2>2. IsRequest(sent[n])
        <3>1. sent \in Sessions /\ handled \in Seq(ToSet(handled)) /\ Len(handled) <= Len(sent)
            BY <1>1, Zenon DEF ParserInv
        <3>2. DOMAIN handled = 1..Len(handled) /\ Len(handled) \in Nat /\ Len(sent) \in Nat
            BY <3>1, SeqDomain, StreamShape, Zenon
        <3>3. n \in 1..Len(sent)
            BY <3>1, <3>2
        <3> QED
            BY <3>1, <3>3, RequestsAre, Zenon
    <2> QED
        BY <2>1, <2>2, SeenIsMeant, Zenon
<1> QED
    BY <1>1, InvAlways, AnswerInvAlways, PTL

=============================================================================
