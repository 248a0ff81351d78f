------------------------- MODULE RequestParserProofs -------------------------
(***************************************************************************)
(* Proofs about RequestParser, for any requests a client may send and any  *)
(* way of cutting them into reads.                                         *)
(***************************************************************************)
EXTENDS RequestParser, FormDataProofs

-----------------------------------------------------------------------------
(* The wire: types *)

\* The characters a client writes itself, with those it is given: the provers know
\* no string to be in STRING.
Char ==
    STRING \cup HexDigits
        \cup {"+", "%", "=", "&", "?", Quote, "form-data", ";", " name", " filename",
              "Content-Disposition", "Content-Type", ""}

\* What a client writes is made of Char.
LEMMA CharType ==
    /\ \A s \in Seq(STRING) : s \in Seq(Char)
    /\ \A c \in {"+", "%", "=", "&", "?", Quote} : <<c>> \in Seq(Char)
    /\ STRING \subseteq Char
<1>1. STRING \subseteq Char /\ \A c \in {"+", "%", "=", "&", "?", Quote} : c \in Char
    BY DEF Char
<1> QED
    BY <1>1, SubType, SingleType, Zenon

\* An escaped value is characters.
LEMMA EscapeType ==
    ASSUME NEW s \in Seq(STRING)
    PROVE  Escape(s) \in Seq(Char)
<1> DEFINE ss == [i \in DOMAIN s |->
        IF s[i] = " " THEN <<"+">>
        ELSE IF \E x \in DOMAIN CharOf : CharOf[x] = s[i]
        THEN LET x == CHOOSE x \in DOMAIN CharOf : CharOf[x] = s[i] IN <<"%">> \o x
        ELSE <<s[i]>>]
<1>1. ASSUME NEW i \in DOMAIN s PROVE ss[i] \in Seq(Char)
    <2>0. <<"+">> \in Seq(Char) /\ <<s[i]>> \in Seq(Char)
        <3>1. s[i] \in Char
            <4>1. s[i] \in STRING
                OBVIOUS
            <4> QED
                BY <4>1, CharType, Zenon
        <3> QED
            BY <3>1, CharType, SingleType, Zenon
    <2>1. CASE s[i] = " "
        <3>1. ss[i] = <<"+">>
            BY <2>1, Zenon
        <3> QED
            BY <2>0, <3>1, Zenon
    <2>2. CASE s[i] # " " /\ ~\E x \in DOMAIN CharOf : CharOf[x] = s[i]
        <3>1. ss[i] = <<s[i]>>
            BY <2>2, Zenon
        <3> QED
            BY <2>0, <3>1, Zenon
    <2>3. CASE s[i] # " " /\ \E x \in DOMAIN CharOf : CharOf[x] = s[i]
        <3> DEFINE x == CHOOSE x \in DOMAIN CharOf : CharOf[x] = s[i]
        <3>1. x \in DOMAIN CharOf
            BY <2>3, Zenon
        <3>2. ss[i] = <<"%">> \o x
            BY <2>3, Zenon
        <3> HIDE DEF x
        <3>3. x \in Seq(Char)
            <4>1. x \in Seq(HexDigits)
                BY <3>1, CharAssumption, PairType
            <4>2. HexDigits \subseteq Char
                BY Zenon DEF Char
            <4> QED
                BY <4>1, <4>2, SubType, Zenon
        <3>4. <<"%">> \in Seq(Char)
            BY CharType, Zenon
        <3> HIDE DEF ss
        <3> QED
            BY <3>2, <3>3, <3>4, ConcatType, Zenon
    <2> QED
        BY <2>1, <2>2, <2>3, Zenon
<1>2. ss \in Seq(Seq(Char))
    <2>1. DOMAIN s = 1..Len(s) /\ Len(s) \in Nat
        BY SeqDomain, Zenon
    <2>2. ss = [i \in 1..Len(s) |-> ss[i]]
        BY <2>1, Zenon
    <2> HIDE DEF ss
    <2> QED
        BY <1>1, <2>1, <2>2, FunctionType, Zenon
<1>3. FlattenSeq(ss) \in Seq(Char)
    <2> HIDE DEF ss
    <2> QED
        BY <1>2, FlattenIsSeq, Zenon
<1> QED
    BY <1>3, Zenon DEF Escape

\* A query is characters.
LEMMA QueryType ==
    ASSUME NEW pairs \in Seq(Seq(STRING) \X Seq(STRING))
    PROVE  Query(pairs) \in Seq(Char)
<1> DEFINE ss == [i \in DOMAIN pairs |->
        (IF i = 1 THEN <<>> ELSE <<"&">>) \o pairs[i][1] \o <<"=">> \o Escape(pairs[i][2])]
<1>1. ASSUME NEW i \in DOMAIN pairs PROVE ss[i] \in Seq(Char)
    <2> DEFINE a == IF i = 1 THEN <<>> ELSE <<"&">>
    <2>1. a \in Seq(Char) /\ <<"=">> \in Seq(Char)
        BY CharType, EmptySeq, Zenon
    <2>2. pairs[i][1] \in Seq(Char) /\ pairs[i][2] \in Seq(STRING)
        <3>1. pairs[i][1] \in Seq(STRING) /\ pairs[i][2] \in Seq(STRING)
            OBVIOUS
        <3> QED
            BY <3>1, CharType, Zenon
    <2>3. Escape(pairs[i][2]) \in Seq(Char)
        BY <2>2, EscapeType, Zenon
    <2>4. ss[i] = a \o pairs[i][1] \o <<"=">> \o Escape(pairs[i][2])
        BY Zenon
    <2> HIDE DEF a, ss
    <2>5. a \o pairs[i][1] \in Seq(Char)
        BY <2>1, <2>2, ConcatType, Zenon
    <2>6. a \o pairs[i][1] \o <<"=">> \in Seq(Char)
        BY <2>1, <2>5, ConcatType, Zenon
    <2> QED
        BY <2>3, <2>4, <2>6, ConcatType, Zenon
<1>2. ss \in Seq(Seq(Char))
    <2>1. DOMAIN pairs = 1..Len(pairs) /\ Len(pairs) \in Nat
        BY SeqDomain, Zenon
    <2>2. ss = [i \in 1..Len(pairs) |-> ss[i]]
        BY <2>1, Zenon
    <2> HIDE DEF ss
    <2> QED
        BY <1>1, <2>1, <2>2, FunctionType, Zenon
<1>3. FlattenSeq(ss) \in Seq(Char)
    <2> HIDE DEF ss
    <2> QED
        BY <1>2, FlattenIsSeq, Zenon
<1> QED
    BY <1>3, Zenon DEF Query

\* A URL is characters.
LEMMA UrlType ==
    ASSUME NEW r, IsRequest(r)
    PROVE  Url(r) \in Seq(Char)
<1>1. r.path \in Seq(Char) /\ Query(r.query) \in Seq(Char)
    BY QueryType, CharType, Zenon DEF IsRequest
<1>2. <<"?">> \in Seq(Char) /\ <<>> \in Seq(Char)
    BY CharType, EmptySeq, Zenon
<1> QED
    BY <1>1, <1>2, ConcatType, Zenon DEF Url

-----------------------------------------------------------------------------
(* The wire: between the method and the blank line there are tokens *)

Names == {"url", "field", "value"}
At == Char \cup (STRING \X {1, 2})
HeadPieces == [on : Names, at : At] \cup [on : {"end"}, at : Names]

\* A sequence of tokens: if there is anything, its last piece is a separator.
Tokens(s) ==
    /\ s \in Seq(HeadPieces)
    /\ s # <<>> => s[Len(s)].on = "end"

\* What a joined sequence ends with.
LEMMA LastOfConcat ==
    ASSUME NEW X, NEW s \in Seq(X), NEW t \in Seq(X)
    PROVE  /\ t = <<>> => s \o t = s
           /\ s # <<>> => s \o t # <<>>
           /\ t # <<>> => s \o t # <<>> /\ (s \o t)[Len(s \o t)] = t[Len(t)]
OBVIOUS

\* Tokens behind tokens are tokens.
LEMMA TokensConcat ==
    ASSUME NEW s, Tokens(s), NEW t, Tokens(t)
    PROVE  Tokens(s \o t)
<1>1. s \in Seq(HeadPieces) /\ t \in Seq(HeadPieces)
    BY Zenon DEF Tokens
<1>2. s \o t \in Seq(HeadPieces)
    BY <1>1, ConcatType, Zenon
<1>3. CASE t = <<>>
    <2>1. s \o t = s
        BY <1>1, <1>3, LastOfConcat, Zenon
    <2> QED
        BY <2>1, Zenon
<1>4. CASE t # <<>>
    <2>1. (s \o t)[Len(s \o t)] = t[Len(t)]
        BY <1>1, <1>4, LastOfConcat, Zenon
    <2> QED
        BY <1>2, <1>4, <2>1, Zenon DEF Tokens
<1> QED
    BY <1>3, <1>4

\* One token.
LEMMA TokenIsTokens ==
    ASSUME NEW on \in Names, NEW content \in Seq(At)
    PROVE  Tokens(Token(on, content)) /\ Token(on, content) # <<>>
<1> DEFINE s == [i \in DOMAIN content |-> Piece(on, content[i])]
           e == Piece("end", on)
<1>1. s \in Seq(HeadPieces)
    <2>1. DOMAIN content = 1..Len(content) /\ Len(content) \in Nat
        BY SeqDomain, Zenon
    <2>2. s = [i \in 1..Len(content) |-> s[i]]
        BY <2>1, Zenon
    <2>3. ASSUME NEW i \in 1..Len(content) PROVE s[i] \in HeadPieces
        <3>1. s[i] = [on |-> on, at |-> content[i]] /\ content[i] \in At
            BY DEF Piece
        <3> HIDE DEF s
        <3> QED
            BY <3>1 DEF HeadPieces
    <2> HIDE DEF s
    <2> QED
        BY <2>1, <2>2, <2>3, FunctionType, Zenon
<1>2. e \in HeadPieces /\ e.on = "end"
    BY DEF HeadPieces, Piece
<1>3. <<e>> \in Seq(HeadPieces) /\ Len(<<e>>) = 1 /\ <<e>>[1] = e
    <2> HIDE DEF e
    <2> QED
        BY <1>2, SingleType, Zenon
<1>4. <<e>> # <<>>
    BY <1>3, EmptySeq
<1>5. Token(on, content) = s \o <<e>>
    BY DEF Token
<1> HIDE DEF s, e
<1>6. s \o <<e>> # <<>> /\ (s \o <<e>>)[Len(s \o <<e>>)] = e
    BY <1>1, <1>3, <1>4, LastOfConcat, Zenon
<1>7. s \o <<e>> \in Seq(HeadPieces)
    BY <1>1, <1>3, ConcatType, Zenon
<1> QED
    BY <1>2, <1>5, <1>6, <1>7, Zenon DEF Tokens

\* Many of them.
LEMMA TokensFlatten ==
    ASSUME NEW ss \in Seq(Seq(HeadPieces)), \A i \in DOMAIN ss : Tokens(ss[i]) /\ ss[i] # <<>>
    PROVE  Tokens(FlattenSeq(ss))
<1>1. FlattenSeq(ss) \in Seq(HeadPieces)
    BY FlattenIsSeq, Zenon
<1>2. ASSUME FlattenSeq(ss) # <<>>
      PROVE  FlattenSeq(ss)[Len(FlattenSeq(ss))].on = "end"
    <2> DEFINE n == Len(ss)
    <2>1. n # 0
        <3>1. CASE n = 0
            <4>1. Len(FlattenSeq(ss)) = 0
                BY <3>1, UptoSteps
            <4> HIDE DEF n
            <4> QED
                BY <1>1, <1>2, <4>1
        <3> QED
            BY <3>1
    <2>2. n \in 1..Len(ss) /\ ss[n] \in Seq(HeadPieces) /\ ss[n] # <<>> /\ Tokens(ss[n])
        BY <2>1
    <2>3. Len(ss[n]) \in 1..Len(ss[n])
        BY <2>2
    <2>4. FlattenSeq(ss)[Upto(ss, n - 1) + Len(ss[n])] = ss[n][Len(ss[n])]
        <3> HIDE DEF n
        <3> QED
            BY <2>2, <2>3, PlaceHas, Zenon
    <2>5. Upto(ss, n - 1) + Len(ss[n]) = Len(FlattenSeq(ss))
        BY <2>2, UptoSteps
    <2> HIDE DEF n
    <2> QED
        BY <2>2, <2>4, <2>5, Zenon DEF Tokens
<1> QED
    BY <1>1, <1>2, Zenon DEF Tokens

\* The URL and the headers.
HeadOf(r) ==
    Token("url", Url(r))
    \o FlattenSeq([i \in DOMAIN r.headers |->
           Token("field", Text(r.headers[i][1])) \o Token("value", Text(r.headers[i][2]))])

\* A word of a header is pieces.
LEMMA TextType ==
    ASSUME NEW word \in STRING
    PROVE  Text(word) \in Seq(At)
<1>1. <<word, 1>> \in At /\ <<word, 2>> \in At
    BY DEF At
<1>2. \A a, b \in At : <<a, b>> \in Seq(At)
    OBVIOUS
<1> QED
    BY <1>1, <1>2, EmptySeq, Zenon DEF Text

\* The URL and the headers of a request are tokens, one at least.
LEMMA HeadType ==
    ASSUME NEW r, IsRequest(r)
    PROVE  Tokens(HeadOf(r)) /\ HeadOf(r) # <<>>
<1> DEFINE ss == [i \in DOMAIN r.headers |->
        Token("field", Text(r.headers[i][1])) \o Token("value", Text(r.headers[i][2]))]
<1>0. "url" \in Names /\ "field" \in Names /\ "value" \in Names
    BY DEF Names
<1>1. ASSUME NEW i \in DOMAIN r.headers
      PROVE  Tokens(ss[i]) /\ ss[i] # <<>>
    <2>1. r.headers[i][1] \in STRING /\ r.headers[i][2] \in STRING
        <3>1. r.headers \in Seq(STRING \X STRING)
            BY Zenon DEF IsRequest
        <3> QED
            BY <3>1
    <2> DEFINE t == Token("field", Text(r.headers[i][1]))
               u == Token("value", Text(r.headers[i][2]))
    <2>2. Tokens(t) /\ Tokens(u) /\ u # <<>>
        BY <1>0, <2>1, TextType, TokenIsTokens, Zenon
    <2>3. ss[i] = t \o u
        BY Zenon
    <2> HIDE DEF t, u, ss
    <2>4. t \in Seq(HeadPieces) /\ u \in Seq(HeadPieces)
        BY <2>2, Zenon DEF Tokens
    <2>5. t \o u # <<>>
        BY <2>2, <2>4, LastOfConcat, Zenon
    <2> QED
        BY <2>2, <2>3, <2>5, TokensConcat, Zenon
<1>2. ss \in Seq(Seq(HeadPieces)) /\ DOMAIN ss = DOMAIN r.headers
    <2>1. DOMAIN r.headers = 1..Len(r.headers) /\ Len(r.headers) \in Nat
        BY SeqDomain, Zenon DEF IsRequest
    <2>2. ss = [i \in 1..Len(r.headers) |-> ss[i]] /\ DOMAIN ss = DOMAIN r.headers
        BY <2>1, Zenon
    <2> HIDE DEF ss
    <2>3. ASSUME NEW i \in 1..Len(r.headers) PROVE ss[i] \in Seq(HeadPieces)
        BY <1>1, <2>1, Zenon DEF Tokens
    <2> QED
        BY <2>1, <2>2, <2>3, FunctionType, Zenon
<1>3. Tokens(FlattenSeq(ss))
    <2> HIDE DEF ss
    <2> QED
        BY <1>1, <1>2, TokensFlatten, Zenon
<1>4. Tokens(Token("url", Url(r))) /\ Token("url", Url(r)) # <<>>
    <2>1. Url(r) \in Seq(At)
        <3>1. Char \subseteq At
            BY DEF At
        <3> QED
            BY <3>1, UrlType, SubType, Zenon
    <2> QED
        BY <1>0, <2>1, TokenIsTokens, Zenon
<1>5. HeadOf(r) = Token("url", Url(r)) \o FlattenSeq(ss)
    BY Zenon DEF HeadOf
<1> HIDE DEF ss
<1>6. HeadOf(r) # <<>>
    <2>1. Token("url", Url(r)) \in Seq(HeadPieces) /\ FlattenSeq(ss) \in Seq(HeadPieces)
        BY <1>3, <1>4, Zenon DEF Tokens
    <2>2. Token("url", Url(r)) \o FlattenSeq(ss) # <<>>
        BY <1>4, <2>1, LastOfConcat, Zenon
    <2> QED
        BY <1>5, <2>2, Zenon
<1> QED
    BY <1>3, <1>4, <1>5, <1>6, TokensConcat, Zenon

-----------------------------------------------------------------------------
(* The wire: the body *)

Texts == Char \cup Seq(Char)
CallOns == {"name", "value", "data", "over", "char", "end"}
Calls == [on : CallOns, text : Texts]

\* The texts of the calls for a multipart body.
LEMMA TextsHave ==
    /\ Char \subseteq Texts /\ Seq(Char) \subseteq Texts
    /\ \A c \in {"Content-Disposition", "Content-Type", "", "form-data", ";", " name", " filename"} :
          c \in Char
    /\ \A on \in CallOns, text \in Texts : [on |-> on, text |-> text] \in Calls
BY DEF Texts, Char, Calls

\* The calls for a part are a sequence.
LEMMA PartType ==
    ASSUME NEW p \in [name : Seq(STRING), file : BOOLEAN, filename : Seq(STRING),
                      type : Seq(STRING), data : Seq(Seq(STRING))]
    PROVE  PartCalls(p) \in Seq(Calls)
<1> DEFINE call(on, text) == [on |-> on, text |-> text]
           value == <<"form-data", ";", " name", "=">> \o Quoted(p.name)
                        \o (IF p.file THEN <<";", " filename", "=">> \o Quoted(p.filename)
                            ELSE <<>>)
           first == <<call("name", "Content-Disposition"), call("value", value)>>
           second == IF p.type = <<>> THEN <<>>
                     ELSE <<call("name", "Content-Type"), call("value", p.type)>>
           third == [i \in DOMAIN p.data |-> call("data", p.data[i])]
           last == <<call("over", "")>>
<1>1. /\ p.name \in Seq(Char) /\ p.filename \in Seq(Char) /\ p.type \in Seq(Char)
      /\ p.data \in Seq(Seq(STRING))
    <2>1. /\ p.name \in Seq(STRING) /\ p.filename \in Seq(STRING) /\ p.type \in Seq(STRING)
          /\ p.data \in Seq(Seq(STRING))
        OBVIOUS
    <2> QED
        BY <2>1, CharType, Zenon
<1>2. \A t \in Seq(Char) : Quoted(t) \in Seq(Char)
    <2> TAKE t \in Seq(Char)
    <2>1. <<Quote>> \in Seq(Char)
        BY CharType, Zenon
    <2>2. <<Quote>> \o t \in Seq(Char)
        BY <2>1, ConcatType, Zenon
    <2> QED
        BY <2>1, <2>2, ConcatType, Zenon DEF Quoted
<1>3. value \in Seq(Char)
    <2> DEFINE a == <<"form-data", ";", " name", "=">>
               b == <<";", " filename", "=">>
               c == IF p.file THEN b \o Quoted(p.filename) ELSE <<>>
    <2>1. a \in Seq(Char) /\ b \in Seq(Char)
        <3>1. \A w, x, y, z \in Char : <<w, x, y, z>> \in Seq(Char) /\ <<x, y, z>> \in Seq(Char)
            OBVIOUS
        <3>2. "form-data" \in Char /\ ";" \in Char /\ " name" \in Char /\ "=" \in Char
              /\ " filename" \in Char
            BY DEF Char
        <3> QED
            BY <3>1, <3>2, Zenon
    <2>2. Quoted(p.name) \in Seq(Char) /\ Quoted(p.filename) \in Seq(Char)
        BY <1>1, <1>2, Zenon
    <2>3. a \o Quoted(p.name) \in Seq(Char)
        BY <2>1, <2>2, ConcatType, Zenon
    <2>4. b \o Quoted(p.filename) \in Seq(Char)
        BY <2>1, <2>2, ConcatType, Zenon
    <2>5. c \in Seq(Char)
        BY <2>4, EmptySeq, Zenon
    <2>6. value = (a \o Quoted(p.name)) \o c
        BY Zenon
    <2> HIDE DEF a, b, c, value
    <2> QED
        BY <2>3, <2>5, <2>6, ConcatType, Zenon
<1>4. first \in Seq(Calls)
    <2>1. \A x, y \in Calls : <<x, y>> \in Seq(Calls)
        OBVIOUS
    <2> HIDE DEF value
    <2>2. call("name", "Content-Disposition") \in Calls /\ call("value", value) \in Calls
        BY <1>3 DEF Calls, CallOns, Texts, Char
    <2> QED
        BY <2>1, <2>2, Zenon
<1>5. second \in Seq(Calls)
    <2>1. \A x, y \in Calls : <<x, y>> \in Seq(Calls)
        OBVIOUS
    <2>2. call("name", "Content-Type") \in Calls /\ call("value", p.type) \in Calls
        BY <1>1 DEF Calls, CallOns, Texts, Char
    <2> QED
        BY <2>1, <2>2, EmptySeq, Zenon
<1>6. third \in Seq(Calls)
    <2>1. DOMAIN p.data = 1..Len(p.data) /\ Len(p.data) \in Nat
        BY <1>1, SeqDomain, Zenon
    <2>2. third = [i \in 1..Len(p.data) |-> third[i]]
        BY <2>1, Zenon
    <2>3. ASSUME NEW i \in 1..Len(p.data) PROVE third[i] \in Calls
        <3>1. p.data[i] \in Seq(STRING)
            BY <1>1
        <3>2. p.data[i] \in Texts
            BY <3>1, CharType, Zenon DEF Texts
        <3>3. "data" \in CallOns
            BY DEF CallOns
        <3>4. third[i] = [on |-> "data", text |-> p.data[i]]
            BY <2>1, Zenon
        <3> QED
            BY <3>2, <3>3, <3>4, TextsHave, Zenon
    <2> HIDE DEF third
    <2> QED
        BY <2>1, <2>2, <2>3, FunctionType, Zenon
<1>7. last \in Seq(Calls)
    <2>1. call("over", "") \in Calls
        BY DEF Calls, CallOns, Texts, Char
    <2> QED
        BY <2>1, SingleType, Zenon
<1>8. PartCalls(p) = ((first \o second) \o third) \o last
    BY Zenon DEF PartCalls
<1> HIDE DEF first, second, third, last
<1>9. first \o second \in Seq(Calls)
    BY <1>4, <1>5, ConcatType, Zenon
<1>10. (first \o second) \o third \in Seq(Calls)
    BY <1>6, <1>9, ConcatType, Zenon
<1> QED
    BY <1>7, <1>8, <1>10, ConcatType, Zenon

\* A body is a sequence.
LEMMA BodyType ==
    ASSUME NEW r, IsRequest(r)
    PROVE  \E X : Body(r) \in Seq(X)
<1> DEFINE X == Calls \cup ToSet(r.raw)
           ss == [i \in DOMAIN r.parts |-> PartCalls(r.parts[i])]
           form == [i \in DOMAIN Query(r.form) |-> [on |-> "char", text |-> Query(r.form)[i]]]
           end == IF r.parts = <<>> THEN <<>> ELSE <<[on |-> "end", text |-> ""]>>
<1>0. Calls \subseteq X /\ ToSet(r.raw) \subseteq X
    OBVIOUS
<1>1. form \in Seq(Calls)
    <2> DEFINE q == Query(r.form)
    <2>1. q \in Seq(Char)
        BY QueryType, Zenon DEF IsRequest
    <2>2. DOMAIN q = 1..Len(q) /\ Len(q) \in Nat
        BY <2>1, SeqDomain, Zenon
    <2>3. form = [i \in 1..Len(q) |-> form[i]]
        BY <2>2, Zenon
    <2>4. ASSUME NEW i \in 1..Len(q) PROVE form[i] \in Calls
        <3>1. form[i] = [on |-> "char", text |-> q[i]]
            BY <2>2, Zenon
        <3> HIDE DEF q, form
        <3>2. q[i] \in Char
            BY <2>1
        <3>3. "char" \in CallOns
            BY DEF CallOns
        <3> QED
            BY <3>1, <3>2, <3>3, TextsHave, Zenon
    <2> HIDE DEF form, q
    <2> QED
        BY <2>2, <2>3, <2>4, FunctionType, Zenon
<1>2. FlattenSeq(ss) \in Seq(Calls)
    <2>1. DOMAIN r.parts = 1..Len(r.parts) /\ Len(r.parts) \in Nat
        BY SeqDomain, Zenon DEF IsRequest
    <2>2. ss = [i \in 1..Len(r.parts) |-> ss[i]]
        BY <2>1, Zenon
    <2>3. ASSUME NEW i \in 1..Len(r.parts) PROVE ss[i] \in Seq(Calls)
        <3>1. r.parts[i] \in [name : Seq(STRING), file : BOOLEAN, filename : Seq(STRING),
                              type : Seq(STRING), data : Seq(Seq(STRING))]
            <4>1. r.parts \in Seq([name : Seq(STRING), file : BOOLEAN, filename : Seq(STRING),
                                   type : Seq(STRING), data : Seq(Seq(STRING))])
                BY Zenon DEF IsRequest
            <4>2. \A Y : \A t \in Seq(Y) : \A j \in 1..Len(t) : t[j] \in Y
                OBVIOUS
            <4> QED
                BY <2>1, <4>1, <4>2, Zenon
        <3>2. ss[i] = PartCalls(r.parts[i])
            BY <2>1, Zenon
        <3> QED
            BY <3>1, <3>2, PartType, Zenon
    <2> HIDE DEF ss
    <2>4. ss \in Seq(Seq(Calls))
        BY <2>1, <2>2, <2>3, FunctionType, Zenon
    <2> QED
        BY <2>4, FlattenIsSeq, Zenon
<1>3. end \in Seq(Calls)
    <2>1. [on |-> "end", text |-> ""] \in Calls
        BY DEF Calls, CallOns, Texts, Char
    <2> QED
        BY <2>1, SingleType, EmptySeq, Zenon
<1>4. r.raw \in Seq(ToSet(r.raw))
    BY Zenon DEF IsRequest
<1>5. Body(r) = ((form \o FlattenSeq(ss)) \o end) \o r.raw
    BY Zenon DEF Body
<1> HIDE DEF form, ss, end, X
<1>6. form \in Seq(X) /\ FlattenSeq(ss) \in Seq(X) /\ end \in Seq(X) /\ r.raw \in Seq(X)
    BY <1>0, <1>1, <1>2, <1>3, <1>4, SubType, Zenon
<1>7. form \o FlattenSeq(ss) \in Seq(X)
    BY <1>6, ConcatType, Zenon
<1>8. (form \o FlattenSeq(ss)) \o end \in Seq(X)
    BY <1>6, <1>7, ConcatType, Zenon
<1>9. Body(r) \in Seq(X)
    BY <1>5, <1>6, <1>8, ConcatType, Zenon
<1> QED
    BY <1>9, Zenon

-----------------------------------------------------------------------------
(* The wire: what a request looks like, and where it ends *)

Arranged(a, s, b, t) == ((<<a>> \o s) \o <<b>>) \o t

HasParts(w, X, a, s, b, t) ==
    /\ w \in Seq(X) /\ Len(w) = Len(s) + 2 + Len(t)
    /\ w[1] = a /\ w[Len(s) + 2] = b
    /\ \A i \in 1..Len(s) : w[1 + i] = s[i]
    /\ \A i \in 1..Len(t) : w[Len(s) + 2 + i] = t[i]

\* Where the parts of an arranged sequence are.
LEMMA Arrangement ==
    ASSUME NEW X, NEW a \in X, NEW s \in Seq(X), NEW b \in X, NEW t \in Seq(X)
    PROVE  HasParts(Arranged(a, s, b, t), X, a, s, b, t)
BY DEF Arranged, HasParts

\* Joining is associative, behind one element.
LEMMA ConcatTwice ==
    ASSUME NEW X, NEW a \in X, NEW s \in Seq(X), NEW t \in Seq(X)
    PROVE  (<<a>> \o s) \o t = <<a>> \o (s \o t)
OBVIOUS

\* What piece j of the wire of a request of n pieces may be, after a piece p.
PieceFits(piece, j, n, p) ==
    \/ piece.on = "method" /\ j = 1 /\ j < n
    \/ piece \in HeadPieces /\ j > 1 /\ j < n
    \/ piece.on = "blank" /\ j > 1 /\ piece.at = n - j /\ p.on = "end"
    \/ piece.on = "body" /\ j > 1 /\ p.on \in {"blank", "body"}

\* A request on the wire is a method, tokens, a blank line with the length of the body,
\* and the body.
LEMMA WireShape ==
    ASSUME NEW r, IsRequest(r)
    PROVE  /\ Len(Wire(r)) \in Nat /\ Len(Wire(r)) > 1
           /\ \E X : Wire(r) \in Seq(X)
           /\ \A j \in 1..Len(Wire(r)) :
                PieceFits(Wire(r)[j], j, Len(Wire(r)), Wire(r)[j - 1])
<1> DEFINE a == Piece("method", r.method)
           s == HeadOf(r)
           b == Piece("blank", Len(Body(r)))
           t == [k \in DOMAIN Body(r) |-> Piece("body", Body(r)[k])]
           n == Len(s) + 2 + Len(t)
           w == Arranged(a, s, b, t)
<1>1. PICK B : Body(r) \in Seq(B)
    BY BodyType, Zenon
<1> DEFINE X == HeadPieces \cup {a, b} \cup {Piece("body", x) : x \in B}
<1>2. Len(Body(r)) \in Nat /\ DOMAIN Body(r) = 1..Len(Body(r))
    BY <1>1, SeqDomain, Zenon
<1>3. t \in Seq(X) /\ Len(t) = Len(Body(r)) /\ \A i \in 1..Len(t) : t[i].on = "body"
    BY <1>1, <1>2 DEF Piece
<1>4. Tokens(s) /\ s # <<>>
    BY HeadType, Zenon
<1>5. s \in Seq(HeadPieces) /\ Len(s) \in Nat /\ Len(s) > 0 /\ s[Len(s)].on = "end"
    BY <1>4 DEF Tokens
<1>6. Wire(r) = w
    BY ConcatTwice DEF Wire, HeadOf, Arranged
<1>7. /\ a \in X /\ b \in X /\ s \in Seq(X)
      /\ a.on = "method" /\ b.on = "blank" /\ b.at = Len(t)
    <2>1. HeadPieces \subseteq X
        OBVIOUS
    <2>2. s \in Seq(X)
        <3> HIDE DEF X, s
        <3> QED
            BY <1>5, <2>1, SubType, Zenon
    <2> QED
        BY <1>3, <2>2 DEF Piece
<1>8. Len(t) \in Nat
    BY <1>2, <1>3
<1> HIDE DEF a, b, s, t, X
<1>9. /\ w \in Seq(X) /\ Len(w) = n
      /\ w[1] = a /\ w[Len(s) + 2] = b
      /\ \A i \in 1..Len(s) : w[1 + i] = s[i]
      /\ \A i \in 1..Len(t) : w[Len(s) + 2 + i] = t[i]
    <2>1. t \in Seq(X) /\ a \in X /\ b \in X /\ s \in Seq(X)
        BY <1>3, <1>7, Zenon
    <2>2. HasParts(w, X, a, s, b, t)
        BY <2>1, Arrangement, Zenon
    <2> QED
        BY <2>2, Zenon DEF HasParts
<1>10. n \in Nat /\ n > 1
    BY <1>5, <1>8
<1> HIDE DEF w
<1>11. ASSUME NEW j \in 1..n PROVE PieceFits(w[j], j, n, w[j - 1])
    <2>1. CASE j = 1
        BY <1>5, <1>7, <1>8, <1>9, <2>1 DEF PieceFits
    <2>2. CASE j \in 2..(Len(s) + 1)
        <3>1. j - 1 \in 1..Len(s) /\ 1 + (j - 1) = j
            BY <1>5, <2>2
        <3>2. w[j] = s[j - 1]
            BY <1>9, <3>1
        <3>3. w[j] \in HeadPieces
            BY <1>5, <3>1, <3>2
        <3> QED
            BY <1>5, <1>8, <2>2, <3>3 DEF PieceFits
    <2>3. CASE j = Len(s) + 2
        <3>1. w[j - 1] = s[Len(s)]
            <4>1. Len(s) \in 1..Len(s) /\ 1 + Len(s) = j - 1
                BY <1>5, <2>3
            <4> QED
                BY <1>9, <4>1
        <3>2. w[j] = b /\ n - j = Len(t) /\ j > 1
            BY <1>5, <1>8, <1>9, <2>3
        <3> QED
            BY <1>5, <1>7, <3>1, <3>2, Zenon DEF PieceFits
    <2>4. CASE j > Len(s) + 2
        <3>1. j - (Len(s) + 2) \in 1..Len(t) /\ Len(s) + 2 + (j - (Len(s) + 2)) = j /\ j > 1
            BY <1>5, <1>8, <2>4
        <3>2. w[j].on = "body"
            BY <1>3, <1>9, <3>1
        <3>3. w[j - 1].on \in {"blank", "body"}
            <4>1. CASE j = Len(s) + 3
                <5>1. j - 1 = Len(s) + 2
                    BY <1>5, <4>1
                <5> QED
                    BY <1>7, <1>9, <5>1
            <4>2. CASE j > Len(s) + 3
                <5>1. j - (Len(s) + 3) \in 1..Len(t) /\ Len(s) + 2 + (j - (Len(s) + 3)) = j - 1
                    BY <1>5, <1>8, <4>2
                <5>2. w[j - 1] = t[j - (Len(s) + 3)]
                    BY <1>9, <5>1
                <5> QED
                    BY <1>3, <5>1, <5>2
            <4> QED
                BY <1>5, <2>4, <4>1, <4>2
        <3> QED
            BY <3>1, <3>2, <3>3, Zenon DEF PieceFits
    <2> QED
        BY <1>5, <1>8, <2>1, <2>2, <2>3, <2>4
<1> QED
    BY <1>6, <1>9, <1>10, <1>11, Zenon

-----------------------------------------------------------------------------
(* The stream of a session *)

Wires(s) == [n \in DOMAIN s |-> Wire(s[n])]

\* The requests of a session on the wire are sequences.
LEMMA WiresType ==
    ASSUME NEW s \in Sessions
    PROVE  /\ Len(s) \in Nat /\ DOMAIN s = 1..Len(s)
           /\ Len(Wires(s)) = Len(s)
           /\ \A n \in 1..Len(s) : Wires(s)[n] = Wire(s[n]) /\ IsRequest(s[n])
           /\ \E X : Wires(s) \in Seq(Seq(X))
<1>1. s \in Seq(ToSet(s)) /\ \A n \in DOMAIN s : IsRequest(s[n])
    BY ParserAssumption, Zenon
<1>2. Len(s) \in Nat /\ DOMAIN s = 1..Len(s)
    BY <1>1, SeqDomain, Zenon
<1>3. \A n \in 1..Len(s) : Wires(s)[n] = Wire(s[n]) /\ IsRequest(s[n])
    BY <1>1, <1>2, Zenon DEF Wires
<1> DEFINE X == UNION {{Wire(s[n])[j] : j \in 1..Len(Wire(s[n]))} : n \in 1..Len(s)}
<1>4. ASSUME NEW n \in 1..Len(s) PROVE Wires(s)[n] \in Seq(X)
    <2> DEFINE w == Wire(s[n])
               Y == {w[j] : j \in 1..Len(w)}
    <2>1. PICK Z : w \in Seq(Z)
        BY <1>3, WireShape, Zenon
    <2> HIDE DEF w
    <2>2. w \in Seq(Y)
        BY <2>1
    <2>3. Y \subseteq X
        BY DEF w
    <2> HIDE DEF X, Y
    <2>4. w \in Seq(X)
        BY <2>2, <2>3, SubType, Zenon
    <2> QED
        BY <1>3, <2>4, Zenon DEF w
<1>5. Wires(s) \in Seq(Seq(X))
    <2>1. Wires(s) = [n \in 1..Len(s) |-> Wires(s)[n]]
        BY <1>2, Zenon DEF Wires
    <2> HIDE DEF X
    <2> QED
        BY <1>2, <1>4, <2>1, FunctionType, Zenon
<1>6. Len(Wires(s)) = Len(s)
    <2>1. DOMAIN Wires(s) = 1..Len(s)
        BY <1>2, Zenon DEF Wires
    <2>2. DOMAIN Wires(s) = 1..Len(Wires(s)) /\ Len(Wires(s)) \in Nat
        BY <1>5, SeqDomain, Zenon
    <2>3. \A m, n \in Nat : 1..m = 1..n => m = n
        OBVIOUS
    <2> QED
        BY <1>2, <2>1, <2>2, <2>3, Zenon
<1> QED
    BY <1>2, <1>3, <1>5, <1>6, Zenon

\* Streams and Ends are what FormDataProofs calls FlattenSeq and Upto.
LEMMA EndsAre ==
    ASSUME NEW s \in Sessions
    PROVE  /\ Streams[s] = FlattenSeq(Wires(s))
           /\ \A n \in 0..Len(s) : Ends[s][n] = Upto(Wires(s), n)
<1>1. Streams[s] = FlattenSeq(Wires(s))
    BY Zenon DEF Streams, Wires
<1>2. ASSUME NEW n \in 0..Len(s) PROVE Ends[s][n] = Upto(Wires(s), n)
    <2> DEFINE t == [m \in 1..n |-> Wire(s[m])]
    <2>1. Ends[s][n] = Len(FlattenSeq(t))
        BY Zenon DEF Ends
    <2>2. t = First(Wires(s), n)
        <3>1. \A m \in 1..n : m \in 1..Len(s)
            BY WiresType
        <3>2. \A m \in 1..n : Wires(s)[m] = Wire(s[m])
            BY <3>1, WiresType, Zenon
        <3> QED
            BY <3>2, Zenon DEF First
    <2> QED
        BY <2>1, <2>2, Zenon DEF Upto
<1> QED
    BY <1>1, <1>2

\* The ends of the requests are in order, and each piece of the stream is one of some
\* request, where it fits.
LEMMA StreamShape ==
    ASSUME sent \in Sessions
    PROVE  /\ Len(sent) \in Nat
           /\ \A n \in 0..Len(sent) : End(n) \in Nat
           /\ End(0) = 0 /\ End(Len(sent)) = Len(Stream)
           /\ \A n \in 1..Len(sent) : End(n) = End(n - 1) + Len(Wire(sent[n]))
           /\ \A n \in 1..Len(sent) : Len(Wire(sent[n])) \in Nat /\ Len(Wire(sent[n])) > 1
           /\ \A m \in 0..Len(sent) : \A n \in m..Len(sent) : End(m) <= End(n)
           /\ \E X : Stream \in Seq(X)
           /\ \A g \in 1..Len(Stream) : \E n \in 1..Len(sent) :
                 /\ End(n - 1) < g /\ g <= End(n)
                 /\ PieceFits(Stream[g], g - End(n - 1), End(n) - End(n - 1), Stream[g - 1])
<1> DEFINE ss == Wires(sent)
<1>1. PICK X : ss \in Seq(Seq(X))
    BY WiresType, Zenon
<1>2. Len(sent) \in Nat /\ Len(ss) = Len(sent)
      /\ \A n \in 1..Len(sent) : ss[n] = Wire(sent[n]) /\ IsRequest(sent[n])
    BY WiresType, Zenon
<1>3. Stream = FlattenSeq(ss) /\ \A n \in 0..Len(sent) : End(n) = Upto(ss, n)
    BY EndsAre, Zenon DEF Stream, End
<1> HIDE DEF ss
<1>4. \A n \in 0..Len(sent) : Upto(ss, n) \in Nat
    BY <1>1, <1>2, UptoSteps
<1>5. \A n \in 1..Len(sent) : n - 1 \in 0..Len(sent) /\ n \in 0..Len(sent)
    BY <1>2
<1>6. ASSUME NEW n \in 1..Len(sent)
      PROVE  /\ End(n) = End(n - 1) + Len(Wire(sent[n]))
             /\ Len(Wire(sent[n])) \in Nat /\ Len(Wire(sent[n])) > 1
    <2>1. Upto(ss, n) = Upto(ss, n - 1) + Len(ss[n])
        BY <1>1, <1>2, UptoSteps
    <2> QED
        BY <1>2, <1>3, <1>5, <2>1, WireShape, Zenon
<1>7. ASSUME NEW m \in 0..Len(sent), NEW n \in m..Len(sent) PROVE End(m) <= End(n)
    <2>1. n \in 0..Len(sent)
        BY <1>2
    <2> QED
        BY <1>1, <1>2, <1>3, <2>1, UptoMonotone, Zenon
<1>8. Stream \in Seq(X)
    BY <1>1, <1>3, FlattenIsSeq, Zenon
<1>9. End(0) = 0 /\ End(Len(sent)) = Len(Stream)
    <2>1. 0 \in 0..Len(sent) /\ Len(sent) \in 0..Len(sent)
        BY <1>2
    <2>2. Upto(ss, 0) = 0 /\ Upto(ss, Len(ss)) = Len(FlattenSeq(ss))
        BY <1>1, UptoSteps, Zenon
    <2> QED
        BY <1>2, <1>3, <2>1, <2>2, Zenon
<1>10. ASSUME NEW g \in 1..Len(Stream)
       PROVE  \E n \in 1..Len(sent) :
                 /\ End(n - 1) < g /\ g <= End(n)
                 /\ PieceFits(Stream[g], g - End(n - 1), End(n) - End(n - 1), Stream[g - 1])
    <2>1. PICK n \in 1..Len(sent) : Upto(ss, n - 1) < g /\ g <= Upto(ss, n)
        BY <1>1, <1>2, <1>3, PlaceIn, Zenon
    <2> DEFINE w == Wire(sent[n])
               j == g - End(n - 1)
    <2>2. End(n - 1) < g /\ g <= End(n)
        BY <1>3, <1>5, <2>1, Zenon
    <2>3. End(n - 1) \in Nat /\ End(n) \in Nat
        BY <1>3, <1>4, <1>5, Zenon
    <2>4. End(n) = End(n - 1) + Len(w) /\ Len(w) \in Nat
        BY <1>6, Zenon
    <2> HIDE DEF w
    <2>5. j \in 1..Len(w) /\ End(n - 1) + j = g /\ End(n) - End(n - 1) = Len(w)
        BY <2>2, <2>3, <2>4
    <2>6. PieceFits(w[j], j, Len(w), w[j - 1])
        BY <1>2, <2>5, WireShape, Zenon DEF w
    <2>7. \A i \in 1..Len(w) : Stream[End(n - 1) + i] = w[i]
        <3>1. ss[n] = w
            BY <1>2, Zenon DEF w
        <3>2. n \in 1..Len(ss)
            BY <1>2, Zenon
        <3>3. ASSUME NEW i \in 1..Len(w) PROVE FlattenSeq(ss)[Upto(ss, n - 1) + i] = ss[n][i]
            BY <1>1, <3>1, <3>2, PlaceHas, Zenon
        <3> QED
            BY <1>3, <1>5, <3>1, <3>3, Zenon
    <2>8. Stream[g] = w[j]
        BY <2>5, <2>7, Zenon
    <2>9. j > 1 => Stream[g - 1] = w[j - 1]
        <3>1. j > 1 => j - 1 \in 1..Len(w) /\ End(n - 1) + (j - 1) = g - 1
            BY <2>3, <2>4, <2>5
        <3> QED
            BY <2>7, <3>1, Zenon
    <2>10. PieceFits(Stream[g], j, Len(w), Stream[g - 1])
        BY <2>6, <2>8, <2>9, Zenon DEF PieceFits
    <2> QED
        BY <2>2, <2>5, <2>10, Zenon
<1> QED
    BY <1>2, <1>3, <1>4, <1>6, <1>7, <1>8, <1>9, <1>10, Zenon

-----------------------------------------------------------------------------
(* The callbacks *)

\* What the callbacks depend on, and what they keep: the marked part of a token and the
\* lists of headers are made of what the pieces of the stream hold (A).
Shaped(q, A) ==
    /\ DOMAIN q = DOMAIN NewRequest
    /\ DOMAIN q.parser = DOMAIN NewRequest.parser
    /\ q.part \in {"line", "head", "head_over", "body", "over"}
    /\ q.err \in {0, PARSE_LEN_REQUIRED, PARSE_MULTIPART_ERR}
    /\ q.fields \in Seq(Seq(A)) /\ q.values \in Seq(Seq(A))
    /\ q.last_was_value \in BOOLEAN
    /\ Len(q.fields) - Len(q.values) = IF q.last_was_value THEN 0 ELSE 1
    /\ q.parser.mark \in Seq(A)
    /\ q.parser.error \in BOOLEAN
    /\ q.size \in Nat

\* The parser is not touched by a callback that succeeds.
Kept(q, r) == r.parser = q.parser /\ r.size = q.size /\ r.err = q.err

\* The two ways a list of header names or values grows.
LEMMA AppendToLastType ==
    ASSUME NEW A, NEW s \in Seq(Seq(A)), NEW buf \in Seq(A)
    PROVE  /\ AppendToLast(s, buf) \in Seq(Seq(A)) /\ Len(AppendToLast(s, buf)) = Len(s)
           /\ Append(s, buf) \in Seq(Seq(A)) /\ Len(Append(s, buf)) = Len(s) + 1
<1>1. ASSUME s # <<>> PROVE s[Len(s)] \o buf \in Seq(A)
    <2>1. s[Len(s)] \in Seq(A)
        BY <1>1
    <2> QED
        BY <2>1, ConcatType, Zenon
<1>2. \A x \in Seq(A) : [s EXCEPT ![Len(s)] = x] \in Seq(Seq(A))
                        /\ Len([s EXCEPT ![Len(s)] = x]) = Len(s)
    <2> TAKE x \in Seq(A)
    <2> DEFINE t == [s EXCEPT ![Len(s)] = x]
               B == Seq(A)
    <2>1. Len(s) \in Nat /\ DOMAIN s = 1..Len(s)
        BY SeqDomain, Zenon
    <2>2. t = [i \in 1..Len(s) |-> t[i]]
        BY <2>1
    <2>3. ASSUME NEW i \in 1..Len(s) PROVE t[i] \in B
        <3>1. s[i] \in B
            OBVIOUS
        <3>2. t[i] = IF i = Len(s) THEN x ELSE s[i]
            BY <2>1
        <3> QED
            BY <3>1, <3>2, Zenon
    <2>4. DOMAIN t = 1..Len(s)
        BY <2>1
    <2> HIDE DEF t, B
    <2>5. t \in Seq(B)
        BY <2>1, <2>2, <2>3, FunctionType, Zenon
    <2>6. Len(t) = Len(s)
        BY <2>1, <2>4, <2>5
    <2> QED
        BY <2>5, <2>6, Zenon DEF B, t
<1>3. s = <<>> => AppendToLast(s, buf) = s
    BY DEF AppendToLast
<1>4. AppendToLast(s, buf) \in Seq(Seq(A)) /\ Len(AppendToLast(s, buf)) = Len(s)
    <2>1. AppendToLast(s, buf) = [s EXCEPT ![Len(s)] = s[Len(s)] \o buf]
        BY Zenon DEF AppendToLast
    <2>2. CASE s = <<>>
        <3>1. AppendToLast(s, buf) = s
            BY <1>3, <2>2, Zenon
        <3> QED
            BY <3>1
    <2>3. CASE s # <<>>
        <3> DEFINE x == s[Len(s)] \o buf
        <3>1. x \in Seq(A)
            BY <1>1, <2>3, Zenon
        <3>2. /\ [s EXCEPT ![Len(s)] = x] \in Seq(Seq(A))
              /\ Len([s EXCEPT ![Len(s)] = x]) = Len(s)
            <4> HIDE DEF x
            <4> QED
                BY <1>2, <3>1, Zenon
        <3> HIDE DEF x
        <3> QED
            BY <2>1, <3>2, Zenon DEF x
    <2> QED
        BY <2>2, <2>3
<1>5. Append(s, buf) \in Seq(Seq(A)) /\ Len(Append(s, buf)) = Len(s) + 1
    OBVIOUS
<1> QED
    BY <1>4, <1>5

\* on_url changes the URL only.
LEMMA OnUrlShape ==
    ASSUME NEW A, NEW q, Shaped(q, A), NEW buf \in Seq(A)
    PROVE  /\ Shaped(OnUrl(q, buf), A) /\ Kept(q, OnUrl(q, buf))
           /\ OnUrl(q, buf).part = q.part
BY DEF OnUrl, Shaped, Kept, NewRequest

\* The end of the request line touches neither list of headers.
LEMMA EndOfLineShape ==
    ASSUME NEW A, NEW q, Shaped(q, A)
    PROVE  /\ Shaped(EndOfLine(q), A) /\ Kept(q, EndOfLine(q))
           /\ EndOfLine(q).part = "over" => q.part = "over"
           /\ EndOfLine(q).last_was_value = q.last_was_value
           /\ EndOfLine(q).fields = q.fields
           /\ EndOfLine(q).values = q.values
BY DEF EndOfLine, Shaped, Kept, NewRequest

\* A call for a header's name, new or continued, keeps the lists in step.
LEMMA OnHeaderFieldShape ==
    ASSUME NEW A, NEW q, Shaped(q, A), NEW buf \in Seq(A)
    PROVE  /\ Shaped(OnHeaderField(q, buf), A) /\ Kept(q, OnHeaderField(q, buf))
           /\ OnHeaderField(q, buf).part = "over" => q.part = "over"
<1>1. q.fields \in Seq(Seq(A)) /\ q.values \in Seq(Seq(A)) /\ q.last_was_value \in BOOLEAN
      /\ Len(q.fields) - Len(q.values) = IF q.last_was_value THEN 0 ELSE 1
    BY Zenon DEF Shaped
<1>2. CASE q.last_was_value
    <2> DEFINE e == EndOfLine(q)
               f == Append(e.fields, buf)
               r == [e EXCEPT !.fields = f, !.last_was_value = FALSE]
    <2>1. OnHeaderField(q, buf) = r
        BY <1>2, Zenon DEF OnHeaderField
    <2>2. Shaped(e, A) /\ Kept(q, e) /\ (e.part = "over" => q.part = "over")
          /\ e.fields = q.fields /\ e.values = q.values
        BY EndOfLineShape
    <2>3. f \in Seq(Seq(A)) /\ Len(f) = Len(e.values) + 1 /\ Len(e.values) \in Nat
        <3> HIDE DEF e
        <3>1. e.fields \in Seq(Seq(A)) /\ e.values \in Seq(Seq(A)) /\ Len(e.fields) = Len(e.values)
            BY <1>1, <1>2, <2>2
        <3>2. f \in Seq(Seq(A)) /\ Len(f) = Len(e.fields) + 1
            <4>1. \A B : \A u \in Seq(B) : \A x \in B :
                        Append(u, x) \in Seq(B) /\ Len(Append(u, x)) = Len(u) + 1
                OBVIOUS
            <4> QED
                BY <3>1, <4>1, Zenon
        <3> HIDE DEF f
        <3> QED
            BY <3>1, <3>2
    <2> HIDE DEF e, f
    <2>4. Shaped(r, A) /\ Kept(e, r) /\ r.part = e.part
        BY <2>2, <2>3 DEF Shaped, Kept, NewRequest
    <2> HIDE DEF r
    <2> QED
        BY <2>1, <2>2, <2>4 DEF Kept
<1>3. CASE ~q.last_was_value
    <2> DEFINE e == EndOfLine(q)
               f == AppendToLast(e.fields, buf)
               r == [e EXCEPT !.fields = f]
    <2>1. OnHeaderField(q, buf) = r
        BY <1>3, Zenon DEF OnHeaderField
    <2>2. Shaped(e, A) /\ Kept(q, e) /\ (e.part = "over" => q.part = "over")
          /\ e.fields = q.fields /\ e.values = q.values
        BY EndOfLineShape
    <2>3. f \in Seq(Seq(A)) /\ Len(f) = Len(e.fields)
        BY <1>1, <2>2, AppendToLastType
    <2> HIDE DEF e, f
    <2>4. Shaped(r, A) /\ Kept(e, r) /\ r.part = e.part
        BY <2>2, <2>3 DEF Shaped, Kept, NewRequest
    <2> HIDE DEF r
    <2> QED
        BY <2>1, <2>2, <2>4 DEF Kept
<1> QED
    BY <1>2, <1>3

\* So does a call for a value.
LEMMA OnHeaderValueShape ==
    ASSUME NEW A, NEW q, Shaped(q, A), NEW buf \in Seq(A)
    PROVE  /\ Shaped(OnHeaderValue(q, buf), A) /\ Kept(q, OnHeaderValue(q, buf))
           /\ OnHeaderValue(q, buf).part = q.part
<1> DEFINE v == IF q.last_was_value THEN AppendToLast(q.values, buf) ELSE Append(q.values, buf)
           r == [q EXCEPT !.values = v, !.last_was_value = TRUE]
<1>1. q.fields \in Seq(Seq(A)) /\ q.values \in Seq(Seq(A)) /\ q.last_was_value \in BOOLEAN
      /\ Len(q.fields) - Len(q.values) = IF q.last_was_value THEN 0 ELSE 1
    BY Zenon DEF Shaped
<1>2. v \in Seq(Seq(A)) /\ Len(v) = Len(q.fields)
    <2> DEFINE x == AppendToLast(q.values, buf)
               y == Append(q.values, buf)
    <2>1. /\ x \in Seq(Seq(A)) /\ Len(x) = Len(q.values)
          /\ y \in Seq(Seq(A)) /\ Len(y) = Len(q.values) + 1
        BY <1>1, AppendToLastType, Zenon
    <2>2. v = IF q.last_was_value THEN x ELSE y
        OBVIOUS
    <2>3. Len(q.values) \in Nat /\ Len(q.fields) \in Nat
        BY <1>1
    <2> HIDE DEF x, y, v
    <2>4. CASE q.last_was_value
        <3>1. v = x
            BY <2>2, <2>4, Zenon
        <3>2. Len(q.fields) = Len(q.values)
            BY <1>1, <2>3, <2>4
        <3> QED
            BY <2>1, <3>1, <3>2
    <2>5. CASE ~q.last_was_value
        <3>1. v = y
            BY <2>2, <2>5, Zenon
        <3>2. Len(q.fields) = Len(q.values) + 1
            BY <1>1, <2>3, <2>5
        <3> QED
            BY <2>1, <3>1, <3>2
    <2> QED
        BY <2>4, <2>5
<1>3. OnHeaderValue(q, buf) = r
    BY Zenon DEF OnHeaderValue
<1> HIDE DEF v
<1>4. Shaped(r, A) /\ Kept(q, r) /\ r.part = q.part
    BY <1>1, <1>2 DEF Shaped, Kept, NewRequest
<1> QED
    BY <1>3, <1>4

\* on_body changes the body and the part.
LEMMA OnBodyShape ==
    ASSUME NEW A, NEW q, Shaped(q, A), NEW buf \in Seq(A)
    PROVE  /\ Shaped(OnBody(q, buf), A) /\ Kept(q, OnBody(q, buf))
           /\ OnBody(q, buf).part = "body"
BY DEF OnBody, Shaped, Kept, NewRequest

\* A callback that fails.
LEMMA FailsShape ==
    ASSUME NEW A, NEW q, Shaped(q, A)
    PROVE  Shaped(Fails(q), A) /\ Fails(q).size = q.size /\ Fails(q).parser.error
BY DEF Fails, Shaped, NewRequest

\* on_headers_complete fails or leaves the parser where it was.
LEMMA OnHeadersCompleteShape ==
    ASSUME NEW A, NEW q, Shaped(q, A), NEW r, r = OnHeadersComplete(q)
    PROVE  /\ Shaped(r, A) /\ r.size = q.size
           /\ ~r.parser.error => Kept(q, r) /\ r.part # "over"
<1> DEFINE h == [q EXCEPT !.headers = AddHeaders(q.fields, q.values), !.part = "head_over"]
           e == [h EXCEPT !.err = PARSE_LEN_REQUIRED]
<1>1. Shaped(h, A) /\ Kept(q, h) /\ h.part = "head_over"
    BY DEF Shaped, Kept, NewRequest
<1>2. Shaped(e, A) /\ e.size = q.size
    <2> HIDE DEF h
    <2> QED
        BY <1>1 DEF Shaped, Kept, NewRequest
<1>3. r = Fails(q) \/ r = h \/ r = Fails(e)
    BY Zenon DEF OnHeadersComplete
<1> HIDE DEF h, e
<1>4. CASE r = Fails(q)
    <2>1. Shaped(Fails(q), A) /\ Fails(q).size = q.size /\ Fails(q).parser.error
        BY FailsShape, Zenon
    <2> QED
        BY <1>4, <2>1
<1>5. CASE r = h
    BY <1>1, <1>5 DEF Kept
<1>6. CASE r = Fails(e)
    <2>1. Shaped(Fails(e), A) /\ Fails(e).size = e.size /\ Fails(e).parser.error
        BY <1>2, FailsShape, Zenon
    <2> QED
        BY <1>2, <1>6, <2>1
<1> QED
    BY <1>3, <1>4, <1>5, <1>6

\* on_message_complete fails or leaves the parser between two requests.
LEMMA CompleteShape ==
    ASSUME NEW A, NEW q, Shaped(q, A), NEW r, r = Complete(q)
    PROVE  /\ Shaped(r, A) /\ r.size = q.size
           /\ ~r.parser.error => /\ r.parser.at = "start" /\ r.parser.mark = q.parser.mark
                                 /\ r.err = q.err
<1> DEFINE c == [q EXCEPT !.parser.at = "start"]
           b == ParsedBody(c)
           d == [c EXCEPT !.items = b.items, !.form = b.params, !.part = "over"]
           e == [d EXCEPT !.err = PARSE_MULTIPART_ERR]
<1>1. /\ Shaped(c, A) /\ c.parser.at = "start" /\ c.parser.mark = q.parser.mark
      /\ c.size = q.size /\ c.err = q.err
    BY DEF Shaped, NewRequest
<1>2. r = d \/ r = Fails(e)
    BY Zenon DEF Complete, OnMessageComplete, EndOfMessage
<1> HIDE DEF c, b
<1>3. Shaped(d, A) /\ Kept(c, d)
    BY <1>1 DEF Shaped, Kept, NewRequest
<1> HIDE DEF d
<1>4. Shaped(e, A) /\ e.size = d.size
    BY <1>3 DEF Shaped, NewRequest
<1> HIDE DEF e
<1>5. CASE r = d
    BY <1>1, <1>3, <1>5, Zenon DEF Kept
<1>6. CASE r = Fails(e)
    <2>1. e.size = q.size
        BY <1>1, <1>3, <1>4, Zenon DEF Kept
    <2> QED
        <3>1. Shaped(Fails(e), A) /\ Fails(e).size = e.size /\ Fails(e).parser.error
            BY <1>4, FailsShape, Zenon
        <3> QED
            BY <1>6, <2>1, <3>1
<1> QED
    BY <1>2, <1>5, <1>6

\* What was marked has been called back with.
CalledBack(q, r, A) ==
    /\ Shaped(r, A) /\ r.size = q.size /\ r.err = q.err
    /\ r.parser.mark = <<>> /\ r.parser.at = q.parser.at
    /\ r.parser.left = q.parser.left /\ r.parser.error = q.parser.error
    /\ r.part = "over" => q.part = "over"

\* Every data callback: the part it is of is marked no longer, and no request is over
\* that was not.
LEMMA CallbackShape ==
    ASSUME NEW A, NEW q, Shaped(q, A), NEW on \in {"url", "field", "value", "body"}
    PROVE  CalledBack(q, Callback(q, on), A)
<1> DEFINE r == Callback(q, on)
           c == [q EXCEPT !.parser.mark = <<>>]
           buf == q.parser.mark
<1>1. /\ Shaped(c, A) /\ c.size = q.size /\ c.part = q.part /\ c.err = q.err
      /\ c.parser = [q.parser EXCEPT !.mark = <<>>]
      /\ c.parser.mark = <<>> /\ c.parser.at = q.parser.at
      /\ c.parser.left = q.parser.left /\ c.parser.error = q.parser.error
    <2>1. c.parser = [q.parser EXCEPT !.mark = <<>>]
        BY DEF Shaped, NewRequest
    <2>2. <<>> \in Seq(A)
        BY EmptySeq, Zenon
    <2>3. /\ DOMAIN c.parser = DOMAIN q.parser
          /\ c.parser.mark = <<>> /\ c.parser.at = q.parser.at
          /\ c.parser.left = q.parser.left /\ c.parser.error = q.parser.error
        <3>1. DOMAIN q.parser = {"at", "method", "mark", "left", "error"}
            BY DEF Shaped, NewRequest
        <3> HIDE DEF c
        <3> QED
            BY <2>1, <3>1
    <2>4. Shaped(c, A) /\ c.size = q.size /\ c.part = q.part /\ c.err = q.err
        BY <2>2, <2>3 DEF Shaped, NewRequest
    <2> HIDE DEF c
    <2> QED
        BY <2>1, <2>3, <2>4, Zenon
<1>2. buf \in Seq(A)
    BY DEF Shaped
<1>3. \/ r = OnUrl(c, buf) \/ r = OnHeaderField(c, buf)
      \/ r = OnHeaderValue(c, buf) \/ r = OnBody(c, buf)
    BY DEF Callback
<1> HIDE DEF c, buf, r
<1>4. Shaped(r, A) /\ Kept(c, r) /\ (r.part = "over" => c.part = "over")
    <2>1. CASE r = OnUrl(c, buf)
        <3>1. Shaped(OnUrl(c, buf), A) /\ Kept(c, OnUrl(c, buf))
              /\ OnUrl(c, buf).part = c.part
            BY <1>1, <1>2, OnUrlShape
        <3> QED
            BY <2>1, <3>1
    <2>2. CASE r = OnHeaderField(c, buf)
        <3>1. Shaped(OnHeaderField(c, buf), A) /\ Kept(c, OnHeaderField(c, buf))
              /\ (OnHeaderField(c, buf).part = "over" => c.part = "over")
            BY <1>1, <1>2, OnHeaderFieldShape
        <3> QED
            BY <2>2, <3>1
    <2>3. CASE r = OnHeaderValue(c, buf)
        <3>1. Shaped(OnHeaderValue(c, buf), A) /\ Kept(c, OnHeaderValue(c, buf))
              /\ OnHeaderValue(c, buf).part = c.part
            BY <1>1, <1>2, OnHeaderValueShape
        <3> QED
            BY <2>3, <3>1
    <2>4. CASE r = OnBody(c, buf)
        <3>1. Shaped(OnBody(c, buf), A) /\ Kept(c, OnBody(c, buf)) /\ OnBody(c, buf).part = "body"
            BY <1>1, <1>2, OnBodyShape, Zenon
        <3> QED
            BY <2>4, <3>1
    <2> QED
        BY <1>3, <2>1, <2>2, <2>3, <2>4
<1>5. CalledBack(q, r, A)
    BY <1>1, <1>4, Zenon DEF Kept, CalledBack
<1> QED
    BY <1>5 DEF r

-----------------------------------------------------------------------------
(* One piece *)

\* The parser where it has read j of the n pieces of a request, the last one p, and is
\* not done with it.
Within(q, j, n, p) ==
    /\ j < n
    /\ q.parser.at = p.on /\ p.on # "start"
    /\ p.on \notin {"url", "field", "value", "body"} => q.parser.mark = <<>>
    /\ p.on \in {"blank", "body"} => q.parser.left = n - j

Between(q) == q.parser.at = "start" /\ q.parser.mark = <<>>

\* What a piece that fits can be.
LEMMA PieceOns ==
    ASSUME NEW p, NEW j, NEW n, NEW p0, PieceFits(p, j, n, p0)
    PROVE  /\ p.on # "start"
           /\ p.on = "end" => p.at \in Names
           /\ p.on \in {"method", "url", "field", "value", "end", "blank", "body"}
BY DEF PieceFits, HeadPieces, Names

\* Reading a piece, what is called back with keeps its shape; the parser stays within
\* the request, fails, or is done with it at its last piece, and only there the
\* request may be noted as complete.
LEMMA ConsumeShape ==
    ASSUME NEW A, NEW q, Shaped(q, A), NEW p, p.at \in A,
           NEW n \in Nat, NEW j \in 1..n, NEW p0, PieceFits(p, j, n, p0),
           ~q.parser.error,
           \/ Between(q)
           \/ j > 1 /\ Within(q, j - 1, n, p0),
           NEW r, r = Consume(q, p)
    PROVE  /\ Shaped(r, A) /\ r.size = q.size
           /\ ~r.parser.error => /\ Between(r) \/ Within(r, j, n, p)
                                 /\ r.part = "over" => q.part = "over" \/ j = n
                                 /\ r.err = q.err
                                 /\ Between(q) /\ p.on # "method" => r = q /\ p.on = "blank"
<1> DEFINE c == [q EXCEPT !.parser.at = p.on]
           marked == [c EXCEPT !.parser.mark = Append(@, p.at)]
           l == [c EXCEPT !.parser.left = p.at]
           h == OnHeadersComplete(l)
           b == [marked EXCEPT !.parser.left = @ - 1]
<1>0. /\ q.parser.mark \in Seq(A)
      /\ DOMAIN q.parser = {"at", "method", "mark", "left", "error"}
      /\ q.parser.mark = <<>> => q.parser.mark \in Seq(A)
    BY DEF Shaped, NewRequest
<1>1. /\ Shaped(c, A) /\ c.size = q.size /\ c.part = q.part /\ c.err = q.err
      /\ c.parser = [q.parser EXCEPT !.at = p.on]
      /\ c.parser.at = p.on /\ c.parser.mark = q.parser.mark
      /\ c.parser.left = q.parser.left /\ c.parser.error = q.parser.error
    BY DEF Shaped, NewRequest
<1>2. p.on # "start" /\ (p.on = "end" => p.at \in Names)
      /\ p.on \in {"method", "url", "field", "value", "end", "blank", "body"}
    BY PieceOns, Zenon
<1>3. CASE Between(q) /\ p.on = "blank"
    <2>1. r = q
        BY <1>3 DEF Consume, Between
    <2> QED
        BY <1>3, <2>1
<1>4. CASE Between(q) /\ p.on \notin {"method", "blank"}
    <2>1. r = Fails(q)
        BY <1>4 DEF Consume, Between
    <2>2. Shaped(Fails(q), A) /\ Fails(q).size = q.size /\ Fails(q).parser.error
        BY FailsShape, Zenon
    <2> QED
        BY <2>1, <2>2
<1>5. CASE p.on = "method"
    <2> DEFINE m == [c EXCEPT !.parser.method = p.at]
    <2>1. j = 1 /\ j < n /\ Between(q)
        BY <1>5 DEF PieceFits, HeadPieces, Names
    <2>2. r = m
        BY <1>5, <2>1 DEF Consume, Between
    <2>3. /\ Shaped(m, A) /\ m.size = q.size /\ m.part = q.part /\ m.err = q.err
          /\ m.parser.at = "method" /\ m.parser.mark = <<>>
        <3> HIDE DEF c
        <3> QED
            BY <1>1, <1>5, <2>1 DEF Shaped, NewRequest, Between
    <2> HIDE DEF m
    <2> QED
        BY <1>5, <2>1, <2>2, <2>3 DEF Within
<1>6. CASE ~Between(q) /\ p.on # "method"
    <2>0. j > 1 /\ Within(q, j - 1, n, p0) /\ q.parser.at # "start"
        BY <1>6 DEF Within
    <2>1. CASE p.on = "end"
        <3>1. r = Callback(c, p.at)
            BY <1>6, <2>0, <2>1 DEF Consume
        <3>2. /\ Shaped(r, A) /\ r.size = c.size /\ r.err = c.err
              /\ r.parser.mark = <<>> /\ r.parser.at = c.parser.at
              /\ r.part = "over" => c.part = "over"
            <4>1. p.at \in {"url", "field", "value", "body"}
                BY <1>2, <2>1 DEF Names
            <4>2. Shaped(c, A)
                BY <1>1, Zenon
            <4> HIDE DEF c
            <4>3. CalledBack(c, Callback(c, p.at), A)
                BY <4>1, <4>2, CallbackShape, Zenon
            <4> QED
                BY <3>1, <4>3 DEF CalledBack
        <3>3. j < n
            BY <2>1 DEF PieceFits
        <3> HIDE DEF c
        <3> QED
            BY <1>6, <1>1, <2>1, <3>2, <3>3 DEF Within
    <2>2. CASE p.on \in {"url", "field", "value"}
        <3>1. r = marked
            BY <1>6, <2>0, <2>2 DEF Consume
        <3>2. j < n
            BY <2>2 DEF PieceFits
        <3>3. Append(c.parser.mark, p.at) \in Seq(A)
            BY <1>0, <1>1
        <3>4. /\ Shaped(marked, A) /\ marked.size = q.size /\ marked.part = q.part
              /\ marked.err = q.err
              /\ marked.parser.at = p.on
            <4> HIDE DEF c
            <4> QED
                BY <1>1, <3>3 DEF Shaped, NewRequest
        <3> HIDE DEF c, marked
        <3> QED
            BY <1>6, <2>2, <3>1, <3>2, <3>4 DEF Within
    <2>3. CASE p.on = "blank"
        <3>1. r = IF h.parser.error \/ p.at > 0 THEN h ELSE Complete(h)
            BY <1>6, <2>0, <2>3 DEF Consume
        <3>2. p.at = n - j /\ p0.on = "end"
            BY <2>3 DEF PieceFits, HeadPieces, Names
        <3>3. q.parser.mark = <<>>
            BY <2>0, <3>2 DEF Within
        <3>4. /\ Shaped(l, A) /\ l.size = q.size /\ l.err = q.err
              /\ l.parser.at = "blank" /\ l.parser.mark = <<>> /\ l.parser.left = n - j
            <4> HIDE DEF c
            <4> QED
                BY <1>1, <2>3, <3>2, <3>3 DEF Shaped, NewRequest
        <3> HIDE DEF c, l
        <3>5. /\ Shaped(h, A) /\ h.size = q.size
              /\ ~h.parser.error => Kept(l, h) /\ h.part # "over"
            BY <3>4, OnHeadersCompleteShape, Zenon
        <3> HIDE DEF h
        <3>6. CASE h.parser.error
            BY <3>1, <3>5, <3>6
        <3>7. CASE ~h.parser.error /\ p.at > 0
            <4>1. r = h
                BY <3>1, <3>7
            <4>2. Within(r, j, n, p)
                BY <2>3, <3>2, <3>4, <3>5, <3>7, <4>1 DEF Within, Kept
            <4> QED
                BY <1>6, <3>4, <3>5, <3>7, <4>1, <4>2 DEF Kept
        <3>8. CASE ~h.parser.error /\ ~(p.at > 0)
            <4>1. r = Complete(h)
                BY <3>1, <3>8
            <4>2. /\ Shaped(r, A) /\ r.size = h.size
                  /\ ~r.parser.error => /\ r.parser.at = "start" /\ r.parser.mark = h.parser.mark
                                        /\ r.err = h.err
                BY <3>5, <4>1, CompleteShape, Zenon
            <4>3. j = n
                BY <3>2, <3>8
            <4> QED
                BY <1>6, <3>4, <3>5, <3>8, <4>2, <4>3 DEF Kept, Between
        <3> QED
            BY <3>6, <3>7, <3>8
    <2>4. CASE p.on = "body"
        <3>1. r = IF b.parser.left > 0 THEN b ELSE Complete(Callback(b, "body"))
            BY <1>6, <2>0, <2>4 DEF Consume
        <3>2. p0.on \in {"blank", "body"} /\ q.parser.left = n - (j - 1)
            BY <2>0, <2>4 DEF PieceFits, HeadPieces, Names, Within
        <3>3. Append(c.parser.mark, p.at) \in Seq(A)
            BY <1>0, <1>1
        <3>4. /\ Shaped(b, A) /\ b.size = q.size /\ b.part = q.part /\ b.err = q.err
              /\ b.parser.at = "body" /\ b.parser.left = n - j
            <4>1. /\ Shaped(marked, A) /\ marked.size = q.size /\ marked.part = q.part
              /\ marked.err = q.err
                  /\ marked.parser.at = "body" /\ marked.parser.left = n - (j - 1)
                <5> HIDE DEF c
                <5> QED
                    BY <1>1, <2>4, <3>2, <3>3 DEF Shaped, NewRequest
            <4> HIDE DEF marked
            <4>2. /\ Shaped(b, A) /\ b.size = marked.size /\ b.part = marked.part /\ b.err = marked.err
                  /\ b.parser.at = marked.parser.at
                  /\ b.parser.left = marked.parser.left - 1
                BY <4>1 DEF Shaped, NewRequest
            <4> HIDE DEF b
            <4>3. (n - (j - 1)) - 1 = n - j
                OBVIOUS
            <4> QED
                BY <4>1, <4>2, <4>3
        <3> HIDE DEF b
        <3>5. CASE b.parser.left > 0
            <4>1. r = b /\ j < n
                BY <3>1, <3>4, <3>5
            <4> QED
                BY <1>6, <2>4, <3>4, <4>1 DEF Within
        <3>6. CASE ~(b.parser.left > 0)
            <4> DEFINE d == Callback(b, "body")
            <4>1. r = Complete(d) /\ j = n
                BY <3>1, <3>4, <3>6
            <4>2. Shaped(d, A) /\ d.size = b.size /\ d.err = b.err /\ d.parser.mark = <<>>
                <5>1. "body" \in {"url", "field", "value", "body"} /\ Shaped(b, A)
                    BY <3>4
                <5>2. CalledBack(b, Callback(b, "body"), A)
                    BY <5>1, CallbackShape, Zenon
                <5> QED
                    BY <5>2 DEF CalledBack
            <4> HIDE DEF d
            <4>3. /\ Shaped(r, A) /\ r.size = d.size
                  /\ ~r.parser.error => /\ r.parser.at = "start" /\ r.parser.mark = d.parser.mark
                                        /\ r.err = d.err
                BY <4>1, <4>2, CompleteShape, Zenon
            <4> QED
                BY <1>6, <3>4, <4>1, <4>2, <4>3 DEF Between
        <3> QED
            BY <3>5, <3>6
    <2> QED
        BY <1>2, <1>6, <2>1, <2>2, <2>3, <2>4
<1> QED
    BY <1>3, <1>4, <1>5, <1>6

-----------------------------------------------------------------------------
(* The pieces of a read *)

Ats == {Stream[g].at : g \in 1..Len(Stream)}

\* The parser has read the stream up to g.
Synced(q, g) ==
    \/ Between(q)
    \/ \E n \in 1..Len(sent) :
          End(n - 1) < g /\ Within(q, g - End(n - 1), End(n) - End(n - 1), Stream[g])

\* A Request whose first piece, after base, is not the first of one that was sent (it
\* lies in request n) fails, unless that piece is a blank line, which is skipped.
Skips(q, base, g) ==
    \A n \in 1..Len(sent) :
        End(n - 1) < base /\ base < End(n) /\ base < g
            => \/ End(n) = base + 1
               \/ /\ g = base + 1 /\ Stream[g].on = "blank"
                  /\ Between(q) /\ q.part # "over"

\* A Request that began after base, and has read the pieces after from in this call.
Good(q, base, from, g) ==
    /\ q.err = 0
    /\ Synced(q, g)
    /\ q.part = "over" => \E n \in 1..Len(sent) : from < End(n) /\ End(n) <= g
    /\ g = base => Between(q)
    /\ Skips(q, base, g)

\* The piece at g fits where request n has it.
LEMMA Place ==
    ASSUME sent \in Sessions, NEW n \in 1..Len(sent), NEW g \in 1..Len(Stream),
           End(n - 1) < g, g <= End(n)
    PROVE  /\ End(n) - End(n - 1) \in Nat /\ g - End(n - 1) \in 1..(End(n) - End(n - 1))
           /\ PieceFits(Stream[g], g - End(n - 1), End(n) - End(n - 1), Stream[g - 1])
<1>1. PICK m \in 1..Len(sent) :
          /\ End(m - 1) < g /\ g <= End(m)
          /\ PieceFits(Stream[g], g - End(m - 1), End(m) - End(m - 1), Stream[g - 1])
    BY StreamShape, Zenon
<1>2. Len(sent) \in Nat
    BY StreamShape, Zenon
<1>3. \A i \in 0..Len(sent) : End(i) \in Nat
    BY StreamShape, Zenon
<1>4. m - 1 \in 0..Len(sent) /\ n - 1 \in 0..Len(sent)
      /\ m \in 0..Len(sent) /\ n \in 0..Len(sent)
    BY <1>2
<1>5. m = n
    <2>1. CASE m < n
        <3>1. n - 1 \in m..Len(sent)
            BY <1>2, <2>1
        <3>2. End(m) <= End(n - 1)
            BY <1>4, <3>1, StreamShape, Zenon
        <3> QED
            BY <1>1, <1>3, <1>4, <3>2
    <2>2. CASE n < m
        <3>1. m - 1 \in n..Len(sent)
            BY <1>2, <2>2
        <3>2. End(n) <= End(m - 1)
            BY <1>4, <3>1, StreamShape, Zenon
        <3> QED
            BY <1>1, <1>3, <1>4, <3>2
    <2> QED
        BY <1>2, <2>1, <2>2
<1>6. End(n) \in Nat /\ End(n - 1) \in Nat
    BY <1>3, <1>4
<1>7. End(n) - End(n - 1) \in Nat /\ g - End(n - 1) \in 1..(End(n) - End(n - 1))
    BY <1>6
<1> QED
    BY <1>1, <1>5, <1>7, Zenon

\* The step of the induction: a Request that has kept its place keeps it over one more
\* piece.
LEMMA ConsumeGood ==
    ASSUME sent \in Sessions, NEW q, Shaped(q, Ats),
           NEW base \in Nat, NEW from \in Nat, NEW g \in Nat,
           base <= from, from <= g, g + 1 \in 1..Len(Stream),
           ~q.parser.error => Good(q, base, from, g),
           NEW r, r = Consume(q, Stream[g + 1])
    PROVE  /\ Shaped(r, Ats) /\ r.size = q.size
           /\ ~r.parser.error => Good(r, base, from, g + 1)
<1> DEFINE p == Stream[g + 1]
<1>1. CASE q.parser.error
    <2>1. r = q
        BY <1>1 DEF Consume
    <2> QED
        BY <1>1, <2>1
<1>2. CASE ~q.parser.error
    <2>1. PICK n \in 1..Len(sent) : End(n - 1) < g + 1 /\ g + 1 <= End(n)
        BY StreamShape, Zenon
    <2> DEFINE j == (g + 1) - End(n - 1)
               w == End(n) - End(n - 1)
    <2>2. w \in Nat /\ j \in 1..w /\ PieceFits(p, j, w, Stream[(g + 1) - 1])
        BY <2>1, Place, Zenon
    <2>3. (g + 1) - 1 = g
        OBVIOUS
    <2>4. PieceFits(p, j, w, Stream[g])
        BY <2>2, <2>3, Zenon
    <2>5. p.at \in Ats
        BY DEF Ats
    <2>6. Len(sent) \in Nat /\ \A i \in 0..Len(sent) : End(i) \in Nat
        BY StreamShape, Zenon
    <2>7. End(n) \in Nat /\ End(n - 1) \in Nat
        BY <2>6
    <2>8. Good(q, base, from, g)
        BY <1>2
    <2>9. \/ Between(q)
          \/ j > 1 /\ Within(q, j - 1, w, Stream[g])
        <3>1. CASE Between(q)
            BY <3>1
        <3>2. CASE ~Between(q)
            <4>1. PICK m \in 1..Len(sent) :
                      /\ End(m - 1) < g
                      /\ Within(q, g - End(m - 1), End(m) - End(m - 1), Stream[g])
                BY <2>8, <3>2, Zenon DEF Good, Synced
            <4>2. End(m) \in Nat /\ End(m - 1) \in Nat
                BY <2>6
            <4>3. End(m - 1) < g + 1 /\ g + 1 <= End(m)
                BY <4>1, <4>2 DEF Within
            <4>4. m = n
                <5>1. CASE m < n
                    <6>1. End(m) <= End(n - 1)
                        <7>1. m \in 0..Len(sent) /\ n - 1 \in m..Len(sent)
                            BY <2>6, <5>1
                        <7> QED
                            BY <7>1, StreamShape, Zenon
                    <6> QED
                        BY <2>1, <2>7, <4>2, <4>3, <6>1
                <5>2. CASE n < m
                    <6>1. End(n) <= End(m - 1)
                        <7>1. n \in 0..Len(sent) /\ m - 1 \in n..Len(sent)
                            BY <2>6, <5>2
                        <7> QED
                            BY <7>1, StreamShape, Zenon
                    <6> QED
                        BY <2>1, <2>7, <4>2, <4>3, <6>1
                <5> QED
                    BY <2>6, <5>1, <5>2
            <4>5. g - End(n - 1) = j - 1 /\ j > 1
                BY <2>7, <4>1, <4>4
            <4> QED
                BY <4>1, <4>4, <4>5
        <3> QED
            BY <3>1, <3>2
    <2>10. /\ Shaped(r, Ats) /\ r.size = q.size
           /\ ~r.parser.error => /\ Between(r) \/ Within(r, j, w, p)
                                 /\ r.part = "over" => q.part = "over" \/ j = w
                                 /\ r.err = q.err
                                 /\ Between(q) /\ p.on # "method" => r = q /\ p.on = "blank"
        <3> HIDE DEF p, j, w
        <3> QED
            BY <1>2, <2>2, <2>4, <2>5, <2>9, ConsumeShape DEF p
    <2> SUFFICES ASSUME ~r.parser.error PROVE Good(r, base, from, g + 1)
        BY <2>10, Zenon
    <2>11. Synced(r, g + 1)
        BY <2>1, <2>10, Zenon DEF Synced
    <2>12. r.part = "over" => \E m \in 1..Len(sent) : from < End(m) /\ End(m) <= g + 1
        <3>1. CASE q.part = "over"
            <4>1. PICK m \in 1..Len(sent) : from < End(m) /\ End(m) <= g
                BY <2>8, <3>1, Zenon DEF Good
            <4>2. End(m) \in Nat
                BY <2>6
            <4>3. End(m) <= g + 1
                BY <4>1, <4>2
            <4> QED
                BY <4>1, <4>3, Zenon
        <3>2. CASE j = w
            <4>1. End(n) = g + 1 /\ from < End(n) /\ End(n) <= g + 1
                BY <2>7, <3>2
            <4> QED
                BY <4>1, Zenon
        <3> QED
            BY <2>10, <3>1, <3>2
    <2>13. Skips(r, base, g + 1)
        <3> SUFFICES ASSUME NEW m \in 1..Len(sent), End(m - 1) < base, base < End(m),
                            End(m) # base + 1
                     PROVE  /\ g + 1 = base + 1 /\ p.on = "blank"
                            /\ Between(r) /\ r.part # "over"
            BY Zenon DEF Skips
        <3>1. End(m) \in Nat /\ End(m - 1) \in Nat /\ base + 1 < End(m)
            BY <2>6
        <3>2. CASE g = base
            <4>1. Between(q) /\ q.part # "over"
                <5>1. ~\E i \in 1..Len(sent) : from < End(i) /\ End(i) <= g
                    BY <2>6, <3>2
                <5> QED
                    BY <2>8, <3>2, <5>1, Zenon DEF Good
            <4>2. p.on # "method"
                <5>1. End(m - 1) < g + 1 /\ g + 1 <= End(m) /\ (g + 1) - End(m - 1) > 1
                    BY <3>1, <3>2
                <5>2. PieceFits(p, (g + 1) - End(m - 1), End(m) - End(m - 1), Stream[(g + 1) - 1])
                    BY <5>1, Place, Zenon
                <5> HIDE DEF p
                <5> QED
                    BY <5>1, <5>2 DEF PieceFits, HeadPieces, Names
            <4>3. r = q /\ p.on = "blank"
                BY <2>10, <4>1, <4>2, Zenon
            <4> QED
                BY <3>2, <4>1, <4>3
        <3>3. CASE g # base
            <4>1. /\ g = base + 1 /\ Stream[g].on = "blank"
                  /\ Between(q) /\ q.part # "over"
                <5>1. base < g
                    BY <3>3
                <5> QED
                    BY <2>8, <5>1, Zenon DEF Good, Skips
            <4>2. End(m - 1) < g + 1 /\ g + 1 <= End(m) /\ (g + 1) - End(m - 1) > 1
                BY <3>1, <4>1
            <4>3. PieceFits(p, (g + 1) - End(m - 1), End(m) - End(m - 1), Stream[g])
                BY <2>3, <4>2, Place, Zenon
            <4>4. p.on # "method" /\ p.on # "blank"
                <5> HIDE DEF p
                <5> QED
                    BY <4>1, <4>2, <4>3 DEF PieceFits, HeadPieces, Names
            <4> QED
                BY <2>10, <4>1, <4>4, Zenon
        <3> QED
            BY <3>2, <3>3
    <2> QED
        BY <2>8, <2>10, <2>11, <2>12, <2>13 DEF Good
<1> QED
    BY <1>1, <1>2

\* What is consumed of a read, piece by piece.
Consumes(f, q, pieces, n) ==
    f = [i \in 0..n |-> IF i = 0 THEN q ELSE Consume(f[i - 1], pieces[i])]

InTurn(f, q, pieces, n) ==
    f[0] = q /\ \A i \in 1..n : f[i] = Consume(f[i - 1], pieces[i])

\* The function, step by step.
LEMMA ConsumesSteps ==
    ASSUME NEW q, NEW pieces, NEW n \in Nat, NEW f, Consumes(f, q, pieces, n)
    PROVE  InTurn(f, q, pieces, n)
<1>1. \A i \in 0..n : f[i] = IF i = 0 THEN q ELSE Consume(f[i - 1], pieces[i])
    BY Zenon DEF Consumes
<1>2. 0 \in 0..n /\ \A i \in 1..n : i \in 0..n /\ i # 0
    OBVIOUS
<1> QED
    BY <1>1, <1>2, Zenon DEF InTurn

\* There is such a function, for any number of pieces.
LEMMA ConsumesExists ==
    ASSUME NEW q, NEW pieces, NEW n \in Nat
    PROVE  \E f : Consumes(f, q, pieces, n)
<1> DEFINE S == {k \in Nat : \E f : Consumes(f, q, pieces, k)}
<1>1. 0 \in S
    <2> DEFINE g == [i \in 0..0 |-> q]
    <2>1. \A i \in 0..0 : q = IF i = 0 THEN q ELSE Consume(g[i - 1], pieces[i])
        OBVIOUS
    <2>2. Consumes(g, q, pieces, 0)
        BY <2>1, Zenon DEF Consumes
    <2> HIDE DEF g
    <2> QED
        BY <2>2
<1>2. ASSUME NEW k \in Nat, k \in S PROVE k + 1 \in S
    <2>1. PICK f : Consumes(f, q, pieces, k)
        BY <1>2
    <2> DEFINE e == Consume(f[k], pieces[k + 1])
               g == [i \in 0..(k + 1) |-> IF i <= k THEN f[i] ELSE e]
    <2>2. \A i \in 0..k : g[i] = f[i]
        <3> HIDE DEF e
        <3> QED
            OBVIOUS
    <2>3. g[k + 1] = e
        <3> HIDE DEF e
        <3> QED
            OBVIOUS
    <2>4. f[0] = q /\ \A i \in 1..k : f[i] = Consume(f[i - 1], pieces[i])
        <3>1. InTurn(f, q, pieces, k)
            BY <2>1, ConsumesSteps, Zenon
        <3> QED
            BY <3>1, Zenon DEF InTurn
    <2>5. ASSUME NEW i \in 0..(k + 1)
          PROVE  g[i] = IF i = 0 THEN q ELSE Consume(g[i - 1], pieces[i])
        <3>1. CASE i = 0
            <4>1. g[0] = q
                <5>1. 0 \in 0..k
                    OBVIOUS
                <5> QED
                    BY <2>2, <2>4, <5>1, Zenon
            <4> QED
                BY <3>1, <4>1, Zenon
        <3>2. CASE i \in 1..k
            <4>1. i \in 0..k /\ i - 1 \in 0..k /\ i # 0
                BY <3>2
            <4>2. g[i] = f[i] /\ g[i - 1] = f[i - 1]
                BY <2>2, <4>1, Zenon
            <4>3. f[i] = Consume(f[i - 1], pieces[i])
                BY <2>4, <3>2, Zenon
            <4> QED
                BY <4>1, <4>2, <4>3, Zenon
        <3>3. CASE i = k + 1
            <4>1. i # 0 /\ i - 1 = k /\ k \in 0..k
                BY <3>3
            <4>2. g[i - 1] = f[k]
                BY <2>2, <4>1, Zenon
            <4> QED
                BY <2>3, <3>3, <4>1, <4>2, Zenon
        <3>4. i = 0 \/ i \in 1..k \/ i = k + 1
            OBVIOUS
        <3> QED
            BY <3>1, <3>2, <3>3, <3>4, Zenon
    <2>6. g = [i \in 0..(k + 1) |-> g[i]]
        BY Zenon
    <2> HIDE DEF g, e
    <2>7. Consumes(g, q, pieces, k + 1)
        <3>1. [i \in 0..(k + 1) |-> g[i]]
              = [i \in 0..(k + 1) |-> IF i = 0 THEN q ELSE Consume(g[i - 1], pieces[i])]
            BY <2>5, Zenon
        <3> QED
            BY <2>6, <3>1, Zenon DEF Consumes
    <2> QED
        BY <2>7
<1>3. n \in S
    <2> HIDE DEF S
    <2> QED
        BY <1>1, <1>2, Induction
<1> QED
    BY <1>3

\* Execute consumes the pieces in turn.
LEMMA ExecuteIs ==
    ASSUME NEW q, NEW pieces, Len(pieces) \in Nat
    PROVE  \E f : /\ Execute(q, pieces) = EndOfRead(f[Len(pieces)])
                  /\ InTurn(f, q, pieces, Len(pieces))
<1> DEFINE f == CHOOSE f : Consumes(f, q, pieces, Len(pieces))
<1>1. Consumes(f, q, pieces, Len(pieces))
    BY ConsumesExists, Zenon
<1>2. Execute(q, pieces) = EndOfRead(f[Len(pieces)])
    BY Zenon DEF Execute, Consumes
<1> HIDE DEF f
<1>3. InTurn(f, q, pieces, Len(pieces))
    BY <1>1, ConsumesSteps, Zenon
<1> QED
    BY <1>2, <1>3, Zenon

\* The call at the end of a read does not move the parser.
LEMMA EndOfReadGood ==
    ASSUME sent \in Sessions, NEW q, Shaped(q, Ats),
           NEW base \in Nat, NEW from \in Nat, NEW g \in 1..Len(Stream),
           base <= from, from < g,
           ~q.parser.error => Good(q, base, from, g),
           NEW r, r = EndOfRead(q)
    PROVE  /\ Shaped(r, Ats) /\ r.size = q.size
           /\ ~r.parser.error => Good(r, base, from, g)
<1>1. CASE q.parser.error \/ q.parser.mark = <<>>
    <2>1. r = q
        BY <1>1, Zenon DEF EndOfRead
    <2> QED
        BY <2>1
<1>2. CASE ~q.parser.error /\ q.parser.mark # <<>>
    <2>1. r = Callback(q, q.parser.at)
        BY <1>2, Zenon DEF EndOfRead
    <2>2. Good(q, base, from, g) /\ ~Between(q)
        BY <1>2, Zenon DEF Between
    <2>3. PICK n \in 1..Len(sent) :
              /\ End(n - 1) < g
              /\ Within(q, g - End(n - 1), End(n) - End(n - 1), Stream[g])
        BY <2>2, Zenon DEF Good, Synced
    <2>4. q.parser.at \in {"url", "field", "value", "body"}
        BY <1>2, <2>3, Zenon DEF Within
    <2>5. CalledBack(q, r, Ats)
        <3>1. CalledBack(q, Callback(q, q.parser.at), Ats)
            BY <2>4, CallbackShape, Zenon
        <3> QED
            BY <2>1, <3>1, Zenon
    <2>6. Synced(r, g)
        <3>1. Within(r, g - End(n - 1), End(n) - End(n - 1), Stream[g])
            BY <2>3, <2>5, Zenon DEF Within, CalledBack
        <3> QED
            BY <2>3, <3>1, Zenon DEF Synced
    <2>7. Skips(r, base, g)
        BY <2>2, Zenon DEF Good, Skips
    <2>8. g # base
        OBVIOUS
    <2> QED
        BY <2>2, <2>5, <2>6, <2>7, <2>8, Zenon DEF Good, CalledBack
<1> QED
    BY <1>1, <1>2

\* A Request that has kept its place keeps it over a whole read.
LEMMA ExecuteGood ==
    ASSUME sent \in Sessions, NEW q, Shaped(q, Ats),
           NEW base \in Nat, NEW from \in Nat, NEW n \in Nat \ {0},
           base <= from, from + n <= Len(Stream),
           ~q.parser.error => Good(q, base, from, from),
           NEW r, r = Execute(q, SubSeq(Stream, from + 1, from + n))
    PROVE  /\ Shaped(r, Ats) /\ r.size = q.size
           /\ ~r.parser.error => Good(r, base, from, from + n)
<1> DEFINE pieces == SubSeq(Stream, from + 1, from + n)
<1>1. Len(pieces) = n /\ \A i \in 1..n : pieces[i] = Stream[from + i]
    <2>1. PICK X : Stream \in Seq(X)
        BY StreamShape, Zenon
    <2> HIDE DEF Stream
    <2> QED
        BY <2>1
<1> HIDE DEF pieces
<1>2. PICK f : /\ r = EndOfRead(f[n])
               /\ f[0] = q
               /\ \A i \in 1..n : f[i] = Consume(f[i - 1], pieces[i])
    <2>1. Len(pieces) \in Nat
        BY <1>1
    <2>2. r = Execute(q, pieces)
        BY Zenon DEF pieces
    <2>3. PICK f : Execute(q, pieces) = EndOfRead(f[Len(pieces)])
                   /\ InTurn(f, q, pieces, Len(pieces))
        BY <2>1, ExecuteIs, Zenon
    <2> QED
        BY <1>1, <2>2, <2>3, Zenon DEF InTurn
<1> DEFINE P(i) == /\ Shaped(f[i], Ats) /\ f[i].size = q.size
                   /\ ~f[i].parser.error => Good(f[i], base, from, from + i)
           S == {i \in Nat : P(i)}
<1>3. P(0)
    <2>1. from + 0 = from
        OBVIOUS
    <2> QED
        BY <1>2, <2>1, Zenon
<1>4. ASSUME NEW i \in 0..(n - 1), P(i) PROVE P(i + 1)
    <2> DEFINE g == from + i
    <2>1. g \in Nat /\ base <= from /\ from <= g /\ g + 1 \in 1..Len(Stream)
          /\ i + 1 \in 1..n /\ (i + 1) - 1 = i /\ from + (i + 1) = g + 1
        <3>1. Len(Stream) \in Nat
            BY StreamShape
        <3> HIDE DEF Stream
        <3> QED
            BY <3>1
    <2>2. f[i + 1] = Consume(f[i], Stream[g + 1])
        <3>1. f[i + 1] = Consume(f[(i + 1) - 1], pieces[i + 1])
            BY <1>2, <2>1, Zenon
        <3>2. pieces[i + 1] = Stream[from + (i + 1)]
            BY <1>1, <2>1, Zenon
        <3> QED
            BY <2>1, <3>1, <3>2, Zenon
    <2> HIDE DEF g
    <2>3. /\ Shaped(f[i], Ats) /\ f[i].size = q.size
          /\ ~f[i].parser.error => Good(f[i], base, from, g)
        BY <1>4, Zenon DEF g
    <2>4. /\ Shaped(f[i + 1], Ats) /\ f[i + 1].size = f[i].size
          /\ ~f[i + 1].parser.error => Good(f[i + 1], base, from, g + 1)
        BY <2>1, <2>2, <2>3, ConsumeGood, Zenon
    <2> QED
        BY <2>1, <2>3, <2>4, Zenon
<1>5. P(n)
    <2>1. 0 \in S /\ \A i \in 0..(n - 1) : i \in S => i + 1 \in S
        <3> HIDE DEF P
        <3> QED
            BY <1>3, <1>4
    <2>2. n \in S
        <3> HIDE DEF S
        <3> QED
            BY <2>1, Induction
    <2> HIDE DEF P
    <2> QED
        BY <2>2
<1>6. from + n \in 1..Len(Stream) /\ from < from + n
    <2>1. Len(Stream) \in Nat
        BY StreamShape
    <2> HIDE DEF Stream
    <2> QED
        BY <2>1
<1>7. /\ Shaped(f[n], Ats) /\ f[n].size = q.size
      /\ ~f[n].parser.error => Good(f[n], base, from, from + n)
    BY <1>5, Zenon
<1>8. /\ Shaped(r, Ats) /\ r.size = f[n].size
      /\ ~r.parser.error => Good(r, base, from, from + n)
    BY <1>2, <1>6, <1>7, EndOfReadGood, Zenon
<1> QED
    BY <1>7, <1>8, Zenon

-----------------------------------------------------------------------------
(* The invariant *)

\* Where in the stream the Request of the connection began.
Began == got - req.size

\* Nothing above the limit lies before b, nor begins there and reaches b.
SizedTo(b) ==
    \A n \in 1..Len(sent) :
        /\ End(n) <= b => Len(Wire(sent[n])) <= MAX_REQ_SIZE
        /\ End(n - 1) < b /\ b < End(n) => b - End(n - 1) < MAX_REQ_SIZE

Reading ==
    /\ ~req.parser.error /\ req.part # "over"
    /\ req.size <= got
    /\ Good(req, Began, got, got)
    /\ SizedTo(Began)

ParserInv ==
    /\ sent \in Sessions /\ ahead \in BOOLEAN
    /\ got \in 0..Len(Stream)
    /\ conn \in {"reading", "writing", "refused", "closed"}
    /\ Shaped(req, Ats)
    /\ handled \in Seq(ToSet(handled)) /\ Len(handled) <= Len(sent)
    /\ NotEarly
    /\ SizeLimited
    /\ conn = "reading" => Reading
    /\ conn = "writing" => SizedTo(got)

\* What a connection waits for is in the stream.
LEMMA AvailableType ==
    ASSUME ParserInv
    PROVE  Available \in Nat /\ Available <= Len(Stream)
<1> USE DEF ParserInv
<1>1. Len(Stream) \in Nat /\ Len(handled) \in Nat /\ Len(sent) \in Nat
    <2>1. Len(handled) \in Nat
        BY SeqDomain
    <2>2. Len(sent) \in Nat /\ \E X : Stream \in Seq(X)
        BY StreamShape
    <2>3. Len(Stream) \in Nat
        BY <2>2, SeqDomain, Zenon
    <2> QED
        BY <2>1, <2>2, <2>3
<1>2. CASE ahead \/ Len(handled) = Len(sent)
    <2>1. Available = Len(Stream)
        BY <1>2, Zenon DEF Available
    <2> HIDE DEF Stream
    <2> QED
        BY <1>1, <2>1
<1>3. CASE ~(ahead \/ Len(handled) = Len(sent))
    <2>1. Available = End(Len(handled) + 1)
        BY <1>3, Zenon DEF Available
    <2>2. Len(handled) + 1 \in 0..Len(sent) /\ Len(sent) \in (Len(handled) + 1)..Len(sent)
        BY <1>1, <1>3
    <2>3. /\ End(Len(handled) + 1) \in Nat
          /\ End(Len(handled) + 1) <= End(Len(sent))
          /\ End(Len(sent)) = Len(Stream)
        BY <2>2, StreamShape, Zenon
    <2> QED
        BY <2>1, <2>3, Zenon
<1> QED
    BY <1>2, <1>3

\* One read: the Request that comes of it, unless it is refused, began where the one
\* before did, is within the limit and has kept its place in the stream.
LEMMA ReceivesGood ==
    ASSUME ParserInv, conn = "reading", NEW n \in 1..(Available - got),
           NEW r, r = ParseRequest(req, SubSeq(Stream, got + 1, got + n))
    PROVE  /\ Shaped(r, Ats) /\ got + n \in 0..Len(Stream)
           /\ ~TooBig(r) /\ ~r.parser.error
                  => /\ r.size = req.size + n /\ r.size <= MAX_REQ_SIZE
                     /\ Good(r, Began, got, got + n)
<1> DEFINE pieces == SubSeq(Stream, got + 1, got + n)
           c == Counted(req, pieces)
<1>1. /\ Available \in Nat /\ Available <= Len(Stream) /\ Len(Stream) \in Nat
      /\ got \in Nat /\ n \in Nat \ {0} /\ got + n <= Len(Stream)
    <2>1. Available \in Nat /\ Available <= Len(Stream)
        BY AvailableType
    <2>2. Len(Stream) \in Nat
        <3>1. \E X : Stream \in Seq(X)
            BY StreamShape DEF ParserInv
        <3> QED
            BY <3>1, SeqDomain, Zenon
    <2> HIDE DEF Stream
    <2> QED
        BY <2>1, <2>2 DEF ParserInv
<1>2. Len(pieces) = n
    <2>1. PICK X : Stream \in Seq(X)
        BY StreamShape DEF ParserInv
    <2> QED
        BY <2>1, <1>1
<1>3. /\ sent \in Sessions /\ Shaped(req, Ats) /\ Reading
    BY Zenon DEF ParserInv
<1>4. /\ req.size \in Nat /\ req.size <= got /\ Began \in Nat /\ Began <= got
    BY <1>1, <1>3 DEF Shaped, Reading, Began
<1>5. /\ Shaped(c, Ats) /\ c.size = req.size + n
      /\ c.parser = req.parser /\ c.part = req.part /\ c.err = req.err
    <2> HIDE DEF pieces
    <2>1. c = [req EXCEPT !.size = req.size + n]
        BY <1>2, Zenon DEF Counted
    <2> HIDE DEF c
    <2> QED
        BY <1>1, <1>3, <1>4, <2>1 DEF Shaped, NewRequest
<1> HIDE DEF c
<1>6. CASE TooBig(c)
    <2>1. r = c
        BY <1>6, Zenon DEF ParseRequest, c
    <2> QED
        BY <1>1, <1>5, <1>6, <2>1
<1>7. CASE ~TooBig(c)
    <2>1. r = Execute(c, SubSeq(Stream, got + 1, got + n))
        BY <1>7, Zenon DEF ParseRequest, c
    <2>2. Good(c, Began, got, got)
        <3>1. Good(req, Began, got, got)
            BY <1>3, Zenon DEF Reading
        <3> QED
            BY <1>5, <3>1, Zenon DEF Good, Synced, Skips, Within, Between
    <2>3. /\ Shaped(r, Ats) /\ r.size = c.size
          /\ ~r.parser.error => Good(r, Began, got, got + n)
        BY <1>1, <1>3, <1>4, <1>5, <2>1, <2>2, ExecuteGood, Zenon
    <2>4. c.size <= MAX_REQ_SIZE
        BY <1>4, <1>5, <1>7, ParserAssumption DEF TooBig
    <2> QED
        BY <1>1, <1>5, <2>3, <2>4
<1> QED
    BY <1>6, <1>7

\* A Request that is over within the limit leaves nothing above the limit behind, and
\* nothing that could become so.
LEMMA SizedWhenOver ==
    ASSUME sent \in Sessions, NEW q,
           NEW base \in Nat, NEW from \in Nat, NEW g \in Nat, base <= from, from < g,
           SizedTo(base), g - base <= MAX_REQ_SIZE, Skips(q, base, g), q.part = "over",
           NEW m \in 1..Len(sent), from < End(m), End(m) <= g
    PROVE  SizedTo(g)
<1> SUFFICES ASSUME NEW n \in 1..Len(sent)
             PROVE  /\ End(n) <= g => Len(Wire(sent[n])) <= MAX_REQ_SIZE
                    /\ End(n - 1) < g /\ g < End(n) => g - End(n - 1) < MAX_REQ_SIZE
    BY Zenon DEF SizedTo
<1>1. /\ End(n) \in Nat /\ End(n - 1) \in Nat /\ End(m) \in Nat
      /\ End(n) = End(n - 1) + Len(Wire(sent[n]))
      /\ m <= n - 1 => End(m) <= End(n - 1)
      /\ n <= m => End(n) <= End(m)
    <2>1. Len(sent) \in Nat
        BY StreamShape
    <2>2. /\ n \in 0..Len(sent) /\ n - 1 \in 0..Len(sent) /\ m \in 0..Len(sent)
          /\ m <= n - 1 => n - 1 \in m..Len(sent)
          /\ n <= m => m \in n..Len(sent)
        BY <2>1
    <2> QED
        BY <2>2, StreamShape, Zenon
<1>2. /\ End(n) <= base => Len(Wire(sent[n])) <= MAX_REQ_SIZE
      /\ End(n - 1) < base /\ base < End(n) => base - End(n - 1) < MAX_REQ_SIZE
    BY Zenon DEF SizedTo
<1>3. End(n - 1) < base /\ base < End(n) => End(n) = base + 1
    <2>1. base < g
        OBVIOUS
    <2> QED
        BY <2>1, Zenon DEF Skips
<1>4. /\ Len(Wire(sent[n])) \in Int /\ MAX_REQ_SIZE \in Nat
    BY StreamShape, ParserAssumption
<1>5. n <= m \/ m <= n - 1
    <2>1. Len(sent) \in Nat
        BY StreamShape
    <2> QED
        BY <2>1
<1> DEFINE e == End(n)
           d == End(n - 1)
           w == Len(Wire(sent[n]))
           o == End(m)
<1>6. /\ e \in Nat /\ d \in Nat /\ o \in Nat /\ w \in Int /\ e = d + w
      /\ d < base /\ base < e => e = base + 1 /\ base - d < MAX_REQ_SIZE
      /\ e <= base => w <= MAX_REQ_SIZE
      /\ o <= d \/ e <= o
      /\ from < o /\ o <= g
    BY <1>1, <1>2, <1>3, <1>4, <1>5, Zenon
<1> HIDE DEF e, d, w, o
<1>7. /\ e <= g => w <= MAX_REQ_SIZE
      /\ d < g /\ g < e => g - d < MAX_REQ_SIZE
    BY <1>4, <1>6
<1> QED
    BY <1>7, Zenon DEF e, d, w

\* What is proved of the next Request, said of the next state.
LEMMA ReadingNext ==
    ASSUME sent' = sent, ~req'.parser.error, req'.part # "over", req'.size <= got',
           NEW base, base = got' - req'.size, Good(req', base, got', got'), SizedTo(base)
    PROVE  Reading'
<1>1. SizedTo(base)'
    BY DEF SizedTo, End
<1>2. Good(req, base, got, got)'
    BY DEF Good, Synced, Skips, Within, Between, End, Stream
<1>3. base = Began'
    BY DEF Began
<1> QED
    BY <1>1, <1>2, <1>3 DEF Reading

\* Sequence t is s with e behind it.
Appended(t, s, e) ==
    /\ t \in Seq(ToSet(t))
    /\ Len(t) = Len(s) + 1 /\ DOMAIN t = 1..(Len(s) + 1)
    /\ t[Len(s) + 1] = e
    /\ \A i \in 1..Len(s) : t[i] = s[i]

\* Append, with all that is needed of it.
LEMMA AppendIsSeq ==
    ASSUME NEW s, s \in Seq(ToSet(s)), NEW e
    PROVE  Appended(Append(s, e), s, e)
<1> DEFINE t == Append(s, e)
           X == ToSet(s)
<1>1. /\ Len(t) = Len(s) + 1 /\ Len(s) \in Nat /\ t \in Seq(X \cup {e})
      /\ t[Len(s) + 1] = e /\ \A i \in 1..Len(s) : t[i] = s[i]
    <2>1. s \in Seq(X)
        OBVIOUS
    <2> HIDE DEF X
    <2> QED
        BY <2>1
<1> HIDE DEF t, X
<1>2. DOMAIN t = 1..Len(t) /\ Len(t) \in Nat /\ t = [i \in 1..Len(t) |-> t[i]]
    BY <1>1
<1>3. \A i \in 1..Len(t) : t[i] \in ToSet(t)
    BY <1>2 DEF ToSet
<1>4. t \in Seq(ToSet(t))
    <2> DEFINE Y == ToSet(t)
    <2>1. \A i \in 1..Len(t) : t[i] \in Y
        BY <1>3
    <2> HIDE DEF Y
    <2>2. t \in Seq(Y)
        BY <1>2, <2>1, FunctionType, Zenon
    <2> QED
        BY <2>2 DEF Y
<1> QED
    BY <1>1, <1>2, <1>4, Zenon DEF t, Appended

\* A new Request is between requests.
LEMMA NewShaped ==
    ASSUME NEW A
    PROVE  /\ Shaped(NewRequest, A) /\ Between(NewRequest)
           /\ ~NewRequest.parser.error /\ NewRequest.part = "line"
           /\ NewRequest.err = 0 /\ NewRequest.size = 0
<1>1. <<>> \in Seq(A) /\ <<>> \in Seq(Seq(A)) /\ Len(<<>>) = 0
    BY EmptySeq, Zenon
<1>2. /\ NewRequest.part = "line" /\ NewRequest.err = 0 /\ NewRequest.size = 0
      /\ NewRequest.fields = <<>> /\ NewRequest.values = <<>> /\ NewRequest.last_was_value
      /\ NewRequest.last_was_value \in BOOLEAN
      /\ NewRequest.parser.at = "start" /\ NewRequest.parser.mark = <<>>
      /\ ~NewRequest.parser.error /\ NewRequest.parser.error \in BOOLEAN
    BY DEF NewRequest
<1>3. Len(NewRequest.fields) - Len(NewRequest.values)
          = IF NewRequest.last_was_value THEN 0 ELSE 1
    <2>1. Len(NewRequest.fields) = 0 /\ Len(NewRequest.values) = 0
        BY <1>1, <1>2, Zenon
    <2> QED
        BY <2>1, <1>2
<1>4. 0 \in Nat /\ "line" \in {"line", "head", "head_over", "body", "over"}
    OBVIOUS
<1> QED
    BY <1>1, <1>2, <1>3, <1>4, Zenon DEF Shaped, Between

\* A new connection.
LEMMA InvInit == Init => ParserInv
<1> SUFFICES ASSUME Init PROVE ParserInv
    OBVIOUS
<1> USE DEF Init
<1>1. sent \in Sessions /\ ahead \in BOOLEAN
    OBVIOUS
<1>2. Shaped(req, Ats)
    BY NewShaped, Zenon
<1>3. Len(Stream) \in Nat /\ Len(sent) \in Nat /\ End(0) = 0
    <2>1. \E X : Stream \in Seq(X)
        BY StreamShape
    <2> QED
        BY <2>1, SeqDomain, StreamShape, Zenon
<1>4. got = 0 /\ got \in 0..Len(Stream)
    <2> HIDE DEF Stream
    <2> QED
        BY <1>3
<1>5. handled = <<>> /\ Len(handled) = 0 /\ handled \in Seq(ToSet(handled))
    BY EmptySeq, Zenon
<1>6. SizeLimited
    <2>1. DOMAIN handled = {}
        OBVIOUS
    <2> QED
        BY <2>1, Zenon DEF SizeLimited
<1>7. Reading
    <2>1. /\ req.size = 0 /\ req.part = "line" /\ ~req.parser.error /\ req.err = 0
          /\ req.parser.at = "start" /\ req.parser.mark = <<>>
        BY DEF NewRequest
    <2>2. Began = 0
        BY <2>1, <1>4 DEF Began
    <2>3. Good(req, 0, 0, 0)
        BY <2>1 DEF Good, Synced, Between, Skips
    <2>4. SizedTo(0)
        <3>1. \A n \in 1..Len(sent) : /\ ~(End(n) <= 0)
                                      /\ ~(End(n - 1) < 0 /\ 0 < End(n))
            <4> TAKE n \in 1..Len(sent)
            <4>1. n - 1 \in 0..Len(sent)
                BY <1>3
            <4>2. /\ End(n - 1) \in Nat /\ Len(Wire(sent[n])) \in Nat /\ Len(Wire(sent[n])) > 1
                  /\ End(n) = End(n - 1) + Len(Wire(sent[n]))
                BY <4>1, StreamShape, Zenon
            <4> QED
                BY <4>2
        <3> QED
            BY <3>1, Zenon DEF SizedTo
    <2>5. req.size <= got
        BY <2>1, <1>4
    <2> QED
        BY <2>1, <2>2, <2>3, <2>4, <2>5, <1>4, Zenon DEF Reading
<1>8. NotEarly
    BY <1>3, <1>4, <1>5 DEF NotEarly
<1> QED
    BY <1>1, <1>2, <1>3, <1>4, <1>5, <1>6, <1>7, <1>8 DEF ParserInv

\* A request that is over is one more than those handled before, and within the limit.
LEMMA ReceiveHandles ==
    ASSUME ParserInv, conn = "reading", NEW n \in 1..(Available - got), NEW r,
           r.size = req.size + n, r.size <= MAX_REQ_SIZE, r.part = "over",
           Good(r, Began, got, got + n)
    PROVE  /\ Len(handled) + 1 <= Len(sent)
           /\ End(Len(handled) + 1) <= got + n
           /\ SizedTo(got + n)
           /\ Len(Wire(sent[Len(handled) + 1])) <= MAX_REQ_SIZE
<1> DEFINE g == got + n
           k == Len(handled) + 1
<1>1. /\ sent \in Sessions /\ Shaped(req, Ats) /\ Reading /\ Len(handled) \in Nat
      /\ Len(handled) <= Len(sent) /\ NotEarly /\ Len(sent) \in Nat
    BY SeqDomain, StreamShape, Zenon DEF ParserInv
<1>2. Available \in Nat /\ got \in Nat /\ n \in Nat \ {0} /\ g \in Nat /\ got < g
    BY AvailableType DEF ParserInv
<1>3. Began \in Nat /\ Began <= got /\ g - Began = req.size + n
    BY <1>1, <1>2 DEF Shaped, Reading, Began
<1>4. PICK m \in 1..Len(sent) : got < End(m) /\ End(m) <= g
    BY Zenon DEF Good
<1>5. SizedTo(g)
    <2>1. SizedTo(Began) /\ Skips(r, Began, g) /\ g - Began <= MAX_REQ_SIZE
        BY <1>1, <1>3, Zenon DEF Reading, Good
    <2> HIDE DEF g
    <2> QED
        BY <1>1, <1>2, <1>3, <1>4, <2>1, SizedWhenOver, Zenon
<1>6. k <= m
    <2> SUFFICES ASSUME m <= Len(handled) PROVE FALSE
        BY <1>1
    <2>1. m \in 0..Len(sent) /\ Len(handled) \in m..Len(sent)
        BY <1>1
    <2>2. End(m) <= End(Len(handled)) /\ End(m) \in Nat /\ End(Len(handled)) \in Nat
        <3>1. Len(handled) \in 0..Len(sent)
            BY <1>1
        <3> QED
            BY <1>1, <2>1, <3>1, StreamShape, Zenon
    <2>3. got >= End(Len(handled))
        BY <1>1, Zenon DEF NotEarly
    <2> QED
        BY <1>2, <1>4, <2>2, <2>3
<1>7. k \in 1..Len(sent) /\ k \in 0..Len(sent) /\ m \in k..Len(sent)
    BY <1>1, <1>6
<1>8. End(k) <= g
    <2>1. End(k) <= End(m) /\ End(k) \in Nat /\ End(m) \in Nat
        <3>1. m \in 0..Len(sent)
            BY <1>1
        <3> QED
            BY <1>1, <1>7, <3>1, StreamShape, Zenon
    <2> QED
        BY <1>2, <1>4, <2>1
<1>9. Len(Wire(sent[k])) <= MAX_REQ_SIZE
    BY <1>5, <1>7, <1>8, Zenon DEF SizedTo
<1>10. k <= Len(sent)
    BY <1>7
<1> QED
    BY <1>5, <1>8, <1>9, <1>10, Zenon

\* A read that is refused, leaves the request unfinished, or ends it.
LEMMA ReceiveInv ==
    ASSUME ParserInv, NEW n \in 1..(Available - got), Receive(n)
    PROVE  ParserInv'
<1>1. /\ conn = "reading" /\ got' = got + n /\ sent' = sent /\ ahead' = ahead
      /\ req' = ParseRequest(req, SubSeq(Stream, got + 1, got + n))
      /\ conn' = IF Return(req') < 0 THEN "refused"
                 ELSE IF Return(req') = NEED_MORE_STATUS THEN "reading" ELSE "writing"
      /\ handled' = IF Return(req') = 0 THEN Append(handled, Seen(req')) ELSE handled
    BY Zenon DEF Receive
<1>2. /\ Shaped(req', Ats) /\ got + n \in 0..Len(Stream)
      /\ ~TooBig(req') /\ ~req'.parser.error
             => /\ req'.size = req.size + n /\ req'.size <= MAX_REQ_SIZE
                /\ Good(req', Began, got, got + n)
    BY <1>1, ReceivesGood, Zenon
<1>3. sent' \in Sessions /\ ahead' \in BOOLEAN
    BY <1>1 DEF ParserInv
<1>4. (got \in 0..Len(Stream))'
    <2>1. Stream' = Stream
        BY <1>1 DEF Stream
    <2> HIDE DEF Stream
    <2> QED
        BY <1>1, <1>2, <2>1
<1>5. Shaped(req, Ats)'
    <2>1. Ats' = Ats
        BY <1>1 DEF Ats, Stream
    <2> QED
        BY <1>2, <2>1 DEF Shaped, NewRequest
<1>6. ASSUME handled' = handled, conn' \in {"reading", "refused"},
             conn' = "reading" => Reading'
      PROVE  ParserInv'
    <2>1. /\ handled' \in Seq(ToSet(handled')) /\ Len(handled') <= Len(sent')
        BY <1>1, <1>6, Zenon DEF ParserInv
    <2>2. NotEarly'
        <3>1. End(Len(handled))' = End(Len(handled))
            BY <1>1, <1>6 DEF End
        <3>2. End(Len(handled)) \in Nat /\ got >= End(Len(handled))
            <4>1. Len(handled) \in 0..Len(sent)
                BY SeqDomain, StreamShape DEF ParserInv
            <4> QED
                BY <4>1, StreamShape, Zenon DEF ParserInv, NotEarly
        <3>3. got' >= End(Len(handled))
            BY <1>1, <3>2, AvailableType DEF ParserInv
        <3> QED
            BY <3>1, <3>3, Zenon DEF NotEarly
    <2>3. SizeLimited'
        BY <1>1, <1>6, Zenon DEF ParserInv, SizeLimited
    <2>4. conn' \in {"reading", "writing", "refused", "closed"} /\ conn' # "writing"
        BY <1>6
    <2> QED
        BY <1>3, <1>4, <1>5, <1>6, <2>1, <2>2, <2>3, <2>4, Zenon DEF ParserInv
<1>7. CASE TooBig(req') \/ req'.parser.error
    <2>1. Return(req') = -1
        BY <1>7, Zenon DEF Return
    <2>2. conn' = "refused" /\ handled' = handled
        BY <1>1, <2>1
    <2> QED
        BY <1>6, <2>2
<1>8. CASE ~TooBig(req') /\ ~req'.parser.error /\ req'.part # "over"
    <2>1. /\ req'.size = req.size + n /\ Good(req', Began, got, got + n) /\ req'.err = 0
        BY <1>2, <1>8, Zenon DEF Good
    <2>2. Return(req') = NEED_MORE_STATUS
        BY <1>8, <2>1, Zenon DEF Return
    <2>3. conn' = "reading" /\ handled' = handled
        BY <1>1, <2>2 DEF NEED_MORE_STATUS
    <2>4. Reading'
        <3>1. /\ Reading /\ got \in Nat /\ n \in Nat /\ req.size \in Nat /\ req.size <= got
            BY <1>1, AvailableType DEF ParserInv, Reading, Shaped
        <3>2. /\ req'.size <= got' /\ Began = got' - req'.size
            BY <1>1, <2>1, <3>1 DEF Began
        <3>3. Good(req', Began, got', got')
            BY <1>1, <1>8, <2>1, Zenon DEF Good
        <3>4. SizedTo(Began)
            BY <3>1, Zenon DEF Reading
        <3> QED
            BY <1>1, <1>8, <3>2, <3>3, <3>4, ReadingNext, Zenon
    <2> QED
        BY <1>6, <2>3, <2>4
<1>9. CASE ~TooBig(req') /\ ~req'.parser.error /\ req'.part = "over"
    <2>1. /\ req'.size = req.size + n /\ req'.size <= MAX_REQ_SIZE
          /\ Good(req', Began, got, got + n) /\ req'.err = 0
        BY <1>2, <1>9, Zenon DEF Good
    <2>2. Return(req') = 0
        BY <1>9, <2>1, Zenon DEF Return
    <2>3. conn' = "writing" /\ handled' = Append(handled, Seen(req'))
        BY <1>1, <2>2 DEF NEED_MORE_STATUS
    <2>4. /\ Len(handled) + 1 <= Len(sent)
          /\ End(Len(handled) + 1) <= got'
          /\ SizedTo(got')
          /\ Len(Wire(sent[Len(handled) + 1])) <= MAX_REQ_SIZE
        BY <1>1, <1>9, <2>1, ReceiveHandles, Zenon
    <2>5. /\ handled' \in Seq(ToSet(handled')) /\ Len(handled') = Len(handled) + 1
          /\ DOMAIN handled' = 1..(Len(handled) + 1)
        BY <2>3, AppendIsSeq, Zenon DEF ParserInv, Appended
    <2>6. Len(handled') <= Len(sent')
        BY <1>1, <2>4, <2>5, Zenon
    <2>7. NotEarly'
        <3>1. End(Len(handled))' = End(Len(handled) + 1)
            BY <1>1, <2>5 DEF End
        <3>2. End(Len(handled) + 1) \in Nat /\ got' \in Nat
            <4>1. Len(handled) + 1 \in 0..Len(sent) /\ got' \in Nat
                BY <1>1, <2>4, AvailableType, SeqDomain DEF ParserInv
            <4> QED
                BY <4>1, StreamShape, Zenon DEF ParserInv
        <3>3. got' >= End(Len(handled) + 1)
            BY <2>4, <3>2
        <3> QED
            BY <3>1, <3>3, Zenon DEF NotEarly
    <2>8. SizeLimited'
        <3> SUFFICES ASSUME NEW i \in 1..(Len(handled) + 1)
                     PROVE  Len(Wire(sent[i])) <= MAX_REQ_SIZE
            BY <1>1, <2>5, Zenon DEF SizeLimited
        <3>1. DOMAIN handled = 1..Len(handled) /\ Len(handled) \in Nat
            BY SeqDomain, Zenon DEF ParserInv
        <3>2. CASE i \in 1..Len(handled)
            BY <3>1, <3>2, Zenon DEF ParserInv, SizeLimited
        <3>3. CASE i = Len(handled) + 1
            BY <2>4, <3>3, Zenon
        <3> QED
            BY <3>1, <3>2, <3>3
    <2>9. SizedTo(got)'
        BY <1>1, <2>4 DEF SizedTo, End
    <2>10. conn' \in {"reading", "writing", "refused", "closed"} /\ conn' # "reading"
        BY <2>3
    <2> QED
        BY <1>3, <1>4, <1>5, <2>5, <2>6, <2>7, <2>8, <2>9, <2>10, Zenon DEF ParserInv
<1> QED
    BY <1>7, <1>8, <1>9, Zenon

\* The next Request begins where the last read ended.
LEMMA RespondAliveInv ==
    ASSUME ParserInv, RespondAlive
    PROVE  ParserInv'
<1>1. /\ conn = "writing" /\ req' = NewRequest /\ conn' = "reading" /\ sent' = sent
      /\ ahead' = ahead /\ got' = got /\ handled' = handled
    BY Zenon DEF RespondAlive
<1>2. /\ got \in Nat /\ SizedTo(got)
    BY <1>1, AvailableType DEF ParserInv
<1>3. Shaped(req, Ats)'
    <2>1. Shaped(NewRequest, Ats)
        BY NewShaped, Zenon
    <2>2. Ats' = Ats
        BY <1>1 DEF Ats, Stream
    <2> QED
        BY <1>1, <2>1, <2>2 DEF Shaped, NewRequest
<1>4. Reading'
    <2>1. /\ Between(NewRequest) /\ NewRequest.part = "line" /\ NewRequest.size = 0
          /\ ~NewRequest.parser.error /\ NewRequest.err = 0 /\ NewRequest.part # "over"
        BY NewShaped
    <2>2. got = got' - req'.size /\ req'.size <= got'
        BY <1>1, <1>2, <2>1
    <2>3. ~(got < got)
        BY <1>2
    <2>4. Good(req', got, got', got')
        BY <1>1, <2>1, <2>3, Zenon DEF Good, Synced, Skips
    <2> QED
        BY <1>1, <1>2, <2>1, <2>2, <2>4, ReadingNext, Zenon
<1>5. NotEarly' /\ SizeLimited'
    BY <1>1 DEF ParserInv, NotEarly, SizeLimited, End
<1>6. (got \in 0..Len(Stream))'
    BY <1>1 DEF ParserInv, Stream
<1> QED
    BY <1>1, <1>3, <1>4, <1>5, <1>6 DEF ParserInv

\* A step that does no more than close the connection.
LEMMA ClosesInv ==
    ASSUME ParserInv, UNCHANGED <<sent, ahead, got, req, handled>>,
           conn' = conn \/ conn' = "closed"
    PROVE  ParserInv'
<1>1. /\ sent' = sent /\ ahead' = ahead /\ got' = got /\ req' = req /\ handled' = handled
    OBVIOUS
<1>2. Shaped(req, Ats)'
    <2>1. Ats' = Ats
        BY <1>1 DEF Ats, Stream
    <2> QED
        BY <1>1, <2>1 DEF ParserInv, Shaped, NewRequest
<1>3. NotEarly' /\ SizeLimited' /\ (got \in 0..Len(Stream))'
    BY <1>1 DEF ParserInv, NotEarly, SizeLimited, End, Stream
<1>4. Reading => Reading'
    <2> SUFFICES ASSUME Reading PROVE Reading'
        OBVIOUS
    <2>1. /\ Good(req', Began, got', got') /\ Began = got' - req'.size /\ SizedTo(Began)
          /\ ~req'.parser.error /\ req'.part # "over" /\ req'.size <= got'
        BY <1>1 DEF Reading, Began
    <2> QED
        BY <1>1, <2>1, ReadingNext, Zenon
<1>5. SizedTo(got) => SizedTo(got)'
    BY <1>1 DEF SizedTo, End
<1>6. /\ conn' \in {"reading", "writing", "refused", "closed"}
      /\ conn' = "reading" => conn = "reading"
      /\ conn' = "writing" => conn = "writing"
    BY DEF ParserInv
<1>7. /\ sent' \in Sessions /\ ahead' \in BOOLEAN
      /\ handled' \in Seq(ToSet(handled')) /\ Len(handled') <= Len(sent')
    BY <1>1, Zenon DEF ParserInv
<1> QED
    BY <1>2, <1>3, <1>4, <1>5, <1>6, <1>7, Zenon DEF ParserInv

\* Every step keeps the invariant.
LEMMA InvNext == ParserInv /\ [Next]_vars => ParserInv'
<1> SUFFICES ASSUME ParserInv, [Next]_vars PROVE ParserInv'
    OBVIOUS
<1>1. ASSUME NEW n \in 1..(Available - got), Receive(n) PROVE ParserInv'
    BY <1>1, ReceiveInv
<1>2. CASE ReceiveNothing
    BY <1>2, ClosesInv DEF ReceiveNothing
<1>3. CASE RespondAlive
    BY <1>3, RespondAliveInv
<1>4. CASE RespondClose
    BY <1>4, ClosesInv DEF RespondClose
<1>5. CASE Terminated \/ UNCHANGED vars
    BY <1>5, ClosesInv DEF Terminated, vars
<1> QED
    BY <1>1, <1>2, <1>3, <1>4, <1>5, Zenon DEF Next

\* The invariant holds always.
THEOREM InvAlways == Spec => []ParserInv
<1> QED
    BY InvInit, InvNext, PTL DEF Spec

\* However reads cut what arrives, the Request of a connection has its type and its two
\* lists of headers keep in step (on_header_field and on_header_value).
THEOREM TypeCorrect == Spec => []TypeOK
<1>1. ParserInv => TypeOK
    BY Zenon DEF ParserInv, Shaped, TypeOK
<1> QED
    BY <1>1, InvAlways, PTL

\* No handler runs before its request has arrived to the last byte, nor twice for one
\* request, whatever is sent and however it is cut (parse_request's result in
\* on_readable).
THEOREM NeverEarly == Spec => []NotEarly
<1>1. ParserInv => NotEarly
    BY DEF ParserInv
<1> QED
    BY <1>1, InvAlways, PTL

\* No request above MAX_REQ_SIZE reaches a handler, be it pipelined, cut anywhere, or
\* begun in the read that ended the one before.
THEOREM WithinSize == Spec => []SizeLimited
<1>1. ParserInv => SizeLimited
    BY DEF ParserInv
<1> QED
    BY <1>1, InvAlways, PTL

-----------------------------------------------------------------------------
(* Routing: what the mappings leave in _resource_map *)

\* The resources and the names after each of the first n mappings.
Adds(f, n) ==
    f = [i \in 0..n |-> IF i = 0 THEN [names |-> NewNames, resources |-> NoResources]
                        ELSE AddMapping(f[i - 1], i)]

AddedInTurn(f, n) ==
    /\ f[0] = [names |-> NewNames, resources |-> NoResources]
    /\ \A i \in 1..n : f[i] = AddMapping(f[i - 1], i)

\* The function, step by step.
LEMMA AddsSteps ==
    ASSUME NEW n \in Nat, NEW f, Adds(f, n)
    PROVE  AddedInTurn(f, n)
<1> DEFINE e == [names |-> NewNames, resources |-> NoResources]
<1>1. \A i \in 0..n : f[i] = IF i = 0 THEN e ELSE AddMapping(f[i - 1], i)
    BY Zenon DEF Adds
<1>2. 0 \in 0..n /\ \A i \in 1..n : i \in 0..n /\ i # 0
    OBVIOUS
<1> HIDE DEF e
<1>3. f[0] = e /\ \A i \in 1..n : f[i] = AddMapping(f[i - 1], i)
    BY <1>1, <1>2, Zenon
<1> QED
    BY <1>3, Zenon DEF AddedInTurn, e

\* There is such a function, for any number of mappings.
LEMMA AddsExists ==
    ASSUME NEW n \in Nat
    PROVE  \E f : Adds(f, n)
<1> DEFINE S == {k \in Nat : \E f : Adds(f, k)}
           e == [names |-> NewNames, resources |-> NoResources]
<1>1. 0 \in S
    <2> DEFINE g == [i \in 0..0 |-> e]
    <2>1. \A i \in 0..0 : e = IF i = 0 THEN e ELSE AddMapping(g[i - 1], i)
        <3> HIDE DEF e
        <3> QED
            OBVIOUS
    <2>2. Adds(g, 0)
        BY <2>1, Zenon DEF Adds
    <2> HIDE DEF g
    <2> QED
        BY <2>2
<1>2. ASSUME NEW k \in Nat, k \in S PROVE k + 1 \in S
    <2>1. PICK f : Adds(f, k)
        BY <1>2
    <2> DEFINE a == AddMapping(f[k], k + 1)
               g == [i \in 0..(k + 1) |-> IF i <= k THEN f[i] ELSE a]
    <2>2. (\A i \in 0..k : g[i] = f[i]) /\ g[k + 1] = a
        <3> HIDE DEF a
        <3> QED
            OBVIOUS
    <2>3. f[0] = e /\ \A i \in 1..k : f[i] = AddMapping(f[i - 1], i)
        <3>1. AddedInTurn(f, k)
            BY <2>1, AddsSteps, Zenon
        <3> QED
            BY <3>1, Zenon DEF AddedInTurn
    <2> HIDE DEF e
    <2>4. ASSUME NEW i \in 0..(k + 1)
          PROVE  g[i] = IF i = 0 THEN e ELSE AddMapping(g[i - 1], i)
        <3>1. CASE i = 0
            <4>1. 0 \in 0..k
                OBVIOUS
            <4> QED
                BY <2>2, <2>3, <3>1, <4>1, Zenon
        <3>2. CASE i \in 1..k
            <4>1. i \in 0..k /\ i - 1 \in 0..k /\ i # 0
                BY <3>2
            <4> QED
                BY <2>2, <2>3, <3>2, <4>1, Zenon
        <3>3. CASE i = k + 1
            <4>1. i # 0 /\ i - 1 = k /\ k \in 0..k
                BY <3>3
            <4>2. g[i - 1] = f[k]
                BY <2>2, <4>1, Zenon
            <4> QED
                BY <2>2, <3>3, <4>1, <4>2, Zenon
        <3>4. i = 0 \/ i \in 1..k \/ i = k + 1
            OBVIOUS
        <3> QED
            BY <3>1, <3>2, <3>3, <3>4, Zenon
    <2>5. g = [i \in 0..(k + 1) |-> g[i]]
        BY Zenon
    <2> HIDE DEF g, a
    <2>6. Adds(g, k + 1)
        <3>1. [i \in 0..(k + 1) |-> g[i]]
              = [i \in 0..(k + 1) |-> IF i = 0 THEN e ELSE AddMapping(g[i - 1], i)]
            BY <2>4, Zenon
        <3> QED
            BY <2>5, <3>1, Zenon DEF Adds, e
    <2> QED
        BY <2>6
<1>3. n \in S
    <2> HIDE DEF S
    <2> QED
        BY <1>1, <1>2, Induction
<1> QED
    BY <1>3

\* A first mapping of path p among the first n.
FirstOf(p, i, n) ==
    /\ i \in 1..n /\ Mappings[i].path = p
    /\ \A j \in 1..(i - 1) : Mappings[j].path # p

\* What is in _resource_map and _names after n mappings: each path has its first
\* mapping, with the methods given to that one or more.
Added(s, n) ==
    /\ DOMAIN s = {"names", "resources"}
    /\ DOMAIN s.names = Files
    /\ \A f \in Files : DOMAIN s.names[f] = Methods
    /\ \A f \in Files, m \in Methods : m \in s.names[f][m]
    /\ DOMAIN s.resources = Paths
    /\ \A p \in Paths :
          \/ /\ s.resources[p].handler = 0
             /\ \A i \in 1..n : Mappings[i].path # p
          \/ /\ FirstOf(p, s.resources[p].handler, n)
             /\ Given(s.resources[p].handler) \subseteq s.resources[p].methods

\* a | b | c has the names of a, b and c, and no variable loses its own.
LEMMA OrHas ==
    ASSUME NEW names, DOMAIN names = Methods, \A m \in Methods : m \in names[m],
           NEW ms \in Seq(Methods), ms # <<>>
    PROVE  /\ DOMAIN Or(names, ms) = Methods
           /\ \A m \in Methods : m \in Or(names, ms)[m]
           /\ ToSet(ms) \subseteq Or(names, ms)[Head(ms)]
<1> DEFINE U == UNION {names[ms[i]] : i \in DOMAIN ms}
<1>1. Or(names, ms) = [names EXCEPT ![Head(ms)] = U]
    BY Zenon DEF Or
<1>2. Head(ms) = ms[1] /\ 1 \in DOMAIN ms /\ \A i \in DOMAIN ms : ms[i] \in Methods
    OBVIOUS
<1>3. \A i \in DOMAIN ms : ms[i] \in U
    BY <1>2, Zenon
<1> HIDE DEF U
<1>4. Or(names, ms)[Head(ms)] = U /\ Head(ms) \in U
    BY <1>1, <1>2, <1>3, Zenon
<1>5. DOMAIN Or(names, ms) = Methods
    BY <1>1
<1>6. \A m \in Methods : m \in Or(names, ms)[m]
    <2> TAKE m \in Methods
    <2>1. CASE m = Head(ms)
        BY <1>4, <2>1, Zenon
    <2>2. CASE m # Head(ms)
        <3>1. Or(names, ms)[m] = names[m]
            BY <1>1, <2>2, Zenon
        <3> QED
            BY <3>1
    <2> QED
        BY <2>1, <2>2
<1>7. ToSet(ms) \subseteq U
    BY <1>3, Zenon DEF ToSet
<1> QED
    BY <1>4, <1>5, <1>6, <1>7

\* add_mapping keeps the first mapping of every path.
LEMMA AddedNext ==
    ASSUME NEW n \in Nat, n + 1 \in 1..Len(Mappings), NEW s, Added(s, n)
    PROVE  Added(AddMapping(s, n + 1), n + 1)
<1> DEFINE i == n + 1
           file == Mappings[i].file
           path == Mappings[i].path
           ms == IF Mappings[i].methods = <<>> THEN <<"GET">> ELSE Mappings[i].methods
           names == [s.names EXCEPT ![file] = Or(@, ms)]
           mine == [handler |-> i, methods |-> names[file][Head(ms)]]
           new == IF s.resources[path].handler # 0 THEN s.resources[path] ELSE mine
           resources == [s.resources EXCEPT ![path] = new]
           r == AddMapping(s, i)
<1>1. r = [names |-> names, resources |-> resources]
    BY Zenon DEF AddMapping
<1>2. i \in DOMAIN Mappings /\ i # 0
    BY RoutingAssumption
<1>3. file \in Files /\ path \in Paths
    BY <1>2, Zenon DEF Files, Paths
<1>4. ms \in Seq(Methods) /\ ms # <<>> /\ ToSet(ms) = Given(i)
    <2>1. CASE Mappings[i].methods = <<>>
        <3>1. ms = <<"GET">> /\ Given(i) = {"GET"}
            BY <2>1, Zenon DEF Given
        <3>2. <<"GET">> \in Seq(Methods)
            BY RoutingAssumption, SingleType, Zenon
        <3>3. ToSet(<<"GET">>) = {"GET"}
            BY DEF ToSet
        <3>4. <<"GET">> # <<>>
            OBVIOUS
        <3> HIDE DEF ms
        <3> QED
            BY <3>1, <3>2, <3>3, <3>4
    <2>2. CASE Mappings[i].methods # <<>>
        <3>1. ms = Mappings[i].methods /\ Given(i) = ToSet(Mappings[i].methods)
            BY <2>2, Zenon DEF Given
        <3> QED
            BY <1>2, <2>2, <3>1, RoutingAssumption, Zenon
    <2> QED
        BY <2>1, <2>2, Zenon
<1> HIDE DEF i, file, path, ms
<1>5. /\ DOMAIN s.names = Files
      /\ \A f \in Files : DOMAIN s.names[f] = Methods
      /\ \A f \in Files, m \in Methods : m \in s.names[f][m]
    BY Zenon DEF Added
<1>6. /\ DOMAIN Or(s.names[file], ms) = Methods
      /\ \A m \in Methods : m \in Or(s.names[file], ms)[m]
      /\ ToSet(ms) \subseteq Or(s.names[file], ms)[Head(ms)]
    BY <1>3, <1>4, <1>5, OrHas, Zenon
<1>7. /\ DOMAIN names = Files /\ names[file] = Or(s.names[file], ms)
      /\ \A f \in Files : f # file => names[f] = s.names[f]
    BY <1>3, <1>5, Zenon
<1> HIDE DEF names
<1>8. /\ DOMAIN names = Files
      /\ \A f \in Files : DOMAIN names[f] = Methods
      /\ \A f \in Files, m \in Methods : m \in names[f][m]
    BY <1>5, <1>6, <1>7, Zenon
<1>9. mine.handler = i /\ Given(i) \subseteq mine.methods
    BY <1>4, <1>6, <1>7, Zenon
<1> HIDE DEF mine
<1>10. DOMAIN s.resources = Paths
    BY Zenon DEF Added
<1>11. /\ DOMAIN resources = Paths /\ resources[path] = new
       /\ \A p \in Paths : p # path => resources[p] = s.resources[p]
    BY <1>3, <1>10, Zenon
<1> HIDE DEF resources
<1>12. \A j \in 1..i : j \in 1..n \/ j = i
    BY DEF i
<1>13. 1..n \subseteq 1..i /\ i \in 1..i /\ 1..(i - 1) = 1..n
    BY DEF i
<1>14. path = Mappings[i].path
    BY Zenon DEF path
<1>15. ASSUME NEW p \in Paths
       PROVE  \/ /\ resources[p].handler = 0
                 /\ \A j \in 1..i : Mappings[j].path # p
              \/ /\ FirstOf(p, resources[p].handler, i)
                 /\ Given(resources[p].handler) \subseteq resources[p].methods
    <2>1. \/ /\ s.resources[p].handler = 0
             /\ \A j \in 1..n : Mappings[j].path # p
          \/ /\ FirstOf(p, s.resources[p].handler, n)
             /\ Given(s.resources[p].handler) \subseteq s.resources[p].methods
        BY Zenon DEF Added
    <2>2. CASE p # path
        <3>1. resources[p] = s.resources[p]
            BY <1>11, <2>2, Zenon
        <3> QED
            BY <1>12, <1>13, <1>14, <2>1, <2>2, <3>1, Zenon DEF FirstOf
    <2>3. CASE p = path /\ s.resources[p].handler # 0
        <3>1. resources[p] = s.resources[p]
            BY <1>11, <2>3, Zenon
        <3> QED
            BY <1>13, <2>1, <2>3, <3>1, Zenon DEF FirstOf
    <2>4. CASE p = path /\ s.resources[p].handler = 0
        <3>1. resources[p] = mine
            BY <1>11, <2>4, Zenon
        <3>2. \A j \in 1..n : Mappings[j].path # p
            <4>1. 0 \notin 1..n
                OBVIOUS
            <4> QED
                BY <2>1, <2>4, <4>1, Zenon DEF FirstOf
        <3>3. FirstOf(p, i, i)
            BY <1>13, <1>14, <2>4, <3>2, Zenon DEF FirstOf
        <3> QED
            BY <1>9, <3>1, <3>3, Zenon
    <2> QED
        BY <2>2, <2>3, <2>4, Zenon
<1>16. DOMAIN r = {"names", "resources"} /\ r.names = names /\ r.resources = resources
    <2> HIDE DEF r
    <2> QED
        BY <1>1
<1> HIDE DEF r
<1>17. Added(r, i)
    BY <1>8, <1>11, <1>15, <1>16, Zenon DEF Added
<1> QED
    BY <1>17, Zenon DEF r, i

\* Every path that is mapped leads to its first mapping, for the methods given to it.
LEMMA ResourcesAre ==
    ASSUME NEW p \in Paths
    PROVE  /\ FirstOf(p, Resources[p].handler, Len(Mappings))
           /\ Given(Resources[p].handler) \subseteq Resources[p].methods
<1> DEFINE L == Len(Mappings)
           f == CHOOSE f : Adds(f, L)
           S == {k \in Nat : k <= L /\ Added(f[k], k)}
<1>1. L \in Nat /\ DOMAIN Mappings = 1..L
    BY RoutingAssumption
<1> HIDE DEF L
<1>2. Adds(f, L)
    BY <1>1, AddsExists, Zenon
<1>3. Resources = f[L].resources
    BY Zenon DEF Resources, Adds, L
<1> HIDE DEF f
<1>4. /\ f[0] = [names |-> NewNames, resources |-> NoResources]
      /\ \A i \in 1..L : f[i] = AddMapping(f[i - 1], i)
    BY <1>1, <1>2, AddsSteps, Zenon DEF AddedInTurn
<1>5. Added(f[0], 0)
    <2> DEFINE s == f[0]
    <2>1. /\ s.names = NewNames /\ s.resources = NoResources
          /\ DOMAIN s = {"names", "resources"}
        BY <1>4
    <2>2. /\ DOMAIN NewNames = Files
          /\ \A g \in Files : DOMAIN NewNames[g] = Methods
          /\ \A g \in Files, m \in Methods : m \in NewNames[g][m]
        BY DEF NewNames
    <2>3. /\ DOMAIN NoResources = Paths
          /\ \A q \in Paths : NoResources[q].handler = 0
        BY DEF NoResources
    <2>4. 1..0 = {}
        OBVIOUS
    <2> HIDE DEF s
    <2>5. Added(s, 0)
        BY <2>1, <2>2, <2>3, <2>4, Zenon DEF Added
    <2> QED
        BY <2>5 DEF s
<1>6. ASSUME NEW k \in 0..(L - 1), Added(f[k], k) PROVE Added(f[k + 1], k + 1)
    <2>1. k \in Nat /\ k + 1 \in 1..L /\ (k + 1) - 1 = k
        BY <1>1
    <2>2. f[k + 1] = AddMapping(f[k], k + 1)
        <3>1. f[k + 1] = AddMapping(f[(k + 1) - 1], k + 1)
            BY <1>4, <2>1, Zenon
        <3> QED
            BY <2>1, <3>1, Zenon
    <2> QED
        BY <1>6, <2>1, <2>2, AddedNext, Zenon DEF L
<1>7. L \in S
    <2>1. 0 \in S /\ \A k \in 0..(L - 1) : k \in S => k + 1 \in S
        BY <1>1, <1>5, <1>6
    <2> HIDE DEF S
    <2> QED
        BY <1>1, <2>1, Induction
<1>8. Added(f[L], L)
    BY <1>7
<1>9. PICK i \in 1..L : Mappings[i].path = p
    BY <1>1, Zenon DEF Paths
<1>10. \/ /\ Resources[p].handler = 0
          /\ \A j \in 1..L : Mappings[j].path # p
       \/ /\ FirstOf(p, Resources[p].handler, L)
          /\ Given(Resources[p].handler) \subseteq Resources[p].methods
    BY <1>3, <1>8, Zenon DEF Added
<1> QED
    BY <1>9, <1>10, Zenon DEF L

\* Mapped is the first mapping of a path, 0 when there is none.
LEMMA MappedIs ==
    ASSUME NEW p
    PROVE  /\ p \notin Paths => Mapped(p) = 0
           /\ \A i : FirstOf(p, i, Len(Mappings)) => Mapped(p) = i /\ i # 0
<1> DEFINE L == Len(Mappings)
           I == {i \in 1..L : Mappings[i].path = p}
<1>1. L \in Nat /\ DOMAIN Mappings = 1..L
    BY RoutingAssumption
<1>2. Mapped(p) = IF I # {} THEN Min(I) ELSE 0
    BY Zenon DEF Mapped, SelectInSeq
<1> HIDE DEF L
<1>3. ASSUME p \notin Paths PROVE Mapped(p) = 0
    <2>1. I = {}
        BY <1>1, <1>3, Zenon DEF Paths
    <2> HIDE DEF I
    <2> QED
        BY <1>2, <2>1
<1>4. ASSUME NEW i, FirstOf(p, i, L) PROVE Mapped(p) = i /\ i # 0
    <2>1. i \in 1..L /\ i \in I /\ \A j \in 1..(i - 1) : j \notin I
        BY <1>4, Zenon DEF FirstOf
    <2>2. I \subseteq 1..L
        OBVIOUS
    <2> HIDE DEF I
    <2>3. \A j \in I : i <= j
        BY <1>1, <2>1, <2>2
    <2>4. Min(I) \in I /\ \A j \in I : Min(I) <= j
        BY <2>1, <2>3, Zenon DEF Min
    <2> DEFINE m == Min(I)
    <2>5. m = i
        <3>1. m \in I /\ m <= i
            BY <2>1, <2>4, Zenon
        <3> HIDE DEF m
        <3> QED
            BY <1>1, <2>1, <2>2, <2>3, <3>1
    <2>6. I # {}
        BY <2>1
    <2>7. i # 0
        BY <1>1, <2>1
    <2> QED
        BY <1>2, <2>5, <2>6, <2>7, Zenon
<1> QED
    BY <1>3, <1>4, Zenon DEF L

\* What one request is answered with.
RoutedRight(uri, method, answer) ==
    CASE answer.kind = "not_found" -> Mapped(uri) = 0
      [] answer.kind = "not_allowed" -> Mapped(uri) # 0 /\ method \notin Given(Mapped(uri))
      [] answer.kind = "handled" -> Mapped(uri) # 0 /\ answer.handler = Mapped(uri)

\* handle_request answers by the first mapping.
LEMMA AnswerRight ==
    ASSUME NEW uri, NEW method
    PROVE  RoutedRight(uri, method, Answer(uri, method))
<1>1. CASE uri \notin Paths
    <2>1. Answer(uri, method) = [kind |-> "not_found", handler |-> 0]
        BY <1>1, Zenon DEF Answer
    <2>2. Answer(uri, method).kind = "not_found"
        BY <2>1
    <2>3. Mapped(uri) = 0
        BY <1>1, MappedIs, Zenon
    <2> HIDE DEF Answer
    <2> QED
        BY <2>2, <2>3 DEF RoutedRight
<1>2. CASE uri \in Paths
    <2>1. /\ Mapped(uri) = Resources[uri].handler /\ Mapped(uri) # 0
          /\ Given(Mapped(uri)) \subseteq Resources[uri].methods
        BY <1>2, ResourcesAre, MappedIs, Zenon
    <2>2. CASE method \notin Resources[uri].methods
        <3>1. Answer(uri, method) = [kind |-> "not_allowed", handler |-> 0]
            BY <1>2, <2>2, Zenon DEF Answer
        <3>2. Answer(uri, method).kind = "not_allowed"
            BY <3>1
        <3> QED
            BY <2>1, <2>2, <3>2 DEF RoutedRight
    <2>3. CASE method \in Resources[uri].methods
        <3>1. Answer(uri, method) = [kind |-> "handled", handler |-> Resources[uri].handler]
            BY <1>2, <2>3, Zenon DEF Answer
        <3>2. /\ Answer(uri, method).kind = "handled"
              /\ Answer(uri, method).handler = Resources[uri].handler
            BY <3>1
        <3> QED
            BY <2>1, <3>2 DEF RoutedRight
    <2> QED
        BY <2>2, <2>3
<1> QED
    BY <1>1, <1>2

\* handle_request answers every request by the mappings.
AnswersGiven ==
    /\ handled \in Seq(ToSet(handled))
    /\ \A n \in DOMAIN handled :
           handled[n].answer = Answer(handled[n].uri, handled[n].method)

\* Every step keeps that.
LEMMA AnswersStep == AnswersGiven /\ [Next]_vars => AnswersGiven'
<1> SUFFICES ASSUME AnswersGiven, [Next]_vars PROVE AnswersGiven'
    OBVIOUS
<1>1. CASE handled' = handled
    BY <1>1 DEF AnswersGiven
<1>2. CASE handled' = Append(handled, Seen(req'))
    <2>1. PICK e : e = Seen(req') /\ e.answer = Answer(e.uri, e.method)
        <3>1. Seen(req').answer = Answer(Seen(req').uri, Seen(req').method)
            BY Zenon DEF Seen
        <3> QED
            BY <3>1, Zenon
    <2>2. /\ handled' = Append(handled, e) /\ handled \in Seq(ToSet(handled))
          /\ DOMAIN handled = 1..Len(handled) /\ Len(handled) \in Nat
        BY <1>2, <2>1, SeqDomain, Zenon DEF AnswersGiven
    <2>3. /\ handled' \in Seq(ToSet(handled')) /\ DOMAIN handled' = 1..(Len(handled) + 1)
          /\ handled'[Len(handled) + 1] = e
          /\ \A n \in 1..Len(handled) : handled'[n] = handled[n]
        <3>1. Appended(handled', handled, e)
            BY <2>2, AppendIsSeq, Zenon
        <3> QED
            BY <3>1, Zenon DEF Appended
    <2>4. \A n \in 1..(Len(handled) + 1) : n \in 1..Len(handled) \/ n = Len(handled) + 1
        BY <2>2
    <2>5. \A n \in DOMAIN handled' :
              handled'[n].answer = Answer(handled'[n].uri, handled'[n].method)
        BY <2>1, <2>2, <2>3, <2>4, Zenon DEF AnswersGiven
    <2> QED
        BY <2>3, <2>5, Zenon DEF AnswersGiven
<1>3. handled' = handled \/ handled' = Append(handled, Seen(req'))
    BY Zenon DEF Next, vars, Receive, ReceiveNothing, RespondAlive, RespondClose, Terminated
<1> QED
    BY <1>1, <1>2, <1>3

\* The first mapping of a path answers it, whatever mappings the program makes, in
\* whatever files and with whatever methods (add_mapping, operator|, handle_request).
THEOREM RoutedAlways == Spec => []Routed
<1>1. Init => AnswersGiven
    <2>1. ASSUME handled = <<>> PROVE AnswersGiven
        <3>1. DOMAIN handled = {}
            BY <2>1
        <3>2. handled \in Seq(ToSet(handled))
            BY <2>1, EmptySeq, Zenon
        <3> QED
            BY <3>1, <3>2, Zenon DEF AnswersGiven
    <2> QED
        BY <2>1 DEF Init
<1>2. AnswersGiven => Routed
    <2> SUFFICES ASSUME AnswersGiven, NEW n \in DOMAIN handled
                 PROVE  RoutedRight(handled[n].uri, handled[n].method, handled[n].answer)
        BY Zenon DEF Routed, RoutedRight
    <2>1. handled[n].answer = Answer(handled[n].uri, handled[n].method)
        BY Zenon DEF AnswersGiven
    <2> QED
        BY <2>1, AnswerRight
<1> QED
    BY <1>1, <1>2, AnswersStep, PTL DEF Spec

=============================================================================
