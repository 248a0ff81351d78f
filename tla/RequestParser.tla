---------------------------- MODULE RequestParser ----------------------------
(***************************************************************************)
(* Request::parse_request and the http_parser callbacks of                 *)
(* src/src/sim_parser.cpp, with HttpEpollWatcher's on_readable and          *)
(* handle_request of src/src/http_server.cpp: the requests of one          *)
(* connection arrive cut into reads anywhere.                              *)
(*                                                                         *)
(* A request on the wire is a sequence of pieces. A token (the URL, the    *)
(* name or the value of a header) is its content pieces and an "end" piece,*)
(* the separator after it. http_parser calls back once for each part of a  *)
(* token that lies in one read; when only the separator is left for the    *)
(* next read, it calls with length 0. It is built with                     *)
(* HTTP_PARSER_STRICT=0 (Makefile, deps), so that bytes after a complete   *)
(* request start another one in the same Request.                          *)
(*                                                                         *)
(* Left out: the version, chunk framing and trailers, obsolete line        *)
(* folding, and bodies whose middle looks like a request.                  *)
(***************************************************************************)
EXTENDS Integers, Sequences, SequencesExt, FormData, Routing

CONSTANTS
    Sessions,       \* bound: what a client may send, sequences of requests
                    \* [method, path, query, headers, form, parts, raw]
    MAX_REQ_SIZE    \* in pieces

\* What a client may send: text is a sequence of characters, and a header's name and
\* value are words.
IsRequest(r) ==
    LET text == Seq(STRING)
    IN  /\ r.method \in STRING /\ r.path \in text
        /\ r.query \in Seq(text \X text) /\ r.form \in Seq(text \X text)
        /\ r.headers \in Seq(STRING \X STRING)
        /\ r.parts \in Seq([name : text, file : BOOLEAN, filename : text, type : text,
                            data : Seq(text)])
        /\ \A i \in DOMAIN r.parts : r.parts[i].file \/ r.parts[i].filename = <<>>
        /\ r.raw \in Seq(ToSet(r.raw))

ASSUME ParserAssumption ==
    /\ \A s \in Sessions : s \in Seq(ToSet(s)) /\ \A n \in DOMAIN s : IsRequest(s[n])
    /\ MAX_REQ_SIZE \in Nat \ {0}

VARIABLES
    sent,       \* the requests of the client
    ahead,      \* whether it sends one before the one before is answered
    got,        \* pieces received
    conn,       \* "reading", "writing", "refused" (closed for what came), "closed"
    req,        \* the connection's Request, with its http_parser
    handled     \* history: what handle_request was called with, and its answer

vars == <<sent, ahead, got, conn, req, handled>>

NEED_MORE_STATUS == 1
PARSE_LEN_REQUIRED == 2
PARSE_MULTIPART_ERR == -3

-----------------------------------------------------------------------------
(* The wire *)

Piece(on, at) == [on |-> on, at |-> at]
Token(on, content) ==
    [i \in DOMAIN content |-> Piece(on, content[i])] \o <<Piece("end", on)>>

\* A header's name and value have two pieces each, an empty value none.
Text(word) == IF word = "" THEN <<>> ELSE <<<<word, 1>>, <<word, 2>>>>

\* A client escapes the values of parameters.
Escape(s) ==
    FlattenSeq([i \in DOMAIN s |->
        IF s[i] = " " THEN <<"+">>
        ELSE IF \E x \in DOMAIN CharOf : CharOf[x] = s[i]
        THEN LET x == CHOOSE x \in DOMAIN CharOf : CharOf[x] = s[i] IN <<"%">> \o x
        ELSE <<s[i]>>])

Query(pairs) ==
    FlattenSeq([i \in DOMAIN pairs |->
        (IF i = 1 THEN <<>> ELSE <<"&">>) \o pairs[i][1] \o <<"=">> \o Escape(pairs[i][2])])

Url(r) == r.path \o (IF r.query = <<>> THEN <<>> ELSE <<"?">> \o Query(r.query))

Quoted(text) == <<Quote>> \o text \o <<Quote>>

\* The callbacks for part p of a multipart body, its data in one piece or more.
PartCalls(p) ==
    LET call(on, text) == [on |-> on, text |-> text]
    IN  <<call("name", "Content-Disposition"),
          call("value", <<"form-data", ";", " name", "=">> \o Quoted(p.name)
                        \o (IF p.file THEN <<";", " filename", "=">> \o Quoted(p.filename)
                            ELSE <<>>))>>
        \o (IF p.type = <<>> THEN <<>>
            ELSE <<call("name", "Content-Type"), call("value", p.type)>>)
        \o [i \in DOMAIN p.data |-> call("data", p.data[i])]
        \o <<call("over", "")>>

\* Characters of a form, callbacks for parts, or what a client sends besides.
Body(r) ==
    [i \in DOMAIN Query(r.form) |-> [on |-> "char", text |-> Query(r.form)[i]]]
    \o FlattenSeq([i \in DOMAIN r.parts |-> PartCalls(r.parts[i])])
    \o (IF r.parts = <<>> THEN <<>> ELSE <<[on |-> "end", text |-> ""]>>)
    \o r.raw

Wire(r) ==
    <<Piece("method", r.method)>>
    \o Token("url", Url(r))
    \o FlattenSeq([i \in DOMAIN r.headers |->
           Token("field", Text(r.headers[i][1])) \o Token("value", Text(r.headers[i][2]))])
    \o <<Piece("blank", Len(Body(r)))>>
    \o [k \in DOMAIN Body(r) |-> Piece("body", Body(r)[k])]

\* The pieces of each session, and where each of its requests ends.
Streams == [s \in Sessions |-> FlattenSeq([n \in DOMAIN s |-> Wire(s[n])])]
Ends == [s \in Sessions |-> [n \in 0..Len(s) |->
            Len(FlattenSeq([m \in 1..n |-> Wire(s[m])]))]]

Stream == Streams[sent]

\* Where the first n requests end in Stream.
End(n) == Ends[sent][n]

-----------------------------------------------------------------------------
(* Request *)

NewRequest ==
    [url |-> <<>>, params |-> <<>>, method |-> "",              \* _line
     fields |-> <<>>, values |-> <<>>, last_was_value |-> TRUE,
     headers |-> {},
     body |-> <<>>, items |-> <<>>, form |-> <<>>,  \* _raw_string, _file_items, _req_params
     part |-> "line", err |-> 0, size |-> 0,
     parser |-> [at |-> "start", method |-> "", mark |-> <<>>, left |-> 0,
                 error |-> FALSE]]

Init ==
    /\ sent \in Sessions
    /\ ahead \in BOOLEAN
    /\ got = 0
    /\ conn = "reading"
    /\ req = NewRequest
    /\ handled = <<>>

Fails(q) == [q EXCEPT !.parser.error = TRUE]

\* Mutant: the URL is what the last call brings.
OnUrlSets(q, buf) == [q EXCEPT !.url = buf]

OnUrl(q, buf) == [q EXCEPT !.url = @ \o buf]

AppendToLast(seq, buf) == [seq EXCEPT ![Len(seq)] = @ \o buf]

\* The first header field completes the request line.
EndOfLine(q) ==
    IF q.part # "line" THEN q
    ELSE [q EXCEPT !.method = q.parser.method, !.params = @ \o ParseRequestUrlParams(q.url),
                   !.part = "head"]

OnHeaderField(q, buf) ==
    IF q.last_was_value
    THEN [EndOfLine(q) EXCEPT !.fields = Append(@, buf), !.last_was_value = FALSE]
    ELSE [EndOfLine(q) EXCEPT !.fields = AppendToLast(@, buf)]

\* Mutant: every call brings a value.
OnHeaderValuePushes(q, buf) ==
    [q EXCEPT !.values = Append(@, buf), !.last_was_value = TRUE]

OnHeaderValue(q, buf) ==
    [q EXCEPT !.values = IF q.last_was_value THEN AppendToLast(@, buf) ELSE Append(@, buf),
              !.last_was_value = TRUE]

\* add_header in order: the last of several headers with one name stays.
AddHeaders(fields, values) ==
    {<<fields[i], values[i]>> : i \in {j \in DOMAIN fields :
        \A k \in (j + 1)..Len(fields) : fields[k] # fields[j]}}

\* get_header, empty when there is none.
GetHeader(q, name) ==
    IF \E h \in q.headers : h[1] = Text(name)
    THEN (CHOOSE h \in q.headers : h[1] = Text(name))[2] ELSE <<>>

HasHeader(q, name) == GetHeader(q, name) # <<>>

OnHeadersComplete(q) ==
    IF Len(q.fields) # Len(q.values) THEN Fails(q)
    ELSE LET r == [q EXCEPT !.headers = AddHeaders(q.fields, q.values),
                            !.part = "head_over"]
         IN  IF r.method = "POST" /\ ~HasHeader(r, "length")
             THEN Fails([r EXCEPT !.err = PARSE_LEN_REQUIRED])
             ELSE r

OnBody(q, buf) == [q EXCEPT !.body = @ \o buf, !.part = "body"]

\* What comes of the body: items, parameters, and whether it is refused. The type is
\* compared as a whole for a form; of a multipart type, one without a boundary is
\* left alone.
ParsedBody(q) ==
    LET asis == [items |-> q.items, params |-> q.form, failed |-> FALSE]
    IN  IF q.body = <<>> THEN asis
        ELSE CASE GetHeader(q, "type") = Text("form") ->
                      [asis EXCEPT !.params =
                           @ \o ParseQueryUrl([i \in DOMAIN q.body |-> q.body[i].text])]
               [] GetHeader(q, "type") = Text("multipart") ->
                      ParseMultipart(q.body, q.items, q.form)
               [] OTHER -> asis

\* Mutant: the end of the request is not noted.
OnMessageCompleteKeepsPart(q) ==
    LET b == ParsedBody(q) IN [q EXCEPT !.items = b.items, !.form = b.params]

\* The end of a request whose body is parsed to b.
EndOfMessage(q, b) ==
    LET r == [q EXCEPT !.items = b.items, !.form = b.params, !.part = "over"]
    IN  IF b.failed THEN Fails([r EXCEPT !.err = PARSE_MULTIPART_ERR]) ELSE r

OnMessageComplete(q) == EndOfMessage(q, ParsedBody(q))

-----------------------------------------------------------------------------
(* http_parser_execute, as far as the callbacks show it. parser.at is the      *)
(* piece it has read last, or "start" before a request; mark, the part of a    *)
(* token it will call back with; left, what Content-Length leaves to read.     *)

\* The data callback for what has been marked of token on.
Callback(q, on) ==
    LET r == [q EXCEPT !.parser.mark = <<>>]
    IN  CASE on = "url"   -> OnUrl(r, q.parser.mark)
          [] on = "field" -> OnHeaderField(r, q.parser.mark)
          [] on = "value" -> OnHeaderValue(r, q.parser.mark)
          [] on = "body"  -> OnBody(r, q.parser.mark)

Complete(q) == OnMessageComplete([q EXCEPT !.parser.at = "start"])

\* Between requests line ends are skipped, and only a method may come.
Consume(q, p) ==
    LET r == [q EXCEPT !.parser.at = p.on]
        marked == [r EXCEPT !.parser.mark = Append(@, p.at)]
        h == OnHeadersComplete([r EXCEPT !.parser.left = p.at])
        b == [marked EXCEPT !.parser.left = @ - 1]
    IN  IF q.parser.error \/ (q.parser.at = "start" /\ p.on = "blank") THEN q
        ELSE IF q.parser.at = "start" /\ p.on # "method" THEN Fails(q)
        ELSE CASE p.on = "method" -> [r EXCEPT !.parser.method = p.at]
               [] p.on = "end" -> Callback(r, p.at)
               [] p.on = "blank" -> IF h.parser.error \/ p.at > 0 THEN h ELSE Complete(h)
               [] p.on = "body" ->
                      IF b.parser.left > 0 THEN b ELSE Complete(Callback(b, "body"))
               [] OTHER -> marked

\* What is marked when the read ends is called back with.
EndOfRead(q) ==
    IF q.parser.error \/ q.parser.mark = <<>> THEN q ELSE Callback(q, q.parser.at)

Execute(q, pieces) ==
    LET after[i \in 0..Len(pieces)] ==
            IF i = 0 THEN q ELSE Consume(after[i - 1], pieces[i])
    IN  EndOfRead(after[Len(pieces)])

-----------------------------------------------------------------------------
(* parse_request *)

\* Mutant: each read is held against the limit by itself.
CountedAlone(q, pieces) == [q EXCEPT !.size = Len(pieces)]

Counted(q, pieces) == [q EXCEPT !.size = @ + Len(pieces)]

TooBig(q) == q.size > MAX_REQ_SIZE

ParseRequest(q, pieces) ==
    LET r == Counted(q, pieces)
    IN  IF TooBig(r) THEN r ELSE Execute(r, pieces)

\* Mutant: the first part of a body ends the request.
ReturnAtBody(q) ==
    IF TooBig(q) \/ q.parser.error THEN -1
    ELSE IF q.err # 0 THEN q.err
    ELSE IF q.part \notin {"body", "over"} THEN NEED_MORE_STATUS ELSE 0

\* Its result. (A callback that fails at the very last byte is not seen as a short
\* parse: the caller gets the negative _parse_err of on_message_complete then.)
Return(q) ==
    IF TooBig(q) \/ q.parser.error THEN -1
    ELSE IF q.err # 0 THEN q.err
    ELSE IF q.part # "over" THEN NEED_MORE_STATUS ELSE 0

-----------------------------------------------------------------------------
(* HttpEpollWatcher *)

\* get_params and get_param, by method.
Params(q) ==
    CASE q.method = "GET" -> q.params [] q.method = "POST" -> q.form [] OTHER -> <<>>

\* What a handler sees: all values of each parameter, and the first unescaped.
Seen(q) ==
    [uri |-> Uri(q.url), method |-> q.method, headers |-> q.headers, body |-> q.body,
     items |-> [i \in DOMAIN q.items |->
         [name |-> q.items[i].name, file |-> q.items[i].is_file, type |-> q.items[i].type,
          filename |-> q.items[i].filename, data |-> q.items[i].data]],
     params |-> [i \in DOMAIN Params(q) |-> GetParams(Params(q), Params(q)[i][1])],
     first |-> [i \in DOMAIN Params(q) |-> GetUnescapeParam(Params(q), Params(q)[i][1])],
     answer |-> Answer(Uri(q.url), q.method)]

\* How far the client has sent.
Available == IF ahead \/ Len(handled) = Len(sent) THEN Len(Stream) ELSE End(Len(handled) + 1)

\* on_readable with bytes: READ_CLOSE, READ_CONTINUE, or READ_OVER after
\* handle_request or with 411.
Receive(n) ==
    /\ conn = "reading"
    /\ got' = got + n
    /\ req' = ParseRequest(req, SubSeq(Stream, got + 1, got + n))
    /\ LET ret == Return(req')
       IN  /\ conn' = IF ret < 0 THEN "refused"
                      ELSE IF ret = NEED_MORE_STATUS THEN "reading" ELSE "writing"
           /\ handled' = IF ret = 0 THEN Append(handled, Seen(req')) ELSE handled
    /\ UNCHANGED <<sent, ahead>>

\* recv fails or the client has closed.
ReceiveNothing ==
    /\ conn = "reading"
    /\ conn' = "closed"
    /\ UNCHANGED <<sent, ahead, got, req, handled>>

\* The response is written: HttpContext::clear and WRITE_CONN_ALIVE ...
RespondAlive ==
    /\ conn = "writing"
    /\ HasHeader(req, "alive")
    /\ req' = NewRequest
    /\ conn' = "reading"
    /\ UNCHANGED <<sent, ahead, got, handled>>

\* ... or, without keep-alive or when send fails, WRITE_CONN_CLOSE.
RespondClose ==
    /\ conn = "writing"
    /\ conn' = "closed"
    /\ UNCHANGED <<sent, ahead, got, req, handled>>

Terminated ==
    /\ conn \in {"refused", "closed"}
    /\ UNCHANGED vars

Next ==
    \/ \E n \in 1..(Available - got) : Receive(n)
    \/ ReceiveNothing
    \/ RespondAlive
    \/ RespondClose
    \/ Terminated

Spec == Init /\ [][Next]_vars

-----------------------------------------------------------------------------
(* Properties *)

\* Types, and the two lists of headers keep in step: a field may lack its value,
\* which the next callback brings, and never more (sim_parser.cpp:335).
TypeOK ==
    /\ sent \in Sessions /\ ahead \in BOOLEAN
    /\ got \in 0..Len(Stream)
    /\ conn \in {"reading", "writing", "refused", "closed"}
    /\ DOMAIN req = DOMAIN NewRequest
    /\ req.part \in {"line", "head", "head_over", "body", "over"}
    /\ req.err \in {0, PARSE_LEN_REQUIRED, PARSE_MULTIPART_ERR}
    /\ Len(req.fields) - Len(req.values) = IF req.last_was_value THEN 0 ELSE 1

\* The parameters a client meant: of the URL, or of the body.
MeantParams(r) ==
    CASE r.method = "GET" -> r.query
      [] r.method = "POST" ->
             r.form \o [i \in DOMAIN r.parts |-> <<r.parts[i].name, FlattenSeq(r.parts[i].data)>>]
      [] OTHER -> <<>>

\* The parameters of a URL or a form come escaped, those of parts do not.
Escaped(r) == r.method = "GET" \/ r.parts = <<>>

\* The values of the i-th of them, as the client wrote them.
MeantValues(r, i) ==
    LET of == GetParams(MeantParams(r), MeantParams(r)[i][1])
    IN  [k \in DOMAIN of |-> IF Escaped(r) THEN Escape(of[k]) ELSE of[k]]

\* The last of several headers with one name counts.
MeantHeaders(r) ==
    {<<Text(r.headers[i][1]), Text(r.headers[i][2])>> : i \in {j \in DOMAIN r.headers :
        \A k \in (j + 1)..Len(r.headers) : r.headers[k][1] # r.headers[j][1]}}

TypeIs(r, type) == <<Text("type"), Text(type)>> \in MeantHeaders(r)

Clear(text, specials) == \A i \in DOMAIN text : text[i] \notin specials

\* A multipart body is parts as browsers send them. Their names are free of what
\* ss_parse_multi_disposition splits at, quoted or not (sim_parser.cpp:407).
SentInParts(r) ==
    TypeIs(r, "multipart") =>
        /\ r.form = <<>> /\ r.raw = <<>>
        /\ \A i \in DOMAIN r.parts : /\ Clear(r.parts[i].name, {";", "="})
                                     /\ Clear(r.parts[i].filename, {";", "="})

\* What is not escaped holds no separator, and the body is what its type says.
WellFormed(r) ==
    /\ Clear(r.path, {"?"})
    /\ \A i \in DOMAIN r.query : Clear(r.query[i][1], {"?", "&", "="})
    /\ \A i \in DOMAIN r.form : Clear(r.form[i][1], {"&", "="})
    /\ SentInParts(r)
    /\ r.form # <<>> => TypeIs(r, "form")
    /\ r.parts # <<>> => TypeIs(r, "multipart")
    /\ TypeIs(r, "form") => r.raw = <<>>

\* What a handler is to see of r.
MeansRequest(seen, r) ==
    /\ seen.uri = r.path /\ seen.method = r.method
    /\ seen.headers = MeantHeaders(r) /\ seen.body = Body(r)
    /\ seen.items = [i \in DOMAIN r.parts |->
           [r.parts[i] EXCEPT !.data = FlattenSeq(r.parts[i].data)]]
    /\ DOMAIN seen.params = DOMAIN MeantParams(r)
    /\ \A i \in DOMAIN seen.params :
           /\ seen.params[i] = MeantValues(r, i)
           /\ \E k \in DOMAIN seen.params :
                 /\ MeantParams(r)[k][1] = MeantParams(r)[i][1]
                 /\ LET v == MeantParams(r)[k][2]
                    IN  seen.first[i] = IF Escaped(r) THEN v ELSE Unescape(v)
                 /\ \A j \in 1..(k - 1) : MeantParams(r)[j][1] # MeantParams(r)[i][1]

\* However the reads cut it, and whatever the connection carried before, a handler
\* sees the request that was sent: its method, headers and body, the parameters of
\* the URL or of the form without their escapes, the items of a multipart body. (Not
\* promised to a client that sends ahead, nor for a request without headers, whose
\* method and parameters stay empty.)
Faithful ==
    ~ahead => \A n \in DOMAIN handled :
        sent[n].headers # <<>> /\ WellFormed(sent[n]) => MeansRequest(handled[n], sent[n])

\* The first mapping of a path answers it: its handler runs, or the method was not
\* among those asked for it, or there is no mapping at all.
Routed ==
    \A n \in DOMAIN handled :
        LET seen == handled[n]
            i == Mapped(seen.uri)
        IN  CASE seen.answer.kind = "not_found" -> i = 0
              [] seen.answer.kind = "not_allowed" -> i # 0 /\ seen.method \notin Given(i)
              [] seen.answer.kind = "handled" -> i # 0 /\ seen.answer.handler = i

\* A handler runs for the methods given to add_mapping only, GET when none is given
\* (http_server.h:85).
OnlyMapped ==
    \A n \in DOMAIN handled :
        handled[n].answer.kind = "handled"
            => handled[n].method \in Given(handled[n].answer.handler)

\* No handler runs before its request has arrived to the last byte, nor twice
\* for one request, whatever else has arrived.
NotEarly == got >= End(Len(handled))

\* A request that may be served.
Acceptable(r) ==
    /\ Len(Wire(r)) <= MAX_REQ_SIZE
    /\ r.method = "POST"
           => \E h \in MeantHeaders(r) : h[1] = Text("length") /\ h[2] # <<>>
    /\ SentInParts(r)

\* A client that waits for its answers gets one: a request that has arrived whole
\* never leaves the server waiting for more, and none is refused that may be served.
Answered ==
    ~ahead => /\ conn = "reading" /\ Len(handled) < Len(sent)
                     => got < End(Len(handled) + 1)
              /\ conn = "refused" => ~Acceptable(sent[Len(handled) + 1])

\* No request above MAX_REQ_SIZE reaches a handler, however it was cut.
SizeLimited == \A n \in DOMAIN handled : Len(Wire(sent[n])) <= MAX_REQ_SIZE

=============================================================================
