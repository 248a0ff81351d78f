--------------------------- MODULE MCRequestParser ---------------------------
(***************************************************************************)
(* Small instances of RequestParser for TLC: requests with and without     *)
(* headers, parameters and bodies, of known and unknown paths, that keep   *)
(* the connection or not, that must be refused, among them one of a piece  *)
(* more than MAX_REQ_SIZE, while the longest of the others has it exactly. *)
(***************************************************************************)
EXTENDS RequestParser, TLC

SomeEscapes ==
    ( <<"2", "6">> :> "&" ) @@ ( <<"3", "D">> :> "=" ) @@ ( <<"2", "5">> :> "%" )
    @@ ( <<"2", "B">> :> "+" ) @@ ( <<"3", "F">> :> "?" )

A == <<"/", "a">>
B == <<"/", "b">>
C == <<"/", "c">>

alive == <<"alive", "yes">>
length == <<"length", "n">>
Type(t) == <<"type", t>>

Get(path, query, headers) ==
    [method |-> "GET", path |-> path, query |-> query, headers |-> headers,
     form |-> <<>>, parts |-> <<>>, raw |-> <<>>]
Post(headers) == [Get(A, <<>>, headers) EXCEPT !.method = "POST"]
Form(headers, pairs) == [Post(headers) EXCEPT !.form = pairs]
Upload(headers, parts) == [Post(headers) EXCEPT !.parts = parts]
Sends(headers, raw) == [Post(headers) EXCEPT !.raw = raw]

Chars(s) == [i \in DOMAIN s |-> [on |-> "char", text |-> s[i]]]
Part(name, data) ==
    [name |-> name, file |-> FALSE, filename |-> <<>>, type |-> <<>>, data |-> data]
File(name, filename, data) ==
    [name |-> name, file |-> TRUE, filename |-> filename, type |-> <<"t">>, data |-> data]

KeptForm == Form(<<length, Type("form"), alive>>,
                 << <<<<"k">>, <<"%", " ", "2">>>>, <<<<"k">>, <<>>>> >>)
KeptUpload == Upload(<<alive, length, Type("multipart")>>,
                     << Part(<<"p">>, << <<"d">>, <<"e">> >>), File(<<"f">>, <<>>, << <<"d">> >>) >>)
Kept == Get(A, << <<<<"q">>, <<"&", "=">>>> >>, <<alive>>)

Various == {
    Get(B, <<>>, <<>>),
    [Get(C, <<>>, <<alive>>) EXCEPT !.method = "OPTIONS"],
    Get(A, << <<<<"q">>, <<"+", "x">>>>, <<<<"r">>, <<>>>> >>, <<Type("")>>),
    Get(B, <<>>, <<alive, alive>>),
    Post(<<length>>),
    Form(<<Type("form"), alive>>, << <<<<"k">>, <<"x">>>> >>),
    Sends(<<length, Type("multipart")>>, Chars(<<"j">>)),
    Sends(<<length, Type("multipart")>>, Tail(PartCalls(Part(<<"p">>, <<>>)))),
    Sends(<<length, Type("text"), alive, alive, alive>>, Chars(<<"k", "=", "x", "y", "z">>)),
    Sends(<<length, Type("text"), alive, alive, alive>>, Chars(<<"k", "=", "x", "y", "z", "z">>))}

\* One request, and others after one or two that keep the connection.
SmallSessions ==
    {<<r>> : r \in Various}
    \cup {<<k, r>> : k \in {Kept, KeptForm}, r \in Various}
    \cup {<<Kept, KeptUpload>>, <<KeptUpload, KeptForm, Kept>>, <<KeptForm, KeptUpload>>}

\* The mappings of a program in one file, and those the server adds itself.
SmallMappings ==
    << [file |-> "main", path |-> B, methods |-> <<>>],
       [file |-> "main", path |-> A, methods |-> <<"GET", "POST">>],
       [file |-> "main", path |-> B, methods |-> <<"OPTIONS">>],
       [file |-> "http_server", path |-> C, methods |-> <<>>] >>

\* The mappings of test/hello_server.cpp:97, and a client that asks for the default.
HelloMappings ==
    << [file |-> "main", path |-> A, methods |-> <<"GET", "OPTIONS">>],
       [file |-> "main", path |-> B, methods |-> <<>>] >>

HelloSessions == { <<[Get(B, <<>>, <<alive>>) EXCEPT !.method = "OPTIONS"]>> }

HttpMethods == {"GET", "POST", "OPTIONS"}

=============================================================================
