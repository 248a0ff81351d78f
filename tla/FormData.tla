------------------------------ MODULE FormData ------------------------------
(***************************************************************************)
(* How src/src/sim_parser.cpp takes parameters from a URL, an urlencoded   *)
(* body and a multipart body: RequestParam, RequestLine, unescape, and the *)
(* callbacks for multipart_parser. Text is a sequence of characters, each a*)
(* string of length one.                                                   *)
(*                                                                         *)
(* A multipart body is the sequence of callbacks multipart_parser makes    *)
(* for it: [on, text], with "junk" where it stops because the body does    *)
(* not keep to the boundary. It is parsed at once, when it is complete.    *)
(***************************************************************************)
EXTENDS Integers, Sequences, SequencesExt

CONSTANT CharOf     \* the character of an escape: of "2", "0" the space

HexDigits ==
    {"0", "1", "2", "3", "4", "5", "6", "7", "8", "9",
     "A", "B", "C", "D", "E", "F", "a", "b", "c", "d", "e", "f"}

\* What a URL and a form give a meaning to can be written as an escape.
ASSUME CharAssumption ==
    /\ DOMAIN CharOf \subseteq HexDigits \X HexDigits
    /\ CharOf \in [DOMAIN CharOf -> STRING]
    /\ {"%", "+", "&", "=", "?"} \subseteq {CharOf[x] : x \in DOMAIN CharOf}

-----------------------------------------------------------------------------
(* Text *)

AfterChar(parts, c, sep) ==
    IF c = sep THEN Append(parts, <<>>) ELSE [parts EXCEPT ![Len(parts)] = Append(@, c)]

\* The pieces getline gives while the stream is good: one after each separator.
Parts(s, sep) ==
    LET after[i \in 0..Len(s)] ==
            IF i = 0 THEN << <<>> >> ELSE AfterChar(after[i - 1], s[i], sep)
    IN  after[Len(s)]

\* ss_split_str: getline as the condition, which fails on an empty rest.
SplitStr(s, sep) ==
    LET p == Parts(s, sep) IN IF Last(p) = <<>> THEN Front(p) ELSE p

\* unescape: "%" with two hexadecimal digits, and "+".
Unescape(s) ==
    LET from[i \in 1..(Len(s) + 3)] ==
            IF i > Len(s) THEN <<>>
            ELSE IF s[i] = "%" /\ i + 2 <= Len(s) /\ <<s[i + 1], s[i + 2]>> \in DOMAIN CharOf
            THEN <<CharOf[<<s[i + 1], s[i + 2]>>]>> \o from[i + 3]
            ELSE <<IF s[i] = "+" THEN " " ELSE s[i]>> \o from[i + 1]
    IN  from[1]

-----------------------------------------------------------------------------
(* Parameters: a multimap, here the sequence of its insertions *)

\* What is between two "&": a name and a value in turn, the last value empty when
\* there is none.
KeyValues(part) ==
    LET t == Parts(part, "=")
    IN  [i \in 1..((Len(t) + 1) \div 2) |->
            <<t[2 * i - 1], IF 2 * i <= Len(t) THEN t[2 * i] ELSE <<>> >>]

ParseQueryUrl(query) ==
    LET p == Parts(query, "&") IN FlattenSeq([i \in DOMAIN p |-> KeyValues(p[i])])

Uri(url) == Parts(url, "?")[1]

ParseRequestUrlParams(url) ==
    LET p == Parts(url, "?") IN IF Len(p) = 1 THEN <<>> ELSE ParseQueryUrl(p[2])

AfterParam(values, p, name) == IF p[1] = name THEN Append(values, p[2]) ELSE values

GetParams(params, name) ==
    LET after[i \in 0..Len(params)] ==
            IF i = 0 THEN <<>> ELSE AfterParam(after[i - 1], params[i], name)
    IN  after[Len(params)]

GetParam(params, name) ==
    LET v == GetParams(params, name) IN IF v = <<>> THEN <<>> ELSE v[1]

\* Names are compared as they came, escaped.
GetUnescapeParam(params, name) == Unescape(GetParam(params, name))

-----------------------------------------------------------------------------
(* Multipart: an accumulator [items, params, failed]. _parse_state is a bool:  *)
(* whether a Content-Type, or the end of the data, came last.                  *)

NewFileItem ==
    [name |-> <<>>, filename |-> <<>>, is_file |-> FALSE, type |-> <<>>, data |-> <<>>,
     typed |-> FALSE]

Fail(m) == [m EXCEPT !.failed = TRUE]

\* Sets fields of the last item; without one the callback fails.
OnLast(m, Op(_)) ==
    IF m.items = <<>> THEN Fail(m)
    ELSE [m EXCEPT !.items = Append(Front(@), Op(Last(@)))]

OnMultipartName(m, text) ==
    CASE text = "Content-Disposition" -> [m EXCEPT !.items = Append(@, NewFileItem)]
      [] text = "Content-Type" -> OnLast(m, LAMBDA item : [item EXCEPT !.typed = TRUE])
      [] OTHER -> m

Quote == "\""

\* ss_parse_disposition_value: [ok, text] for name="text". (An empty value between
\* two "=" makes substr throw, and is left out.)
DispositionValue(input) ==
    LET t == SplitStr(input, "=")
        inside == SubSeq(t[2], 2, Len(t[2]) - 1)
    IN  IF Len(t) # 2 THEN [ok |-> FALSE, text |-> <<>>]
        ELSE [ok |-> t[2] = <<Quote, Quote>> \/ inside # <<>>, text |-> inside]

\* ss_parse_multi_disposition, for the last item: its name, and of a file its name.
OnDisposition(m, input) ==
    LET t == SplitStr(input, ";")
        name == DispositionValue(t[2])
        file == DispositionValue(t[3])
    IN  IF Len(t) < 2 THEN Fail(m)
        ELSE IF ~name.ok THEN Fail(m)
        ELSE IF Len(t) = 2 THEN OnLast(m, LAMBDA item : [item EXCEPT !.name = name.text])
        ELSE IF ~file.ok THEN Fail(m)
        ELSE OnLast(m, LAMBDA item : [item EXCEPT !.name = name.text, !.is_file = TRUE,
                                                  !.filename = file.text])

\* The value of whatever header came last.
OnMultipartValue(m, text) ==
    IF m.items = <<>> THEN Fail(m)
    ELSE IF Last(m.items).typed
    THEN OnLast(m, LAMBDA item : [item EXCEPT !.type = text])
    ELSE OnDisposition(m, text)

OnMultipartData(m, text) ==
    IF text = <<>> THEN m ELSE OnLast(m, LAMBDA item : [item EXCEPT !.data = @ \o text])

OnMultipartDataOver(m) == OnLast(m, LAMBDA item : [item EXCEPT !.typed = TRUE])

\* parse_multi_params, at the closing boundary.
OnMultipartBodyEnd(m) ==
    [m EXCEPT !.params = @ \o [i \in DOMAIN m.items |-> <<m.items[i].name, m.items[i].data>>]]

Multipart(m, call) ==
    CASE m.failed -> m
      [] call.on = "name"  -> OnMultipartName(m, call.text)
      [] call.on = "value" -> OnMultipartValue(m, call.text)
      [] call.on = "data"  -> OnMultipartData(m, call.text)
      [] call.on = "over"  -> OnMultipartDataOver(m)
      [] call.on = "end"   -> OnMultipartBodyEnd(m)
      [] OTHER -> Fail(m)

\* ss_parse_multipart_data of a body whose type names a boundary, added to the items
\* and parameters there are.
ParseMultipart(body, items, params) ==
    LET after[i \in 0..Len(body)] ==
            IF i = 0 THEN [items |-> items, params |-> params, failed |-> FALSE]
            ELSE Multipart(after[i - 1], body[i])
    IN  after[Len(body)]

=============================================================================
