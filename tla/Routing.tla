------------------------------- MODULE Routing -------------------------------
(***************************************************************************)
(* HttpServer::add_mapping and HttpEpollWatcher::handle_request of         *)
(* src/src/http_server.cpp: which handler answers a request. GET_METHOD,   *)
(* POST_METHOD and OPTIONS_METHOD are static variables of a header: every  *)
(* source file has its own, and operator| changes the one to its left.     *)
(***************************************************************************)
EXTENDS Integers, Sequences, SequencesExt

CONSTANTS
    Mappings,       \* the calls of add_mapping, in order: [file, path, methods],
                    \* methods <<>> for the default
    Methods

ASSUME RoutingAssumption ==
    /\ "GET" \in Methods
    /\ Mappings \in Seq(ToSet(Mappings))
    /\ \A i \in DOMAIN Mappings : Mappings[i].methods \in Seq(Methods)

\* names[file][m]: _names of variable m of a file.
Files == {Mappings[i].file : i \in DOMAIN Mappings}
NewNames == [f \in Files |-> [m \in Methods |-> {m}]]

\* a | b | c: the first is changed, and returned.
Or(names, ms) == [names EXCEPT ![Head(ms)] = UNION {names[ms[i]] : i \in DOMAIN ms}]

\* Mutant: the later mapping of a path takes the place of the first.
AddMappingAgain(s, i) ==
    LET map == Mappings[i]
        ms == IF map.methods = <<>> THEN <<"GET">> ELSE map.methods
        names == [s.names EXCEPT ![map.file] = Or(@, ms)]
    IN  [names |-> names,
         resources |-> [s.resources EXCEPT ![map.path] =
             [handler |-> i, methods |-> names[map.file][Head(ms)]]]]

\* add_mapping: the method is evaluated, then a path that is there is refused.
AddMapping(s, i) ==
    LET map == Mappings[i]
        ms == IF map.methods = <<>> THEN <<"GET">> ELSE map.methods
        names == [s.names EXCEPT ![map.file] = Or(@, ms)]
    IN  [names |-> names,
         resources |-> [s.resources EXCEPT ![map.path] =
             IF @.handler # 0 THEN @
             ELSE [handler |-> i, methods |-> names[map.file][Head(ms)]]]]

Paths == {Mappings[i].path : i \in DOMAIN Mappings}
NoResources == [p \in Paths |-> [handler |-> 0, methods |-> {}]]

\* _resource_map once the program has made its mappings.
Resources ==
    LET after[n \in 0..Len(Mappings)] ==
            IF n = 0 THEN [names |-> NewNames, resources |-> NoResources]
            ELSE AddMapping(after[n - 1], n)
    IN  after[Len(Mappings)].resources

\* handle_request: the handler of which mapping is called, or what it answers itself.
Answer(uri, method) ==
    IF uri \notin Paths THEN [kind |-> "not_found", handler |-> 0]
    ELSE IF method \notin Resources[uri].methods THEN [kind |-> "not_allowed", handler |-> 0]
    ELSE [kind |-> "handled", handler |-> Resources[uri].handler]

\* The mapping that counts for a path.
Mapped(uri) == SelectInSeq(Mappings, LAMBDA map : map.path = uri)

\* What the program asked for it.
Given(i) == IF Mappings[i].methods = <<>> THEN {"GET"} ELSE ToSet(Mappings[i].methods)

=============================================================================
