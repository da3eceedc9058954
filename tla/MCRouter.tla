------------------------------ MODULE MCRouter ------------------------------
(* Small instances of Router: programs that wire a lot and serve nothing,  *)
(* programs with one request of every kind, and programs in which two      *)
(* requests meet.                                                          *)
EXTENDS RouterSuite

\* Filter names one key twice.
MCTypes ==
    SuiteTypes @@
    [Empty |-> Empty(204),
     Update |-> Struct(<<Field("path", "id", "uint8"), Field("query", "dry", "bool"),
                         Field("query", "tags", "list"), Field("json", "name", "string"),
                         Field("json", "size", "int"), Field("none", "x", "string")>>),
     Create |-> Struct(<<Field("lenient", "", ""), Field("path", "at", "text"),
                         Field("json", "name", "string")>>),
     Filter |-> Struct(<<Field("query", "dry", "bool"), Field("query", "dry", "bool")>>),
     BadField |-> Struct(<<Field("query", "m", "map")>>),
     BadShape |-> [shape |-> "other", fields |-> <<>>, success |-> 200]]

Bodies ==
    {[form |-> "eof", body |-> <<>>], [form |-> "malformed", body |-> <<>>],
     [form |-> "json", body |-> [name |-> "str", size |-> "num"]],
     [form |-> "json", body |-> [name |-> "num", size |-> "null"]],
     [form |-> "json", body |-> [name |-> "str", size |-> "str", nmae |-> "str"]]}

MCInputs ==
    {[path |-> [id |-> id, at |-> at], query |-> q, ctype |-> c, form |-> b.form, body |-> b.body] :
        id \in {"300", "x"}, at \in {"", "bad"}, c \in {"json", "other"}, b \in Bodies,
        q \in {[dry |-> "", tags |-> ""], [dry |-> "300", tags |-> "a,b"]}}

Simple == Json(Path([id |-> "1"]), [name |-> "str"])

PlainN == Plain("disk_full", "none")
WrapN == Node("plain", "", 0, "one", "wrapped")
JoinN == Node("plain", "", 0, "many", "joined")
OopsN(code, wraps) == Node("oops", code, 0, wraps, "oops")
CherN(code) == Node("cher", code, 0, "none", "")

Unencodable(err) == WithMeta(err, FALSE)

MCErrors ==
    {<<PlainN>>, <<WrapN, PlainN>>, <<JoinN, PlainN>>,
     New("not_found"), WithStatus(New("conflict"), 409), <<WrapN>> \o New("not_found"),
     <<JoinN, CherN("not_found")>> \o New("teapot"),
     <<CherN("")>>, <<CherN("unsupported_media_type")>>, <<WrapN, CherN("too_many_requests")>>,
     <<OopsN("not_found", "none")>>, <<OopsN("", "one"), PlainN>>,
     <<OopsN("", "one")>> \o WithStatus(New("gone"), 404),
     AsReqError(<<PlainN>>), AsReqError(EventNew("validation_failed")), AsReqError(New("not_found")),
     \* Errors with a Meta that does not encode, of every library.
     Unencodable(New("not_found")), <<WrapN>> \o Unencodable(WithStatus(New("gone"), 410)),
     Unencodable(<<CherN("not_found")>>), Unencodable(<<OopsN("not_found", "none")>>),
     <<OopsN("", "one")>> \o Unencodable(New("teapot")),
     AsReqError(Unencodable(EventNew("validation_failed"))),
     <<Node("api", "taken", 422, "none", "")>>, <<WrapN, Node("api", "down", 503, "one", "")>> \o New("x")}

Hook == [setters |-> {"list"}, decodeBody |-> TRUE]
Lists == [setters |-> {"list"}, decodeBody |-> FALSE]

Configs == [coercer : {"default", "cher", "oops"}, writer : {"default", "custom"}, parser : {Lists}]
Parsers == [coercer : {"default"}, writer : {"default"}, parser : {DefaultRequestParser, Lists, Hook}]

\* Wiring alone, deep on one group and less deep on groups of groups; one
\* request over every chain and error; one request with every input; two
\* requests at once.
Program(calls, groups, types) ==
    [calls |-> calls, groups |-> groups, kinds |-> {}, types |-> types, perRoute |-> {FALSE},
     configs |-> {Options}, procs |-> {}, inputs |-> {Simple}, outcomes |-> {}, errors |-> {}, case |-> "none"]

MCPrograms ==
    {[Program(7, 1, {"Empty"}) EXCEPT !.kinds = {"tap"}, !.perRoute = {TRUE}],
     [Program(6, 3, {"Empty"}) EXCEPT !.kinds = {"tap"}],
     [Program(2, 0, {"Update"}) EXCEPT
         !.kinds = {"tap", "stop", "recover"}, !.configs = Configs, !.procs = {"p1"},
         !.outcomes = {"ok", "error", "panic", "abort", "sentinel"}, !.errors = MCErrors],
     [Program(1, 0, {"Empty", "Update", "Create", "Filter", "BadField", "BadShape"}) EXCEPT
         !.perRoute = {TRUE}, !.configs = Parsers, !.procs = {"p1"}, !.inputs = MCInputs, !.outcomes = {"ok"}],
     [Program(2, 0, {"Filter", "BadField"}) EXCEPT
         !.procs = {"p1", "p2"}, !.outcomes = {"ok", "panic", "sentinel"}]}
    \cup {SuiteProgram(name) : name \in DOMAIN Run}
=============================================================================
