----------------------------- MODULE RouterSuite -----------------------------
(***************************************************************************)
(* The conformance suite every backend of the router must pass             *)
(* (http/internal/routertest), as data: a case wires a router, sends it    *)
(* one request and says what that must come to.  SuiteProgram makes a      *)
(* program of Router out of a case, SuiteHolds says that it passes.        *)
(***************************************************************************)
EXTENDS Router

Field(in, key, kind) == [in |-> in, key |-> key, kind |-> kind]

Struct(fields) == [shape |-> "struct", fields |-> fields, success |-> 200]

Empty(success) == [shape |-> "empty", fields |-> <<>>, success |-> success]

pathReq == Struct(<<Field("path", "id", "string"), Field("path", "count", "int")>>)
intPathReq == Struct(<<Field("path", "n", "int")>>)
queryReq == Struct(<<Field("query", "limit", "int"), Field("query", "q", "string"), Field("query", "open", "bool")>>)
bodyReq == Struct(<<Field("json", "name", "string"), Field("json", "age", "int")>>)
updateReq == Struct(<<Field("path", "id", "string"), Field("json", "name", "string")>>)
lenientUpdateReq == Struct(<<Field("lenient", "", "")>> \o updateReq.fields)
searchReq == Struct(<<Field("query", "limit", "int"), Field("json", "name", "string")>>)
sliceReq == Struct(<<Field("path", "tags", "list")>>)

\* The Reqs of the suite by name; those of Empty by their Resp.
SuiteTypes ==
    [string |-> Empty(200), empty |-> Empty(204), createdResp |-> Empty(201), pathReq |-> pathReq,
     intPathReq |-> intPathReq, queryReq |-> queryReq, bodyReq |-> bodyReq, updateReq |-> updateReq,
     lenientUpdateReq |-> lenientUpdateReq, searchReq |-> searchReq, sliceReq |-> sliceReq]

-----------------------------------------------------------------------------
(* The cases. *)

Request == [path |-> <<>>, query |-> <<>>, ctype |-> "", form |-> "eof", body |-> <<>>]

Path(values) == [Request EXCEPT !.path = values]
Query(values) == [Request EXCEPT !.query = values]
Json(in, body) == [in EXCEPT !.ctype = "json", !.form = "json", !.body = body]

Options == [coercer |-> "default", writer |-> "default", parser |-> DefaultRequestParser]

Call(op, on) == <<op, on>>

\* Handle on a fresh router, and one request that is answered with a 200.
Passes(type, in) ==
    [type |-> type, in |-> in, config |-> Options, wiring |-> <<Call("handle", 1)>>, kinds |-> {},
     own |-> FALSE, out |-> "ok", err |-> <<>>, panics |-> FALSE, ran |-> TRUE, args |-> {}, chain |-> <<>>,
     status |-> 200, code |-> "ok", reasons |-> {}]

Refused(case, reasons) ==
    [case EXCEPT !.ran = FALSE, !.status = 400, !.code = "invalid_request", !.reasons = reasons]

Errs(err, status, code) ==
    [Passes("string", Request) EXCEPT !.out = "error", !.err = err, !.status = status, !.code = code]

stringRespIsJSONEncoded == Passes("string", Request)

emptyRespReturns204 == [Passes("empty", Request) EXCEPT !.status = 204]

emptyPointerRespReturns204 == emptyRespReturns204

pathBinding ==
    [Passes("pathReq", Path([id |-> "abc", count |-> "42"])) EXCEPT
        !.args = {<<"path", "id", "abc">>, <<"path", "count", "42">>}]

NotANumber == Path([n |-> "notanumber"])

pathBindingInvalid == Refused(Passes("intPathReq", NotANumber), {Reason("invalid", "path", "n")})

queryBinding ==
    [Passes("queryReq", Query([limit |-> "5", q |-> "foo", open |-> "true"])) EXCEPT
        !.args = {<<"query", "limit", "5">>, <<"query", "q", "foo">>, <<"query", "open", "true">>}]

queryBindingMissingLeavesZero == Passes("queryReq", Request)

queryBindingInvalid ==
    Refused(Passes("queryReq", Query([open |-> "maybe"])), {Reason("invalid", "query", "open")})

bodyBinding ==
    [Passes("bodyReq", Json(Request, [name |-> "str", age |-> "num"])) EXCEPT
        !.args = {<<"json", "name", "str">>, <<"json", "age", "num">>}]

bodyBindingRejectsNonJSON ==
    [Refused(Passes("bodyReq", [Request EXCEPT !.ctype = "text", !.form = "malformed"]), {}) EXCEPT
        !.status = 415, !.code = "unsupported_media_type"]

bodyBindingMalformedJSON ==
    Refused(Passes("bodyReq", [Request EXCEPT !.ctype = "json", !.form = "malformed"]),
            {Reason("malformed", "body", "")})

Id == Path([id |-> "42"])

pathPlusBody ==
    [Passes("updateReq", Json(Id, [name |-> "str"])) EXCEPT
        !.args = {<<"path", "id", "42">>, <<"json", "name", "str">>}]

Hijacked == Json(Id, [id |-> "str", ID |-> "str", name |-> "str"])

bodyRejectsUnknownKeys ==
    Refused(Passes("updateReq", Hijacked),
            {Reason("unknown_field", "body", "ID"), Reason("unknown_field", "body", "id")})

lenientBodyIgnoresUnknownKeys ==
    [Passes("lenientUpdateReq", Hijacked) EXCEPT
        !.args = {<<"path", "id", "42">>, <<"json", "name", "str">>}]

bindingFailuresCollect ==
    Refused(Passes("searchReq", Json(Query([limit |-> "lots"]), [name |-> "num", nam |-> "str"])),
            {Reason("invalid", "query", "limit"), Reason("invalid_type", "body", "name"),
             Reason("unknown_field", "body", "nam")})

successStatusCoder == [Passes("createdResp", Request) EXCEPT !.status = 201]

reqErrorPropagates == Errs(New("not_found"), 404, "not_found")

Plain(says, wraps) == Node("plain", "", 0, wraps, says)

genericErrorBecomes500 == Errs(<<Plain("kaboom", "none")>>, 500, "unknown")

groupPrefixesPaths ==
    [Passes("string", Request) EXCEPT !.wiring = <<Call("group", 1), Call("handle", 2)>>]

middlewareWraps ==
    [Passes("string", Request) EXCEPT
        !.wiring = <<Call("use", 1), Call("use", 1), Call("handle", 1)>>, !.kinds = {"tap"}, !.chain = <<1, 2>>]

middlewareShortCircuit ==
    [Passes("string", Request) EXCEPT
        !.wiring = <<Call("use", 1), Call("handle", 1)>>, !.kinds = {"stop"}, !.chain = <<1>>,
        !.ran = FALSE, !.status = 401, !.code = "unauthorized"]

useAfterGroupDoesNotPropagate ==
    [Passes("string", Request) EXCEPT
        !.wiring = <<Call("group", 1), Call("use", 1), Call("handle", 2)>>, !.kinds = {"stop"}]

perRouteMiddleware == [Passes("string", Request) EXCEPT !.own = TRUE, !.chain = <<1>>]

withCoercer ==
    [Errs(<<Plain("anything", "none")>>, 418, "teapot") EXCEPT !.config.coercer = "teapot"]

\* The coercer that must not run would make it a teapot.
withErrorWriterOwnsResponse ==
    [Errs(<<Plain("bespoke failure", "none")>>, 422, "bespoke failure") EXCEPT
        !.config.coercer = "teapot", !.config.writer = "problem"]

errorWriterSeesOriginalError ==
    [Errs(<<Plain("wrapped", "one"), Plain("sentinel", "none")>>, 500, "sentinel") EXCEPT
        !.config.writer = "spy"]

errorWriterSeesBindingFailures ==
    [Refused(Passes("intPathReq", NotANumber), {}) EXCEPT !.config.writer = "as"]

OnGroup(case) ==
    [case EXCEPT !.wiring = <<Call("group", 1), Call("handle", 2)>>, !.config.writer = "teapot",
                 !.config.parser.setters = {"list"}]

groupInheritsConfig ==
    [OnGroup(Passes("sliceReq", Path([tags |-> "a,b"]))) EXCEPT !.args = {<<"path", "tags", "a,b">>}]

groupInheritsWriter == OnGroup(Errs(<<Plain("boom", "none")>>, 418, ""))

panicOnInvalidReq == [Passes("sliceReq", Path([tags |-> "a,b"])) EXCEPT !.panics = TRUE]

Run ==
    [StringRespIsJSONEncoded |-> stringRespIsJSONEncoded, EmptyRespReturns204 |-> emptyRespReturns204,
     EmptyPointerRespReturns204 |-> emptyPointerRespReturns204, PathBinding |-> pathBinding,
     PathBindingInvalid |-> pathBindingInvalid, QueryBinding |-> queryBinding,
     QueryBindingMissingLeavesZero |-> queryBindingMissingLeavesZero,
     QueryBindingInvalid |-> queryBindingInvalid, BodyBinding |-> bodyBinding,
     BodyBindingRejectsNonJSON |-> bodyBindingRejectsNonJSON,
     BodyBindingMalformedJSON |-> bodyBindingMalformedJSON, PathPlusBody |-> pathPlusBody,
     BodyRejectsUnknownKeys |-> bodyRejectsUnknownKeys,
     LenientBodyIgnoresUnknownKeys |-> lenientBodyIgnoresUnknownKeys,
     BindingFailuresCollect |-> bindingFailuresCollect, SuccessStatusCoder |-> successStatusCoder,
     ReqErrorPropagates |-> reqErrorPropagates, GenericErrorBecomes500 |-> genericErrorBecomes500,
     GroupPrefixesPaths |-> groupPrefixesPaths, MiddlewareWraps |-> middlewareWraps,
     MiddlewareShortCircuit |-> middlewareShortCircuit,
     UseAfterGroupDoesNotPropagate |-> useAfterGroupDoesNotPropagate,
     PerRouteMiddleware |-> perRouteMiddleware, WithCoercer |-> withCoercer,
     WithErrorWriterOwnsResponse |-> withErrorWriterOwnsResponse,
     ErrorWriterSeesOriginalError |-> errorWriterSeesOriginalError,
     ErrorWriterSeesBindingFailures |-> errorWriterSeesBindingFailures,
     GroupInheritsConfig |-> groupInheritsConfig, GroupInheritsWriter |-> groupInheritsWriter,
     PanicOnInvalidReq |-> panicOnInvalidReq]

-----------------------------------------------------------------------------
(* Running it. *)

\* A program of Router in which, among others, the case's wiring happens.
SuiteProgram(name) ==
    LET c == Run[name]
    IN  [calls |-> Len(c.wiring), groups |-> 1, kinds |-> c.kinds, types |-> {c.type}, perRoute |-> {c.own},
         configs |-> {c.config}, procs |-> {"p1"}, inputs |-> {c.in}, outcomes |-> {c.out}, errors |-> {c.err},
         case |-> name]

\* do, and what the test reads off the response and off its handler.
Meets(p, c) ==
    /\ req[p].ran = c.ran /\ req[p].args = c.args
    /\ [i \in DOMAIN Route(p).chain |-> Route(p).chain[i].id] = c.chain
    /\ req[p].resp.status = c.status /\ req[p].resp.code = c.code
    /\ Range(req[p].resp.reasons) = c.reasons

\* The model passes the repository's conformance suite: wired as the test
\* wires it, the router panics where the test wants a panic, and answers the
\* test's request with the status, the code and the reasons it wants, having
\* run the middleware and shown the handler the Req it wants.
SuiteHolds ==
    program.case # "none" =>
        LET c == Run[program.case]
        IN  [n \in DOMAIN log |-> Call(log[n].op, log[n].on)] = c.wiring =>
                /\ c.panics <=> phase = "panicked"
                /\ \A p \in program.procs : Reached(p, {"done"}) => Meets(p, c)
=============================================================================
