------------------------------- MODULE Router -------------------------------
(***************************************************************************)
(* The HTTP router (http/http.go, adapt.go, middleware.go) with the        *)
(* request parser's cache (parser.go) and errors shared by requests        *)
(* (reqerr.go).  Wiring: Use, Group, Handle and HandleFunc on routers      *)
(* whose middleware are Go slices.  Serving: concurrent requests, each in  *)
(* the steps at which another may come between.                            *)
(***************************************************************************)
EXTENDS RequestParser, GoSlice

CONSTANTS
    Procs,      \* goroutines serving a request
    Types,      \* Req types by name
    Programs    \* bounds: [calls, groups, kinds, types, perRoute, configs, procs,
                \*          inputs, outcomes, errors, case]

\* Middleware and coercers are of the kinds below, an error is a sequence of
\* nodes, a request body has finitely many keys.
ASSUME ProgramsAssumption ==
    \A g \in Programs :
        /\ g.calls \in Nat /\ g.groups \in Nat /\ g.procs \subseteq Procs /\ g.types \subseteq DOMAIN Types
        /\ g.kinds \subseteq {"tap", "stop", "recover"}
        /\ \A c \in g.configs : c.coercer \in {"default", "cher", "oops", "teapot"}
        /\ \A e \in g.errors : e \in Seq(Range(e))
        /\ \A in \in g.inputs : IsFiniteSet(DOMAIN in.body)

\* A Req has its fields in order, and Empty has none.
ASSUME TypesAssumption ==
    \A t \in DOMAIN Types :
        /\ Types[t].fields \in Seq(Range(Types[t].fields))
        /\ Types[t].shape = "empty" => Types[t].fields = <<>>

VARIABLES
    phase,      \* "wiring", "serving" or "panicked"
    program,    \* which of Programs is running: bounds only
    config,     \* the options NewRouter got, which groups inherit: coercer, writer, parser
    heap,       \* backing arrays
    routers,    \* the root and its groups: middleware slice, prefix (its group calls)
    routes,     \* what the mux has registered, in order
    log,        \* history: the calls of the wiring
    cache,      \* RequestParser.cache: who built a type's binder, or NoOne
    sentinel,   \* the reasons of a package-level ReqError, a slice
    req         \* the request each goroutine serves

vars == <<phase, program, config, heap, routers, routes, log, cache, sentinel, req>>

NoOne == "no one"
Idle == [pc |-> "idle"]

ASSUME ProcsAssumption == NoOne \notin Procs

-----------------------------------------------------------------------------
(* Wiring. *)

\* A package-level sentinel New(..).WithReasons(a, b).WithReasons(c): the
\* second append doubled the array and left a slot spare.
Init ==
    /\ phase = "wiring"
    /\ program \in Programs
    /\ config \in program.configs
    /\ LET two == AppendTo(<<>>, NilSlice, <<"a", "b">>)
           three == AppendTo(two.heap, Clip(two.slice), <<"c">>)
       IN  heap = three.heap /\ sentinel = three.slice
    /\ routers = <<[mw |-> NilSlice, prefix |-> <<>>]>>
    /\ routes = <<>> /\ log = <<>>
    /\ cache = [t \in DOMAIN Types |-> NoOne]
    /\ req = [p \in Procs |-> Idle]

Calling(call) ==
    /\ phase = "wiring" /\ Len(log) < program.calls
    /\ log' = Append(log, call)
    /\ UNCHANGED <<program, config, sentinel, req>>

\* A middleware is who it is, the number of the call that named it, and what
\* it does: "tap" passes on, "stop" refuses, "recover" is the Recoverer.
Middleware(kind) == [id |-> Len(log) + 1, kind |-> kind]

\* Use: append to the router's slice.
Use(r, kind) ==
    /\ Calling([op |-> "use", on |-> r, mw |-> <<Middleware(kind)>>])
    /\ LET grown == AppendTo(heap, routers[r].mw, <<Middleware(kind)>>)
       IN  heap' = grown.heap /\ routers' = [routers EXCEPT ![r].mw = grown.slice]
    /\ UNCHANGED <<phase, routes, cache>>

\* A slip: a group starts on its parent's slice.
GroupShares(r) ==
    /\ Calling([op |-> "group", on |-> r, mw |-> <<>>])
    /\ routers' = Append(routers, [routers[r] EXCEPT !.prefix = Append(@, Len(log) + 1)])
    /\ UNCHANGED <<phase, heap, routes, cache>>

\* Group: a router of its own, with a copy of the middleware so far.
Group(r) ==
    /\ Len(routers) <= program.groups
    /\ Calling([op |-> "group", on |-> r, mw |-> <<>>])
    /\ LET copy == AppendTo(heap, NilSlice, Elements(heap, routers[r].mw))
       IN  /\ heap' = copy.heap
           /\ routers' = Append(routers, [mw |-> copy.slice, prefix |-> Append(routers[r].prefix, Len(log) + 1)])
    /\ UNCHANGED <<phase, routes, cache>>

\* HandleFunc: the chain is the router's middleware as of now, then the
\* route's own.
Register(r, t, typed, perRoute) ==
    routes' = Append(routes, [chain |-> Elements(heap, routers[r].mw) \o perRoute,
                              prefix |-> routers[r].prefix, type |-> t, typed |-> typed])

PerRoute(own) == IF own THEN <<Middleware("tap")>> ELSE <<>>

\* A slip: a plan is cached for a type that cannot be bound, under no one's name.
HandleUnprepared(r, t, own) ==
    /\ Calling([op |-> "handle", on |-> r, mw |-> PerRoute(own)])
    /\ cache' = [cache EXCEPT ![t] = "unbindable"]
    /\ Register(r, t, TRUE, PerRoute(own))
    /\ UNCHANGED <<phase, heap, routers>>

\* Handle, typed: PrepareFor builds and caches the binder, or panics.
Handle(r, t, own) ==
    /\ Calling([op |-> "handle", on |-> r, mw |-> PerRoute(own)])
    /\ IF cache[t] = NoOne /\ ~Bindable(config.parser, Types[t])
       THEN phase' = "panicked" /\ UNCHANGED <<routes, cache>>
       ELSE /\ cache' = [cache EXCEPT ![t] = IF @ = NoOne THEN "wiring" ELSE @]
            /\ Register(r, t, TRUE, PerRoute(own))
            /\ UNCHANGED phase
    /\ UNCHANGED <<heap, routers>>

\* HandleFunc with a raw handler, which parses its request by itself.
HandleFunc(r, t, own) ==
    /\ Calling([op |-> "handleFunc", on |-> r, mw |-> PerRoute(own)])
    /\ Register(r, t, FALSE, PerRoute(own))
    /\ UNCHANGED <<phase, heap, routers, cache>>

\* The host hands the router to http.Server.
ListenAndServe ==
    /\ phase = "wiring" /\ routes # <<>> /\ program.procs # {}
    /\ phase' = "serving"
    /\ UNCHANGED <<program, config, heap, routers, routes, log, cache, sentinel, req>>

-----------------------------------------------------------------------------
(* Serving. *)

Route(p) == routes[req[p].route]
TypeOf(p) == Types[Route(p).type]

Moves(p, pc, next) ==
    /\ phase = "serving" /\ req[p].pc = pc
    /\ req' = [req EXCEPT ![p] = next]
    /\ UNCHANGED <<phase, program, config, routers, routes, log, sentinel>>

Stops(chain) == \E i \in DOMAIN chain : chain[i].kind = "stop"

\* What the innermost handler ends with: "ok", "error", "panic" (of any value)
\* or "abort" (of http.ErrAbortHandler); own is the slice of reasons of an
\* error made from the sentinel.
Out(kind, err) == [kind |-> kind, err |-> err, own |-> NilSlice]

\* A request comes in; a middleware that refuses keeps it from the handler.
Arrive(p, i, in) ==
    /\ p \in program.procs
    /\ Moves(p, "idle",
             [pc |-> IF Stops(routes[i].chain) THEN "write" ELSE "load",
              route |-> i, in |-> in, binder |-> NoOne, args |-> {}, ran |-> FALSE,
              out |-> Out("ok", <<>>), resp |-> Response(0, "", <<>>)])
    /\ UNCHANGED <<heap, cache>>

\* binderFor: a plan in the cache is used; without one the goroutine builds
\* its own, or learns that the type cannot be bound.
Load(p) ==
    /\ LET t == Route(p).type
       IN  Moves(p, "load",
                 IF cache[t] # NoOne THEN [req[p] EXCEPT !.pc = "bind", !.binder = cache[t]]
                 ELSE IF Bindable(config.parser, Types[t]) THEN [req[p] EXCEPT !.pc = "store", !.binder = p]
                 ELSE [req[p] EXCEPT !.pc = "write",
                                     !.out = Out("error", BuildError(Types[t]))])
    /\ UNCHANGED <<heap, cache>>

\* A slip: every goroutine stores the plan it built.
StoreOwn(p) ==
    /\ Moves(p, "store", [req[p] EXCEPT !.pc = "bind", !.binder = p])
    /\ cache' = [cache EXCEPT ![Route(p).type] = p]
    /\ UNCHANGED heap

\* LoadOrStore: whoever is first stores, everyone uses what is stored.
LoadOrStore(p) ==
    LET t == Route(p).type
    IN  /\ Moves(p, "store", [req[p] EXCEPT !.pc = "bind",
                                              !.binder = IF cache[t] = NoOne THEN p ELSE cache[t]])
        /\ cache' = [cache EXCEPT ![t] = IF @ = NoOne THEN p ELSE @]
        /\ UNCHANGED heap

\* bind: an error goes up the chain, else the handler runs with the Req.
BindRequest(p) ==
    /\ LET b == BuildBinder(TypeOf(p))
           err == Bind(config.parser, b, req[p].in)
       IN  Moves(p, "bind",
                 IF err # <<>> THEN [req[p] EXCEPT !.pc = "write", !.out = Out("error", err)]
                 ELSE [req[p] EXCEPT !.pc = "handle", !.ran = TRUE, !.args = Bound(config.parser, b, req[p].in)])
    /\ UNCHANGED <<heap, cache>>

\* The handler returns a response, an error, or panics.  A response that does
\* not encode is an error too (adapt.go), nothing being written yet.
HandlerReturns(p, kind, err) ==
    /\ kind \in program.outcomes \ {"sentinel"}
    /\ Moves(p, "handle", [req[p] EXCEPT !.pc = "write", !.out = Out(kind, err)])
    /\ UNCHANGED <<heap, cache>>

DecoratedInPlace(p) == AppendTo(heap, sentinel, <<p>>) \* A slip: without Clip

\* WithReasons on a sentinel every request shares.
Decorated(p) == AppendTo(heap, Clip(sentinel), <<p>>)

HandlerDecorates(p) ==
    /\ "sentinel" \in program.outcomes
    /\ Moves(p, "handle",
             [req[p] EXCEPT !.pc = "write",
                            !.out = [Out("error", New("conflict")) EXCEPT !.own = Decorated(p).slice]])
    /\ heap' = Decorated(p).heap
    /\ UNCHANGED cache

\* One middleware over what the rest of the chain came to.
Through(mw, out) ==
    CASE mw.kind = "tap" -> out
      [] mw.kind = "stop" -> Out("error", New("unauthorized"))
      [] mw.kind = "recover" -> IF out.kind = "panic" THEN Out("error", New("unknown")) ELSE out

\* What a chain makes of it, from the innermost middleware out.
Unwind(chain, out) ==
    LET up[n \in 0 .. Len(chain)] ==
            IF n = 0 THEN out ELSE Through(chain[Len(chain) + 1 - n], up[n - 1])
    IN  up[Len(chain)]

\* The response: 204 for Empty, the success status, the error as the writer
\* shapes it, or a connection closed with nothing written.
Respond(p, out) ==
    CASE out.kind = "ok" -> Response(TypeOf(p).success, "ok", <<>>)
      [] out.kind = "error" /\ out.own = NilSlice -> Write(config.writer, config.coercer, out.err)
      [] out.kind = "error" /\ out.own # NilSlice ->
            Write(config.writer, config.coercer, WithReasons(out.err, Elements(heap, out.own)))
      [] out.kind \in {"panic", "abort"} -> Response(0, "", <<>>)

WriteResponse(p) ==
    /\ Moves(p, "write",
             [req[p] EXCEPT !.pc = "done", !.resp = Respond(p, Unwind(Route(p).chain, req[p].out))])
    /\ UNCHANGED <<heap, cache>>

Next ==
    \/ \E r \in DOMAIN routers :
          \/ \E k \in program.kinds : Use(r, k)
          \/ Group(r)
          \/ \E t \in program.types, own \in program.perRoute : Handle(r, t, own) \/ HandleFunc(r, t, own)
    \/ ListenAndServe
    \/ \E p \in Procs :
          \/ \E i \in DOMAIN routes, in \in program.inputs : Arrive(p, i, in)
          \/ Load(p) \/ LoadOrStore(p) \/ BindRequest(p)
          \/ HandlerReturns(p, "ok", <<>>) \/ HandlerReturns(p, "panic", <<>>)
          \/ HandlerReturns(p, "abort", <<>>)
          \/ \E e \in program.errors : HandlerReturns(p, "error", e)
          \/ HandlerDecorates(p)
          \/ WriteResponse(p)

Spec == Init /\ [][Next]_vars

-----------------------------------------------------------------------------
(* Properties. *)

Slices == [arr : 0 .. Len(heap), len : Nat, cap : Nat]

SliceOK(s) == s \in Slices /\ s.len <= s.cap /\ (s.arr # 0 => s.cap = Len(heap[s.arr]))

\* Every variable keeps its type, and a slice stays within its array.
TypeOK ==
    /\ phase \in {"wiring", "serving", "panicked"}
    /\ \A r \in DOMAIN routers : SliceOK(routers[r].mw) /\ routers[r].prefix \in Seq(1 .. Len(log))
    /\ SliceOK(sentinel)
    /\ \A i \in DOMAIN routes : routes[i].type \in DOMAIN Types /\ routes[i].typed \in BOOLEAN
    /\ cache \in [DOMAIN Types -> Procs \cup {NoOne, "wiring"}]
    /\ Len(log) <= program.calls
    /\ \A p \in Procs : req[p].pc \in {"idle", "load", "store", "bind", "handle", "write", "done"}

Calls(ops) == Only([n \in DOMAIN log |-> n], {n \in DOMAIN log : log[n].op \in ops})

\* The middleware named on router r ahead of call n, in order.
Named(r, n) ==
    LET uses == Only([k \in 1 .. n - 1 |-> k],
                     {k \in 1 .. n - 1 : log[k].op = "use" /\ log[k].on = r})
    IN  [i \in DOMAIN uses |-> log[uses[i]].mw[1]]

\* What a router starts with: what its parent had when it was made.  Router r
\* was made by the group call number r - 1.
Inherited ==
    LET start[r \in DOMAIN routers] ==
            IF r = 1 THEN [chain |-> <<>>, prefix |-> <<>>]
            ELSE LET made == Calls({"group"})[r - 1]
                     parent == log[made].on
                 IN  [chain |-> start[parent].chain \o Named(parent, made),
                      prefix |-> Append(start[parent].prefix, made)]
    IN  start

\* A route runs the middleware its router had when it was registered: its
\* ancestors' as of each group's making, then its router's, then its own, and
\* answers under its ancestors' prefixes.  No later Use or Group, on any
\* router, gets into it or takes one out, though the routers' slices grow in
\* place.
RouteKeepsItsChain ==
    phase # "panicked" =>
        \A i \in DOMAIN routes :
            LET n == Calls({"handle", "handleFunc"})[i]
                start == Inherited[log[n].on]
            IN  /\ routes[i].chain = start.chain \o Named(log[n].on, n) \o log[n].mw
                /\ routes[i].prefix = start.prefix

Reached(p, pcs) == req[p].pc \in pcs

\* The suite's own coercer and writers answer what they like.
DoesAsItLikes == config.coercer = "teapot" \/ config.writer \notin {"default", "custom"}

\* A request that decorates a shared error is answered with that error, with
\* the error's own reasons and its own, never another request's.
ReasonsAreOwn ==
    \A p \in Procs :
        Reached(p, {"done"}) /\ req[p].out.own # NilSlice /\ ~DoesAsItLikes =>
            req[p].resp = Response(400, "conflict", <<"a", "b", "c", p>>)

\* Whoever builds a type's plan, every request of the type binds by the one
\* plan that is cached.
OneBinder ==
    \A p \in Procs : Reached(p, {"bind", "handle"}) => req[p].binder = cache[Route(p).type]

\* One response names every bad input: the path and query values that do not
\* parse, the body's values of a wrong type, the keys no field claims, each
\* once unless the type names one twice; a body of another media type, or one
\* the service's decoder does not read, is refused as a whole.  And no handler
\* runs on a request with a bad input.
EveryBadInputNamed ==
    \A p \in Procs :
        /\ Reached(p, {"handle"}) => BadInputs(config.parser, TypeOf(p), req[p].in) = {}
        /\ Reached(p, {"done"}) /\ ~req[p].ran /\ req[p].resp.code = "invalid_request" /\ ~DoesAsItLikes =>
               LET rs == req[p].resp.reasons
               IN  /\ {<<rs[i].in, rs[i].field>> : i \in DOMAIN rs} = BadInputs(config.parser, TypeOf(p), req[p].in)
                   /\ KeysOnce(TypeOf(p)) => Cardinality(BadInputs(config.parser, TypeOf(p), req[p].in)) = Len(rs)

\* Whichever of the libraries' coercers and writers is configured, a ReqError
\* keeps its status however deep it is wrapped (but for the service's own error
\* around it, and for one that does not encode, which the default writer makes
\* a 500 without a body, never half of that error), and only an error somebody
\* wrote for the caller reads as the caller's fault: an oops error, a plain one
\* or a recovered panic is a 5xx, and a panic nobody recovers a connection
\* closed without an answer.
ErrorsKeepTheirSide ==
    \A p \in Procs :
        Reached(p, {"done"}) /\ ~Stops(Route(p).chain) /\ ~DoesAsItLikes =>
            LET err == req[p].out.err
                own == config.writer = "custom" /\ Has(err, "api")
            IN  /\ req[p].out.kind = "error" =>
                       /\ Has(err, "req") /\ ~own =>
                              IF config.writer = "default" /\ ~AsType(err, "req")[1].encodes
                              THEN req[p].resp = Bare500
                              ELSE req[p].resp.status = StatusCode(AsType(err, "req"))
                       /\ req[p].resp.status < 500 => own \/ Has(err, "req") \/ Has(err, "cher")
                /\ req[p].out.kind = "panic" => req[p].resp.status \in {0, 500}
=============================================================================
