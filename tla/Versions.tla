------------------------------ MODULE Versions ------------------------------
(***************************************************************************)
(* API versions (src/http/version): a Registrar collects one Endpoint per  *)
(* route, an Endpoint holds a handler per version in ascending order, and  *)
(* a Resolver finds the version a request asks for.  Declarations are      *)
(* startup code, one call at a time in any order the program is written    *)
(* in; requests are answered by the operator Serve, which changes nothing. *)
(*                                                                         *)
(* A raw wire string is a member of Raws, of which Spells tells what it is *)
(* made of.  A scheme's Parse is a function on the strings that parse, its *)
(* Compare the order of the naturals.  Panics end the program: the phase   *)
(* "panicked".                                                             *)
(***************************************************************************)
EXTENDS Integers, Sequences, FiniteSets, SequencesExt

CONSTANTS
    Raws,       \* wire strings, the empty string Blank among them
    Blank,
    Trim,       \* strings.TrimSpace: [Raws -> Raws]
    Spells,     \* [Raws -> [v, sign : BOOLEAN, digits, date : Nat]], a 0 for none
    Formats,    \* [Schemes -> [Nat \ {0} -> Raws]], as far as versions go
    Options,    \* bound: the strings a program gives the resolver's options
    Routes,     \* (method, path) pairs
    Requests,   \* what the sources of a resolver yield, in their order
    Declarable, \* [Routes -> SUBSET Raws]: the versions a program declares
    MaxCalls    \* bound: [Schemes -> Nat], the calls a program makes

Schemes == {"sequential", "dates", "ordered"}

ASSUME SchemeAssumption ==
    /\ Blank \in Raws
    /\ Trim \in [Raws -> Raws]
    /\ Spells \in [Raws -> [v : BOOLEAN, sign : BOOLEAN, digits : Nat, date : Nat]]
    /\ Spells[Blank] = [v |-> FALSE, sign |-> FALSE, digits |-> 0, date |-> 0]
    /\ Options \subseteq Raws
    /\ Declarable \in [Routes -> SUBSET Raws]

ASSUME CallsAssumption == MaxCalls \in [Schemes -> Nat]

VARIABLES
    scheme,     \* the scheme of the resolver
    phase,      \* "wiring", "serving" (after Build) or "panicked"
    match,      \* the Match rule every endpoint is made with
    rv,         \* the shared Resolver
    endpoints,  \* Registrar.routes: the Endpoint of a route, or NoEndpoint
    order,      \* Registrar.order
    held,       \* routes whose *Endpoint the program fetched and kept
    mounted,    \* the routes registered on the router, in order
    declared,   \* history: <<route, version, handle>> of every declaration
    calls       \* calls made so far

vars == <<scheme, phase, match, rv, endpoints, order, held, mounted, declared, calls>>

Zero == 0           \* the zero V: no version of its own
Nil == "nil"        \* a nil handler
Handle == "handler" \* a handler that is not nil

Variant == [version : Nat, handle : {Nil, Handle}]
Endpoint == [variants : Seq(Variant), preview : {Nil, Handle}]
NewEndpoint == [variants |-> <<>>, preview |-> Nil]
NoEndpoint == [variants |-> <<>>, preview |-> "none"]

-----------------------------------------------------------------------------
(* Scheme: the strings that parse, and what to.  Sequential takes digits    *)
(* with an optional v and no sign, Dates a date, and Ordered whatever its   *)
(* function takes: strconv.Atoi, a sign too.                                *)

SeqScheme == [raw \in {r \in Raws : Spells[r].digits # 0 /\ ~Spells[r].sign} |-> Spells[raw].digits]
DateScheme == [raw \in {r \in Raws : Spells[r].date # 0} |-> Spells[raw].date]
OrderedScheme == [raw \in {r \in Raws : Spells[r].digits # 0 /\ ~Spells[r].v} |-> Spells[raw].digits]

Parses == [s \in Schemes |-> CASE s = "sequential" -> SeqScheme [] s = "dates" -> DateScheme [] s = "ordered" -> OrderedScheme]

Parse == Parses[scheme]

Format(v) == Formats[scheme][v]

\* What a Scheme must be: a version survives a round trip.
ASSUME FormatsAssumption ==
    \A s \in Schemes : \A raw \in DOMAIN Parses[s] :
        LET written == Formats[s][Parses[s][raw]]
        IN  written \in DOMAIN Parses[s] /\ Parses[s][written] = Parses[s][raw]

-----------------------------------------------------------------------------
(* Endpoint: the ascending list of variants. *)

\* slices.BinarySearchFunc's contract: the first variant that is not older
\* than v, or the place after the last.
At(vs, v) == CHOOSE i \in 1 .. Len(vs) + 1 :
                /\ i = Len(vs) + 1 \/ vs[i].version >= v
                /\ \A j \in 1 .. i - 1 : vs[j].version < v

Found(vs, v) == At(vs, v) <= Len(vs) /\ vs[At(vs, v)].version = v

InsertLast(vs, v, h) == Append(vs, [version |-> v, handle |-> h]) \* A slip: unsorted

Insert(vs, v, h) == InsertAt(vs, At(vs, v), [version |-> v, handle |-> h])

NoVariant == [version |-> Zero, handle |-> "none"]

\* A slip: a version between two variants gets the one after it.
PickNewer(vs, v) ==
    IF match = "exact" \/ At(vs, v) = 1 \/ At(vs, v) > Len(vs) THEN NoVariant ELSE vs[At(vs, v)]

\* pick: the Match rule applied to a resolved version.
Pick(vs, v) ==
    IF Found(vs, v) THEN vs[At(vs, v)]
    ELSE IF match = "exact" \/ At(vs, v) = 1 THEN NoVariant
    ELSE vs[At(vs, v) - 1]

NewestServing(vs) == Last(SelectSeq(vs, LAMBDA x : x.handle # Nil \/ x = Head(vs))) \* A slip

Newest(vs) == vs[Len(vs)]

SupportedAll(vs) == {x.version : x \in Range(vs)} \* A slip: withdrawals too

\* supported: the versions offered in a 400, withdrawals left out.
Supported(vs) == {x.version : x \in {y \in Range(vs) : y.handle # Nil}}

-----------------------------------------------------------------------------
(* Resolver: what a request asks for. *)

Outcome == [kind : {"version", "latest", "preview", "missing", "invalid"},
            version : Nat, unpinned : BOOLEAN]

\* resolveRaw, on a trimmed value.
ResolveRaw(raw, unpinned) ==
    LET Out(k, v) == [kind |-> k, version |-> v, unpinned |-> unpinned]
    IN  CASE raw \in rv.latest -> Out("latest", Zero)
          [] raw \notin rv.latest /\ raw \in rv.preview -> Out("preview", Zero)
          [] raw \notin rv.latest \cup rv.preview /\ raw \in DOMAIN Parse
                -> Out("version", Parse[raw])
          [] OTHER -> Out("invalid", Zero)

\* Header, Query and PathValue: an empty value is a miss.
SourceHits(raw) == raw # Blank

\* resolve: the first source with a value that is not blank decides, a value
\* that does not parse included; the fallback only answers when none has one.
Resolve(req) ==
    LET hits == {i \in DOMAIN req : SourceHits(req[i]) /\ Trim[req[i]] # Blank}
        first == CHOOSE i \in hits : \A j \in hits : i <= j
    IN  IF hits # {} THEN ResolveRaw(Trim[req[first]], FALSE)
        ELSE IF rv.fallback # Blank THEN ResolveRaw(rv.fallback, TRUE)
        ELSE [kind |-> "missing", version |-> Zero, unpinned |-> TRUE]

-----------------------------------------------------------------------------
(* Serve: the answer of an endpoint.  "said" is the value of the two         *)
(* informational headers, "" when one is not set.                            *)

Channel(o) == CASE o.kind = "preview" -> "preview"
                [] o.kind = "latest" -> "latest"
                [] OTHER -> "stable"

Fails(status, code, version, offered) ==
    [status |-> status, code |-> code, served |-> version, requested |-> Zero, latest |-> FALSE,
     preview |-> FALSE, offered |-> offered, channel |-> "stable", says |-> "nothing", warns |-> FALSE]

\* What FromContext tells the variant that runs.
Resolved(o, chosen) ==
    [requested |-> IF o.kind = "version" THEN o.version ELSE chosen.version, served |-> chosen.version,
     latest |-> o.kind = "latest", preview |-> o.kind = "preview"]

\* The variant a request is sent to.
Chosen(e, o) ==
    CASE o.kind = "preview" /\ e.preview # Nil -> [version |-> Zero, handle |-> e.preview]
      [] o.kind = "version" -> Pick(e.variants, o.version)
      [] OTHER -> IF e.variants = <<>> THEN NoVariant ELSE Newest(e.variants)

Dispatch(e, o) ==
    LET chosen == Chosen(e, o)
        overlay == o.kind = "preview" /\ e.preview # Nil
        told == Resolved(o, chosen)
    IN  IF chosen = NoVariant
        THEN Fails(400, "version_unsupported", o.version, {Format(v) : v \in Supported(e.variants)})
        ELSE IF chosen.handle = Nil
        THEN [Fails(410, "endpoint_withdrawn", chosen.version, {}) EXCEPT !.channel = Channel(o)]
        ELSE [status |-> 200, code |-> "ok", offered |-> {}, channel |-> Channel(o),
              served |-> told.served, requested |-> told.requested,
              latest |-> told.latest, preview |-> told.preview,
              says |-> IF ~rv.status THEN "nothing"
                       ELSE IF overlay THEN "channel" ELSE "channel and version",
              warns |-> rv.warn /\ o.unpinned]

Serve(e, req) ==
    LET o == Resolve(req)
    IN  IF e.variants = <<>> /\ e.preview = Nil THEN Fails(500, "version_unconfigured", Zero, {})
        ELSE CASE o.kind = "missing" -> Fails(400, "version_missing", Zero, {})
               [] o.kind = "invalid" -> Fails(400, "version_invalid", Zero, {})
               [] OTHER -> Dispatch(e, o)

\* What the router answers on a route: 404 where nothing is mounted.
Answer(route, req) ==
    IF route \in Range(mounted) THEN Serve(endpoints[route], req)
    ELSE Fails(404, "not_found", Zero, {})

-----------------------------------------------------------------------------
(* Wiring: the resolver's options. *)

Init ==
    /\ scheme \in Schemes
    /\ phase = "wiring"
    /\ match \in {"compatible", "exact"}
    /\ rv = [latest |-> {}, preview |-> {}, fallback |-> Blank, status |-> FALSE, warn |-> FALSE]
    /\ endpoints = [r \in Routes |-> NoEndpoint]
    /\ order = <<>> /\ held = {} /\ mounted = <<>>
    /\ declared = {}
    /\ calls = 0

Panic == phase' = "panicked" /\ UNCHANGED <<match, rv, endpoints, order, held, mounted, declared>>

Called == calls < MaxCalls[scheme] /\ calls' = calls + 1 /\ UNCHANGED scheme

Wiring == phase = "wiring" /\ Called

\* allowLiterals with one literal: blank or padded, enabled already, or one
\* the scheme parses is refused.
LiteralRefused(l) ==
    \/ l = Blank \/ Trim[l] # l
    \/ l \in rv.latest \cup rv.preview
    \/ l \in DOMAIN Parse

Configured(new) ==
    /\ rv' = new
    /\ UNCHANGED <<phase, match, endpoints, order, held, mounted, declared>>

AllowLatest(l) ==
    /\ Wiring
    /\ IF LiteralRefused(l) THEN Panic ELSE Configured([rv EXCEPT !.latest = @ \cup {l}])

AllowPreview(l) ==
    /\ Wiring
    /\ IF LiteralRefused(l) THEN Panic ELSE Configured([rv EXCEPT !.preview = @ \cup {l}])

\* A slip: a fallback is taken unchecked, and a typo is found per request.
FallbackUnchecked(raw) == Wiring /\ Configured([rv EXCEPT !.fallback = raw])

Fallback(raw) ==
    /\ Wiring
    /\ IF \/ Trim[raw] = Blank
          \/ rv.fallback # Blank
          \/ raw \notin rv.latest \cup rv.preview \cup DOMAIN Parse
       THEN Panic
       ELSE Configured([rv EXCEPT !.fallback = raw])

StatusHeader ==
    /\ Wiring
    /\ IF rv.status THEN Panic ELSE Configured([rv EXCEPT !.status = TRUE])

WarnUnpinned ==
    /\ Wiring
    /\ IF rv.warn THEN Panic ELSE Configured([rv EXCEPT !.warn = TRUE])

-----------------------------------------------------------------------------
(* Wiring: the declarations. *)

\* Registrar.endpoint: the route's Endpoint, made and ordered when new.
Made(route) == IF endpoints[route] = NoEndpoint THEN NewEndpoint ELSE endpoints[route]
Ordered(route) == IF endpoints[route] = NoEndpoint THEN Append(order, route) ELSE order

\* Endpoint.insert.
InsertVariant(route, raw, h) ==
    IF raw \notin DOMAIN Parse \/ Found(Made(route).variants, Parse[raw])
    THEN Panic
    ELSE /\ endpoints' = [endpoints EXCEPT ![route] =
                [Made(route) EXCEPT !.variants = Insert(@, Parse[raw], h)]]
         /\ order' = Ordered(route)
         /\ declared' = declared \cup {<<route, Parse[raw], h>>}
         /\ UNCHANGED <<phase, match, rv, held, mounted>>

\* Endpoint.HandleFunc: a preview literal declares the overlay, once.
HandleOn(route, raw) ==
    IF raw \in rv.preview
    THEN IF Made(route).preview # Nil THEN Panic
         ELSE /\ endpoints' = [endpoints EXCEPT ![route] = [Made(route) EXCEPT !.preview = Handle]]
              /\ order' = Ordered(route)
              /\ declared' = declared \cup {<<route, Zero, Handle>>}
              /\ UNCHANGED <<phase, match, rv, held, mounted>>
    ELSE InsertVariant(route, raw, Handle)

\* Endpoint.Withdraw: a dated version only; a variant with a nil handler.
WithdrawOn(route, raw) ==
    IF raw \in rv.preview \cup rv.latest THEN Panic ELSE InsertVariant(route, raw, Nil)

\* Registrar.Handle, typed: an unbindable Req panics before anything else.
HandleFunc(route, raw) == Wiring /\ HandleOn(route, raw)
HandleUnbindable(route) == Wiring /\ Panic
Withdraw(route, raw) == Wiring /\ WithdrawOn(route, raw)

\* Registrar.Endpoint: the pointer, kept by the program.
Fetch(route) ==
    /\ Wiring
    /\ endpoints' = [endpoints EXCEPT ![route] = Made(route)]
    /\ order' = Ordered(route)
    /\ held' = held \cup {route}
    /\ UNCHANGED <<phase, match, rv, mounted, declared>>

\* Nothing freezes an Endpoint: one fetched before Build takes variants after.
HandleLate(route, raw) ==
    /\ phase = "serving" /\ route \in held /\ Called
    /\ HandleOn(route, raw)

WithdrawLate(route, raw) ==
    /\ phase = "serving" /\ route \in held /\ Called
    /\ WithdrawOn(route, raw)

\* Build: one dispatcher per route, in declaration order.
Build ==
    /\ phase = "wiring"
    /\ phase' = "serving"
    /\ mounted' = mounted \o order
    /\ UNCHANGED <<scheme, match, rv, endpoints, order, held, declared, calls>>

\* A built Registrar refuses every declaration and a second Build.
UseBuilt == phase = "serving" /\ Called /\ Panic

Next ==
    \/ \E l \in Options : AllowLatest(l) \/ AllowPreview(l) \/ Fallback(l)
    \/ StatusHeader \/ WarnUnpinned
    \/ \E r \in Routes : Fetch(r) \/ HandleUnbindable(r)
    \/ \E r \in Routes : \E raw \in Declarable[r] :
          HandleFunc(r, raw) \/ Withdraw(r, raw) \/ HandleLate(r, raw) \/ WithdrawLate(r, raw)
    \/ Build \/ UseBuilt

Spec == Init /\ [][Next]_vars

-----------------------------------------------------------------------------
(* Properties. *)

Versions == {Parse[raw] : raw \in DOMAIN Parse}

\* Every variable keeps its type.
TypeOK ==
    /\ scheme \in Schemes
    /\ phase \in {"wiring", "serving", "panicked"}
    /\ match \in {"compatible", "exact"}
    /\ rv \in [latest : SUBSET Raws, preview : SUBSET Raws, fallback : Raws,
               status : BOOLEAN, warn : BOOLEAN]
    /\ endpoints \in [Routes -> Endpoint \cup {NoEndpoint}]
    /\ order \in Seq(Routes) /\ mounted \in Seq(Routes)
    /\ held \subseteq Routes
    /\ declared \subseteq Routes \X Nat \X {Nil, Handle}
    /\ calls \in Nat

DeclaredOn(r) ==
    {[version |-> d[2], handle |-> d[3]] : d \in {x \in declared : x[1] = r /\ x[2] # Zero}}

\* The reference the sorted list and its search are held to: of a set of
\* declarations, the newest.
NewestOf(S) == CHOOSE x \in S : \A y \in S : y.version <= x.version

\* What of the declared variants may answer the outcome o.
Eligible(r, o) ==
    {x \in DeclaredOn(r) : \/ o.kind = "latest"
                           \/ match = "exact" /\ x.version = o.version
                           \/ match = "compatible" /\ x.version <= o.version}

\* Whatever the order variants and withdrawals were declared in, a pin is
\* answered by the newest declaration the Match rule lets answer it: its
\* handler, which is told that version beside the one asked for, a 410 when it
\* is a withdrawal, a 400 when there is none (endpoint.go, the sorted insert,
\* search and pick).
DispatchesNewest ==
    phase = "serving" =>
        \A r \in Routes, req \in Requests :
            LET o == Resolve(req)
                a == Answer(r, req)
            IN  o.kind \in {"version", "latest"} /\ DeclaredOn(r) # {} =>
                    IF Eligible(r, o) = {} THEN a.code = "version_unsupported"
                    ELSE LET n == NewestOf(Eligible(r, o))
                         IN  /\ a.served = n.version
                             /\ a.code = IF n.handle = Nil THEN "endpoint_withdrawn" ELSE "ok"
                             /\ a.code = "ok" => /\ a.requested = IF a.latest THEN n.version ELSE o.version
                                                 /\ a.latest = (o.kind = "latest")

\* The versions a 400 version_unsupported offers are those of the variants
\* that serve: each one works as a pin as it is spelled, and no variant that
\* serves is left out (unsupported, supported and Format against Parse and
\* pick).
OffersWork ==
    phase = "serving" =>
        \A r \in Routes, req \in Requests :
            LET a == Answer(r, req)
                Served(v) == Pick(endpoints[r].variants, v)
            IN  a.code = "version_unsupported" =>
                    /\ \A raw \in a.offered :
                          raw \in DOMAIN Parse /\ Served(Parse[raw]) = [version |-> Parse[raw], handle |-> Handle]
                    /\ \A v \in Versions : Served(v).handle = Handle => Format(Served(v).version) \in a.offered

\* Registrar.Latest: the newest version declared on any route, withdrawals too.
Latest ==
    LET all == UNION {{x.version : x \in Range(endpoints[r].variants)} : r \in Routes}
    IN  IF all = {} THEN Zero ELSE Max(all)

\* An unpinned client under Fallback(latest) runs against the API-wide latest
\* on every route: it is answered as a client pinned to Registrar.Latest is
\* (registrar.go's claim, under the compatible rule).
FloatsAsPinned ==
    phase = "serving" /\ match = "compatible" =>
        \A r \in Range(mounted), req, pinned \in Requests :
            /\ Resolve(req).kind = "latest"
            /\ Resolve(pinned).kind = "version" /\ Resolve(pinned).version = Latest
            /\ DeclaredOn(r) # {}
            => /\ Answer(r, req).code = Answer(r, pinned).code
               /\ Answer(r, req).served = Answer(r, pinned).served

\* A fallback that means nothing stops the program in wiring, and so no
\* request without a version is ever refused as garbled.
FallbackResolves ==
    \A req \in Requests : Resolve(req).kind = "invalid" => ~Resolve(req).unpinned

\* A pinned client keeps its behaviour as variants land, in whatever order:
\* declaring version v changes the variant of a pin p only when v is not
\* newer than p and no variant between the two already took it.
PinKeepsBehaviour ==
    [][\A r \in Routes : \A p, v \in Versions :
          LET before == endpoints[r].variants
              after == endpoints'[r].variants
              Has(vs) == \E x \in Range(vs) : x.version = v
              between == \E x \in Range(before) : v < x.version /\ x.version <= p
          IN  ~Has(before) /\ Has(after) /\ (p < v \/ between) =>
                  Pick(after, p) = Pick(before, p)]_vars

=============================================================================
