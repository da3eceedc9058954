# TLA+ models of dfl

This directory specifies, model-checks and proves properties of
`github.com/duffleone/dfl`: an event bus with pluggable transports (`events`),
PostgreSQL transactions that ride a context (`db/pgxdb`), and a typed HTTP
router with API versions (`http`). Modelled are the path of an event from the
transaction that emits it to the handler that works it, over each transport; the
transactions themselves; the router from its wiring to its responses, with the
request parser and the error types; and the version resolver and dispatcher.

Run everything from this directory:

    tlc -config SqsWorkerBatch.cfg MCSqsWorker.tla     # a run of the table below
    tlapm SqsWorkerProofs.tla                          # a module of proofs

## The system

| Component | State | Operations | Talks to |
|---|---|---|---|
| Bus (`events/events.go`) | middleware chains, read when `On` is called | `On`, `Use`, `Emit` | one `Sink` |
| MemSink (`events/mem.go`) | handlers by name | `Subscribe`, `Publish` (a goroutine per handler) | handlers, on a ctx without cancellation |
| Dispatcher (`events/dispatcher.go`) | handlers by name, under a lock | `Subscribe`, `Dispatch` | embedded by the SQS and push sinks |
| SQS sink (`events/aws/sqs`) | failures in a row, the Poll of a batch | `Publish`, `Receive`, `ReceiveOnce` | an SQS queue |
| Retry (`events/retry.go`) | attempt, last error | the wrapped handler, `Nack`, `Drop`, `DeadLetter` | handler, timer, ctx, park |
| Transactional outbox (`events/examples/outbox`) | rows of `event_outbox` | `Publish`, `Relay` | PostgreSQL, an inner sink |
| pgxdb (`db/pgxdb`) | the open transaction, on the ctx | `TxCtx`, `TxSerializableCtx`, `GetQuerier` | PostgreSQL, a pool of connections |
| Pub/Sub sinks (`events/gcp/pubsub`) | one handler per event, publishers by topic | `Subscribe`, `Publish`, `Receive`, `ServeHTTP` | Pub/Sub |
| SNS, EventBridge sinks (`events/aws`) | topics by name | `Publish`, `ServeHTTP` | SNS, EventBridge |
| Event endpoint, OpenTelemetry (`events/endpoint.go`, `events/otel`) | none | one call per request or event | the bus |
| Versions (`http/version`) | sorted variants, literals, routes | the resolver's options, `Handle`, `Withdraw`, `Build`, a dispatch per request | the router |
| Router (`http/http.go`, `adapt.go`, `middleware.go`) | middleware slices, prefixes, routes | `Use`, `Group`, `Handle`, `HandleFunc`, a chain per request | a mux, the parser |
| Parser (`http/parser.go`) | a cache of plans by type | `PrepareFor`, `Parse` | the router, concurrent requests |
| Errors (`http/reqerr.go`, `http/cher`, `http/oops`, `events/eventerr.go`) | the reasons and Event of package-level errors | `New`, `With...`, coercers, writers | everything |

How they interact. A service calls `Emit` inside or outside a `TxCtx` block. The
bus hands an envelope to its sink: a queue, or the outbox, which resolves the
block's transaction from the ctx and inserts a row on it. A relay moves committed
rows to the inner sink. `Receive` loops pull from the queue and call `Dispatch`,
which calls every `deliver` callback that `On` subscribed; each runs its
middleware, Retry among it, and the handler, and its error decides between an ack
and another delivery. The other sinks differ in who pulls, who counts and what
they carry. On the HTTP side a request passes the chain its route was registered
with, is bound by its type's plan, and is answered by a response or by an error
that a coercer and a writer shape; a versioned route first resolves the version
and picks the variant.

What is hard here, and what makes each part correct:

- *SQS sink*: a message is worked by goroutines and processes that know nothing
  of each other, under a lease that may run out while it waits in a batch or is
  being handled. It is correct if nothing is deleted that was not worked by all
  its handlers, nothing is worked again without a reason outside the sink, its
  Poll adds up whatever the ctx does, and failures only delay.
- *Outbox*: the publish and its mark are in two systems, and several relays share
  the table. It is correct if nothing unborn is published, nothing published is
  forgotten, two relays never take one row, and a failing pass is tried again.
- *Retry*: the wait happens inside a delivery, against a ctx that may end and a
  lease that may lapse. It is correct if an event is acked only for a reason, and
  the Exhausted action waits its turn.
- *pgxdb*: COMMIT may fail, may conflict, or may succeed with nobody told, and a
  closure may panic with connections in hand. It is correct if a retry never
  repeats committed work, what a call returns is true, and connections come back.
- *The other sinks*: a publish is confirmed by a broker that may have the message
  though the call failed; receivers stop one by one; a handler may be subscribed
  at any time; goroutines of the in-memory sink die with the process. They are
  correct if what `Emit` confirmed reaches every handler it was owed to, with its
  emitter's trace, if a failed handler keeps the message for the whole fan-out,
  and if an error says which event it is of.
- *Versions*: declarations come in any order, some after `Build`. They are correct
  if a pin is served the newest variant its rule allows, keeps it as variants
  land, and if what a refusal offers works.
- *Router*: `append` writes into arrays that slices share. It is correct if a route
  keeps the chain it was registered with, and a request never sees another's
  reasons, binds by the one plan of its type, learns everything that is wrong
  with it at once, and gets a status that says whose fault it was.

`PROJECT.json` lists the hazards one by one at their lines, with the properties
that cover each, or why none does yet.

## The modules

| Module | Models | Composes |
|---|---|---|
| `AtLeastOnce` | what a durable path promises: accept, work, retire, park | |
| `SqsWorker` | `Receive` loops, the queue's leases, `Dispatch` | implements `AtLeastOnce` |
| `Retry` | `events.Retry` in deliveries that overlap, for producers that emit before they write | implements `AtLeastOnce` |
| `OutboxPromise` | what the outbox promises to who reads from the sink behind it: commit, send, lose, mark | |
| `Outbox` | writers under `TxCtx`, relays, the table | implements `OutboxPromise` and `AtLeastOnce` |
| `EventPath` | an event from the outbox over the queue to its handlers | `SqsWorker`, `OutboxPromise`; implements `AtLeastOnce` |
| `Sinks` | the bus over the in-memory, Pub/Sub, SNS and EventBridge sinks, with the trace plugin | implements `AtLeastOnce` |
| `TxPromise` | what a call of `TxCtx` or `TxSerializableCtx` promises: take effect once, answer truthfully, give up late | |
| `PgxTx` | `DB.tx` and `retrySerializable` over one pool | implements `TxPromise` |
| `Versions` | schemes, resolver, endpoints, registrar | |
| `GoSlice` | Go slices and `append`, as far as aliasing goes | |
| `ReqErrors` | the error types, coercers and writers, as operators on error chains | |
| `RequestParser` | what a Req type's fields take of a request, and what is said of the rest | `ReqErrors` |
| `Router` | wiring, and requests in flight | `RequestParser`, `GoSlice` |
| `RouterSuite` | the conformance suite of the repository, as programs and wanted answers | `Router` |
| `MC...` | small instances for TLC | the module of that name |
| `RequestProofs` | theorems about `RequestParser` and `ReqErrors`, pure operators | both |
| `...Proofs` | theorems and proofs | the module of that name; `SqsWorkerProofs` also `EventPath` |

Lines marked "A slip:" define a plausible bug of the action or operator that
follows. Nothing uses them; each breaks a property of a run when it takes the
place of the definition it precedes, which shows that the property has a grip on
the code.

### AtLeastOnce

Four sets: `accepted`, `worked`, `retired`, `parked`. An item is retired only if it
was worked; it may be worked many times, also after it was retired. `Delivered`
is the progress half of the promise. The five implementations map their own
state onto the sets by `INSTANCE AtLeastOnce WITH`.

### SqsWorker

One process per `Receive` goroutine, in one worker process or many; the queue is
external, and modelled by what the sink sees of it: a receive returns visible
messages in any order under new receipts, a lease may run out at any time,
a delete under a current receipt removes the message, one under a stale receipt
may, and a redrive policy parks a message after `MaxReceives`.

| Code | Model |
|---|---|
| `Dispatcher.subs`, `Subscribe` | `subs`, `Subscribe` (also after loops have started) |
| `Receive`: the loop, its failures, backoff and select | `StartReceive`, `failures`, `BackoffElapses`, `BackoffCancelled`, `BatchDone` |
| `ReceiveOnce`: ctx check, receive | `EnterDead`, `Enter`, `PollSucceeds`, `PollFails` |
| its loop over the messages | `got`, `at`, `NextMessage`, `AbandonBatch` |
| `Dispatch`: copy of the handlers, joined errors | `snap`, `pos`, `errs`, `HandlerReturns` (`Collect`) |
| `handle`: failed, handled, deleted on a detached ctx | `DispatchFails`, `DispatchSucceeds`, `DeleteReturns` |
| `Poll` | `poll` |
| the program, the host, the queue | `Publish`, `Shutdown`, `Crash`, `Expire` |

A handler is the whole `deliver` callback, retries included: anything may happen
while it runs, and it returns nil or an error. A poll whose reply is lost leases
messages to nobody (`PollFails` with a non-empty set). `boot`, `ran`, `cleared`,
`settles` and `excused` are history variables that the properties need; no guard
reads them.

### Retry

`write` is the producer's transaction, open when the event is already in the
transport, as the guide to building a service has it. `HandlerSucceeds`,
`HandlerNotFound` and `HandlerFails` are the three outcomes the loop tells apart;
`WaitElapses` and `WaitCancelled` the two branches of `wait`'s select, both
possible on a dead ctx, and only the first after an attempt whose Backoff is 0
(not in `Waits`); `Nack`, `Drop`, `Park` and `ParkFails` the Exhausted actions, by
the policy each event's `On` came with. The transport keeps only what matters
here: a lease may end under a delivery (`Expire`) and another worker start one
beside it. `SqsWorker` has the detail of a transport.

### Outbox

| Code | Model |
|---|---|
| `createUser`'s block: `TxCtx`, `Emit`, commit or rollback | `tx`, `BeginTx`, `Emit`, `CommitTx`, `RollbackTx` |
| `GetQuerier` in `Publish` | `QuerierOf` |
| the `BIGSERIAL` id, drawn at INSERT | `seq`, `id` |
| `relayBatch`: SELECT ... FOR UPDATE SKIP LOCKED | `Waiting`, `Oldest`, `SelectBatch`; the locks are `Locked` |
| its loop: inner `Publish`, then UPDATE | `PublishRow`, `MarkRow`, `moved` |
| its commit, rollback, lost reply | `CommitBatch`, `TxFails`, `CommitReplyLost`, `PublishReplyLost` |
| `drain` and `Relay` | where a batch goes next (`select` after a full one, else `tick`), `Tick`, `RelayReturns`, `Stop` |

A publish of the inner sink may fail, may reach it and be reported failed, or is
refused every time for an event in `Poison`.

`OutboxPromise` says what is left of this for whoever stands behind the inner sink,
with no relays, rows or ids in it: an event is sent only when its row is committed
and not yet marked, sent again only if a transaction that had sent it was lost, and
marked only if sent. `Contract` is the mapping, `RefinesOutboxPromise` the claim.
It implies `RefinesAtLeastOnce` of this module and `NoNeedlessDuplicate`, not
`NoPhantom`: a row written outside its transaction is committed, and sent, whatever
becomes of the transaction.

### EventPath

The deployment that the outbox example describes ("swap MemSink for an SQS or
Pub/Sub sink and nothing above changes"). The worker is `SqsWorker` as it stands,
by EXTENDS; the outbox is taken by its promise.

| Code | Model |
|---|---|
| the commit of `createUser`'s block | `Emitted`, a `Commit` of the promise |
| `relayBatch`'s `s.next.Publish`, the sink's `SendMessage` | `Relayed`: a `Send` of the promise and a `Publish` of the worker, in one step |
| the relay's transaction, committed or lost | `Settled`: `Mark` or `Lose` |
| everything behind the queue | `Consumed`: `SqsWorker`'s `Consume`, its other steps |

An event sent twice is two messages to SQS. `Carries` says which event a message is
of, `Copies(e)` which messages of `e` the queue has taken. The properties are about
events, and none is a property of one half: `HandledOnce` says that an event which
neither the outbox (`lost`) nor the worker (`excused`) has a reason to repeat is
handled once, over all its messages and loops; `NoneLost` that one marked published
was handled, is in the queue, or was parked; `PathRefinesAtLeastOnce` that one whose
row is marked and whose messages are all deleted has passed every handler.

### PgxTx

One process per caller, which makes one call of `TxCtx` or `TxSerializableCtx`.
`BeginTx` waits for a connection of the pool; the closure takes a snapshot, works
and returns nil or an error, panics, or ends its goroutine by `runtime.Goexit`, as
`t.FailNow` does (`FReturns`; only callers in `Exiting` do the last), may swallow a
refused statement (`RefusalSwallowed`), and may call `TxCtx` itself, on a second
connection (`NestBegin`). The deferred function of `tx` finds neither a panic nor an
error after a `Goexit`, and so does not roll back: those connections stay with the
dead goroutine (`Leaked`), and `Spare` says whether enough are left.
`Commit`, `CommitRefused` and `CommitUnanswered` are what COMMIT may do; `Unwind` is the deferred rollback; `Retry` and `Return` are
`retrySerializable`'s decision. PostgreSQL is external: a serializable
transaction may be refused once another committed after its snapshot, and is
refused at COMMIT at the latest. All closures conflict with each other, the
worst case for the retries and the one `examples/serializable` sets up; with one
row they cannot deadlock, so `40P01`, which the loop treats the same, does not
occur.

`TxPromise` is what a caller may rely on, with no attempts, snapshots or connections
in it: the work takes effect as a whole, at one moment between the call and its
answer, or not at all; the answer tells which, unless it is an error of the
connection or the ctx; a conflict is handed out only after more than `MaxRetries`
other calls took effect, or to a dead ctx. `GivesUpLate`, `CommittedOnce` and
`RetriesEnough` are consequences, stated over the detailed state and proved.

### Sinks

The bus and its sinks in one module, `transport` and `coercer` chosen at the start.
An event is good, `invalid` or `unencodable` (`Emit` refuses it) or `alien`: another
producer's, of a schema `deliver` does not decode.

| Code | Model |
|---|---|
| `On`, down to `Subscribe` | `On`, at any time; `PullSink` keeps the last handler only |
| `Emit`: validation, encoding, the publish chain | `EmitRefused`, `EmitStarts`, `PublishReturns`, `PublishFails` |
| `MemSink.Publish` | `PublishMem`, a task per handler; `RunTask` |
| a Pub/Sub publisher's background send, the SNS and EventBridge calls | `Take`, before or after the caller gave up; `Carries` says which headers survive |
| `ServeHTTP`, `PullSink.receive`, `Dispatch` | `Deliver`, `HandlerReturns`, `Ack`, `Nack` over `slot` |
| `deliver`: decode, validate, coerce, stamp, report | `MayReturn`, `Nacks`, `Stamped`, `Reported` |
| `withEvent`, which copies a shared error | `SharedAfter` |
| SNS's confirmation | `Confirm` |
| `PullSink.Receive` | `Receive`, `ReceiverStops`, `ReceiverFails`, `Cancel`, `ReceiveReturns` |
| the broker, the process | `AckLost`, `DeadLetter`, `AlienArrives`, `Crash` |

A trace is the event it began with. `due`, `heard`, `reports`, `worked`, `lost` and a
delivery's `clean` are history.

### Versions

The wiring of a program, one call at a time in any order: `AllowLatest`,
`AllowPreview`, `Fallback`, `StatusHeader` and `WarnUnpinned` configure the resolver;
`HandleFunc`, `HandleUnbindable`, `Withdraw` and `Fetch` declare; `Build` mounts the
dispatchers; `HandleLate` and `WithdrawLate` use an endpoint fetched before, which
nothing freezes. A call that panics ends the program. A request changes nothing,
so what it is answered is an operator, `Answer`: `Resolve` (sources in order, trim,
literals, parse, fallback), then `Dispatch` (preview, `Newest` or `Pick`, a
withdrawal, what a refusal offers). The binary search is taken by its contract,
`At`; that the contract can be met is part of what is proved.

### Router, RequestParser, ReqErrors, GoSlice

`Use`, `Group`, `Handle` and `HandleFunc` act on routers whose middleware are slices
of a heap of arrays (`AppendTo` writes in place while capacity lasts); `Handle`
caches the plan of its type or panics. Then `ListenAndServe`, and requests move in
the steps between which another may come: `Arrive`, `Load`, `LoadOrStore`,
`BindRequest`, `HandlerReturns` or `HandlerDecorates` (which appends reasons to a
package-level error), `WriteResponse`, where the chain, the `Recoverer` in it, the
coercer and the writer make the response of what the handler came to.

An error is the sequence of nodes that `errors.As` walks; a node says, among the rest,
whether its Meta and reasons encode. The three coercers, the
default writer and that of `examples/errorwriter` are operators on it; so are
`EventCoercer` and `asReqError` of the events side. The default writer goes through
`writeJSON` (`WriteJSON`), which buffers: an error that does not encode is `Bare500`.
The comment of `DefaultErrorWriter` ("on the status its StatusCode derives") is about
the others, that of `writeJSON` ("degrades to a bare 500") about these, so
`ErrorsKeepTheirSide` asks of each what its comment says. A Req type is its fields with
their tags and kinds; a request its path and query values and its JSON body by key;
a value is a string or JSON type that a kind takes or not.

`RouterSuite` restates each test of `routertest.go` as a program of the router, a
request and what the test asserts; `SuiteHolds` is that the model answers so. It
ties the model to what the repository itself executes.

## The runs

| Run | Properties | Shows |
|---|---|---|
| `sqs_batch` | `TypeOK`, `NoNeedlessDuplicate`, `PollAccounts`, `NoLoss`, `RefinesAtLeastOnce` | no duplicates without a lapsed lease, a failed delete or a crash before the delete; whatever is deleted has passed every handler subscribed at boot, in one delivery; the Poll adds up at every moment |
| `sqs_live` | `EveryMessageWorked`, `ShutdownReturns` | failures and crashes only delay; a cancelled loop returns |
| `retry` | `SpentBeforeExhausted`, `RefinesAtLeastOnce`, `LateWriteIsWorked` | no ack without work, a parked copy or a Drop; Exhausted only after the last attempt; an event whose row lands late is worked in the end |
| `retry_last_attempt` | `ExhaustedMeansNoWrite` (violated) | attempts may run out on a row that lands later |
| `outbox` | `NoPhantom`, `NoNeedlessDuplicate`, `RefinesOutboxPromise`, `OnlyPoisonHoldsUp`, `StopReturns` | nothing published from a rolled back block, none twice without a lost transaction, none marked unpublished; only a row that is always refused holds up others; a stopped relay returns |
| `outbox_emit_order` | `EmitOrder` (violated) | one relay may publish out of emit order |
| `event_path` | `NoPhantomHandled`, `HandledOnce`, `PathRefinesAtLeastOnce`, `EventGetsThere` | handlers run for committed events only; an event is handled twice only if one of the two halves excuses it; none is done with before it was worked; every committed one is worked or parked |
| `pgx` | `TypeOK`, `ConnsReturned`, `SomeoneGivesBack`, `RefinesTxPromise`, `CallsReturn` | a conflict is handed out only after more than MaxRetries other commits; work is committed at most once and the answer says so; connections come back but for those of a goroutine that ended; while there are connections to spare not everyone waits, and every call returns |
| `versions` | `DispatchesNewest`, `OffersWork`, `FloatsAsPinned`, `FallbackResolves`, `PinKeepsBehaviour` | every program answers every request as its set of declarations says, whatever their order |
| `router` | `RouteKeepsItsChain`, `ReasonsAreOwn`, `OneBinder`, `EveryBadInputNamed`, `ErrorsKeepTheirSide`, `SuiteHolds` | chains, plans and shared errors survive any order of wiring and any overlap of requests; the repository's own suite holds of the model |
| `sinks` | `TraceContinues`, `ErrorsNameTheirEvent`, `RefinesAtLeastOnce`, `EventFires`, `CancelledReceiveReturns` | what `Emit` confirmed fires at every handler it was owed to, traced; a failed handler keeps the message |
| `sinks_eventbridge` | `TraceContinues` (violated) | EventBridge drops the headers, so its handlers start traces of their own |

The three violated properties are sentences of the repository that the code does
not keep: `outbox.go:81-82` ("ORDER BY id keeps one relay in emit order": ids are
drawn at INSERT, rows seen at COMMIT),
`docs/building-a-service.md:280-283` ("after the last attempt, the write didn't
just lag, it didn't happen": nothing ties the waits to the transaction), and
`otel.go:5-6` ("Propagation needs the sink to carry Envelope.Headers, which MemSink
and the cloud adapters all do": EventBridge's does not). Each is quoted in full
under "findings".

Other places where the code does less than a reader may expect, seen while
modelling; the models have what the code does:

- "After commit the relay will get to it" (`outbox.go:49-51`) unless the inner sink
  always refuses a row before it: that row's error rolls back the batch and ends
  the pass, at every tick. `OnlyPoisonHoldsUp` is what is left of the sentence.
- `PullSink.Receive` "blocks until ctx is cancelled", but returns nil as soon as
  every receiver has stopped on its own error (`ReceiveReturns`), and until then
  goes on with those that are left.
- A second `On` for one event over `PullSink` replaces the first handler (`On`).
- Under a coercer that makes nil of an error, `Emit` returns nil for an event that
  was not published (`Failed`); `EventFires` is of the default one.
- A path or query value that does not fit a narrow integer is cut down and not
  named among the bad inputs (`Stored`: 300 in a `uint8` is 44).
- A withdrawal under the exact rule answers only pins to the very version with a
  410, and the pins between with a 400 (`Pick`).

Bounds, and why they are enough:

- `sqs_batch`: two loops, two messages, two handlers, batches of up to two, two
  receives per message. Two loops and two receives are what it takes for a stale
  receipt beside a fresh one; two messages make a batch in whose middle a ctx can
  end or a lease lapse; one handler may fail and the other pass, differently in
  each delivery, and either may be subscribed late. Failed polls and crashes are
  in `sqs_live`, where they bite (`MaxFailures`, `MaxCrashes` 0 here: polls fail on a
  dead ctx only).
- `sqs_live`: one message and handler, every kind of failure once; a bound on
  polls failing in a row rather than in all, so failing never ends.
- `retry`: two workers, two events under different policies, two attempts with a
  wait between them, one fault: the workers overlap on one event under an expired
  lease, and a handler, a park or a worker may fail.
  `retry_last_attempt` needs one event and no faults, with the three attempts of
  the zero policy.
- `outbox`: two events, one of them poison, two relays, batches of two, three
  faults: a batch that is full, one that is not, and a relay that skips what
  another holds. The violation needs one relay and two events.
- `event_path`: one event and two messages of it, so that the outbox may send it
  twice; two loops, two receives per message, one handler subscribed at any time.
  The first message may be handled, deleted, redelivered or parked before, while
  and after the second is. Failed polls, crashes, shutdowns, batches and fan-outs
  are in the worker's own runs: what they do to an event is no more than what they
  do to its messages, and the theorems have them all.
- `pgx`: two serializable callers with one retry and a caller that nests, on three
  connections, two faults, one caller whose ctx may end and whose closure may end
  its goroutine: a caller may lose to each of the other commits and give up, and
  all may want a connection at once. The third connection is there to be lost: with
  two, one `Goexit` leaves the nesting caller waiting on itself, `Spare` is false
  from there on, and the properties have nothing more to say.
- `versions`: three counted versions, one with two spellings, and two dates; two
  routes; blank, padded, signed and garbled strings; programs of five calls under
  the sequential scheme, four under dates, three under a parse function. Four
  declarations in any order make every list and every gap a pin can fall in, and
  a fifth call configures the resolver or comes after `Build`.
- `router`: families of programs, each deep in one thing. Seven calls with one
  group, six with three (an array that doubled has spare slots after the third
  `Use`, and a group must be made and used beside it); one request over every
  chain of two middleware, twenty-four errors, three coercers and two writers; one
  request with each of eighty inputs against six types (one names a key twice) and
  three parsers; two requests at once through the cache and a shared error; and the
  suite.
- `sinks`: a good event with two handlers, a refused one and an alien one, four
  transports, two coercers, one delivery at a time, two deliveries and one fault:
  a crash, a lost ack, a failed publish, a failed handler or a failed receiver,
  each before and after every other step. Deliveries that overlap are in the
  proofs, for any number of slots.

Counters are bounded by `MaxReceives`, `MaxFailures`, `MaxCrashes`, `MaxFaults` and
`MaxRetries`, `MaxCalls`, `MaxDeliveries` and a program's `calls` alone; no run uses
a state constraint. Deadlock is not checked in `versions`, `router` and `sinks`,
where a program has made its calls, a request is answered and a broker is empty.
It is in the others: `w2` of SqsWorker, both loops of `EventPath` and the second relay
never stop, a worker of `Retry`
may always find its transport empty, and in `PgxTx` the only
state without a successor of its own is the one where every call has returned. A
pool of one connection makes TLC report the deadlock of a nested `TxCtx` at once;
`SomeoneGivesBack` and `CallsReturn` are claimed while fewer callers nest than there
are connections left (`Spare`), the least that any program can rely on.

`TypeOK` of `Outbox`, `Retry`, `Router`, `Sinks` and `Versions` is in no run: it is a
theorem of each. So are `NoneLost` of `EventPath`, `RefinesAtLeastOnce` of `Outbox`,
and `GivesUpLate`, `CommittedOnce` and `RetriesEnough` of `PgxTx`, which follow from a
refinement that a run does check.

### Fairness

Safety is checked of `Spec`, which has none. `LiveSpec` assumes:

- *SqsWorker*: weak fairness of each loop's own steps (handlers return, calls to
  the queue come back, timers fire), of its (re)start, and of each lease running
  out; strong fairness of a poll that gets a given visible message, as the queue
  neither fails every poll nor hides a message from every receive. `w1` may be
  cancelled, `w2` goes on.
- *EventPath*: the worker's, and weak fairness of a relay sending a committed event
  for the first time. That is a consequence of the fairness of relays as long as
  the sink refuses no row before it for good, which is `OnlyPoisonHoldsUp` of `Outbox`.
  Nothing is assumed of marks: every transaction after the send may be lost.
- *Retry*: weak fairness of each delivery's own steps and of leases; strong
  fairness of an event being received while it is visible time and again, the
  same assumption a level up. Nothing is assumed of the producer's commit.
- *Outbox*: weak fairness of each relay's steps, its restart included; strong
  fairness of `RelayReturns`, for Go's `select` picks at random between a ready
  ticker and a dead ctx and does not pick the ticker for ever. Nothing is assumed
  of writers: a transaction may stay open for good.
- *Sinks*: weak fairness of goroutines, of the broker taking, delivering and giving
  up on messages, of answers, of the program calling `Receive` and confirming its
  subscription, and of a receiver stopping once the ctx is cancelled. None of
  handlers succeeding, of `On`, of a cancellation or of a fault. Weak fairness is
  enough as each stays possible until it is done.
- *PgxTx*: weak fairness of each caller's steps, which makes the pool hand a free
  connection to somebody who waits. Calls and retries are finite in number, so
  nobody is overtaken for ever. A closure that ends its goroutine is not assumed
  to give anything back.

## What is proved

TLAPS checks the proofs in `SqsWorkerProofs`, `RetryProofs`, `OutboxProofs`,
`PgxTxProofs`, `SinksProofs`, `VersionsProofs`, `RequestProofs` and `RouterProofs` for
all values of the constants under the assumptions their modules name: sets of any
size (finite ones for `PgxTx`'s callers, which it counts, and for the keys of a
request's body), batches of at least one, bounds in `Nat`.

Each has one inductive invariant `IInv`, of which the properties are consequences:

- *SqsWorker*. `NoNeedlessDuplicate` alone is not inductive: one must know that a
  delivery in hand either is under its lease or has its message excused
  (`HeldCurrent`), that no delivery is in two hands (`HeldApart`), and that a message
  worked and not excused is deleted or about to be by the one loop that holds it
  freshly (`SettledGone`). `NoLoss` needs `Passing`: the snapshot `Dispatch` took
  contains every boot handler, and while no error is kept every handler behind
  `pos` has passed. `PollAccounts` needs `Locals` and `Counts`: where a loop is, and
  what its batch and Poll then hold; `Receipts` keeps the receipts typed.
  From these: `TypeCorrect`, `NoLossEver`, `DuplicatesExcused`, `PollAddsUp`, and
  `ImplementsAtLeastOnce`, where the delete refines `Retire` because of `Passing`.
- *EventPath*, in `SqsWorkerProofs` too, since a theorem of an instanced module cannot
  be cited and the worker's are needed here. A step of the path is a step of the
  worker, or leaves it alone: `PathRunsWorker` is `PathSpec => Spec`, so `IInv` holds
  on the path. To it comes `Handed`, what the table and the queue know of each
  other: what the queue holds was sent; what was sent is committed and has a
  message; an event that was not sent again has one message only; marked events
  were sent, and an event sent twice was lost. None of the properties is
  inductive without it: `HandledOnce` is about all messages of an event, and but for
  the single message of an event not sent again, two messages that were each
  handled once would make an event that was handled twice.
  From `IInv` and `Handed` (`PathInductive`):
  `NoPhantomHandledEver`, `NoneLostEver`, `HandledOnceEver`, and
  `PathImplementsAtLeastOnce`, where a step of the worker that retires, parks or
  works a message does the same to its event or stutters: a deleted message retires its
  event only if the row is marked and no other message is left.
- *Retry*. `LooksAdd` relates the loop's counter to the handler's runs, `AckHasReason`
  says why an ack is due. From these `TypeCorrect`, `SpentBeforeExhaustedEver` and
  `ImplementsAtLeastOnce`: `Ack` is a `Retire` unless the event was given up before.
- *Outbox*. `RowsApart` (the rows of two open relay transactions are disjoint,
  committed and not marked), `Progress` (how far through its rows a relay is),
  `RowWithTx` (a row is visible exactly when its transaction let it) and
  `SentAccounted` (what was sent is marked, excused, or in the hands of the relay
  that sent it) make `NoNeedlessDuplicate` inductive. From these `TypeCorrect`,
  `NoPhantomEver`, `DuplicatesExcused`, `ImplementsAtLeastOnce` and
  `ImplementsOutboxPromise`: a publish is a `Send` because the row is in the hands of
  one relay (`RowsApart`), unmarked, and was sent before only by a transaction that
  has been lost (`SentAccounted`); writers map to `Commit` or to nothing
  (`WriterAccepts`). `EventPath` stands on this theorem and no other of `Outbox`.
- *PgxTx*. `Losses` is the counting argument: an attempt's snapshot holds at least as
  many commits as the caller has lost attempts, and a lost attempt has seen one
  more. `Work` ties what is committed to where the call is, `Conns` the connections,
  those that a dead goroutine keeps among them.
  From these `TypeCorrect`, `GivesUpLateEver`, `CommittedOnceEver`,
  `ConnsReturnedEver`, `SomeoneGivesBackEver` (a pool of which nested calls hold every
  connection would need as many nesting callers as are left),
  `ImplementsTxPromise` (the COMMIT is the step at which a call takes effect, the
  return the step at which it is answered, and all others stutter), and
  `RetriesAreEnough`: with four attempts, four workers
  that conflict all get through, which is why the count of `examples/serializable`
  "equals the worker count", and might not with a fifth.

- *Sinks*. `TraceCarried` follows the headers from `Take` to `Deliver` to a handler;
  `AnswersForAll` says that a delivery is of an event the broker has not given up
  on, fails exactly when one of its handlers did, and has been worked when it is
  to be acked; `ErrorsUntouched` that no shared error is stamped. From these
  `TypeCorrect`, `TraceContinuesEver` (over every transport but EventBridge, where
  TLC refutes it), `ErrorsNameTheirEventEver` and `ImplementsAtLeastOnce`.
- *Versions*. A list of variants is `Sorted` and `Searchable` (every version has a
  place in it), has the declarations of its route and no others; `FallbackMeans`
  says what a fallback was checked for. That a place exists for every version
  would be an induction over the list, which these provers cannot do; as an
  invariant of insertions it needs none. From these `DispatchesNewestEver`,
  `OffersWorkEver`, `FloatsAsPinnedEver`, `FallbackResolvesEver`,
  `PinKeepsBehaviourEver` and `TypeCorrect`: the sorted list answers as the set of
  declarations does, for any number of versions, routes and calls.
- *Requests* (`RequestProofs`) are about operators, of any arguments. What a
  recursive function over a sequence keeps is an induction, and the library's
  induction theorems cannot be instantiated here; `UpTo` and `SeqInduction` are
  those inductions over a set instead of a predicate, from the minimum of a
  non-empty set of naturals (`Least`). By them `Only`, the selection that the
  parser's loops make, keeps exactly the elements it should, in order
  (`OnlyPicks`, `OnlyRange`); so `BindNamesEveryBadInput`: `bind` either refuses the
  body as a whole or names each bad input of path, query and body, once, and
  nothing else. `WritersKeepTheSide`: whatever the chain of errors, the coercers and
  writers answer with the ReqError in it (`Served`: the default writer sends one
  that does not encode as a 500 without a body), or a 5xx when nobody wrote an error
  for the caller.
- *Router*. Three invariants, the later over the earlier.
  `SlicesApart`: every slice ends where its array does, and no two routers nor a
  router and the shared error have an array in common; `Planned`: whoever binds has
  the plan that is cached. The lemmas `Appended` and `AppendedElements` say what
  `append` does to such a heap. From these `TypeCorrect`, `OneBinderEver`, and
  `GroupsDoNotAlias`: what is done to one router shows in no other.
  `Lineage` says where a router's middleware come from: those of its parent as of
  the call that made it, and those named on it since (`RoutersKeep`); a route has its
  router's as of its registration, and its own (`RoutesKeep`). It is stated over
  every function that solves the recursion (`Starts`) and that there is one, since
  what `CHOOSE` picks is only known to be one of them; a `Group` extends a solution
  by the new router, and no later call changes one (`WiresOn`, `WiresGroup`). From it
  `RoutesKeepTheirChains`.
  `Wired` and `Serving` follow the requests: middleware are of the kinds there are,
  the shared error keeps its three reasons, and a request holds at each place what
  its route, its input and its handler make of it; an error made from the shared
  one has an array of its own from the moment it is made (`Own`). With the lemmas
  on `Unwind` (`Passes`, `Recovers`, `Refuses`: what a chain does to an outcome, by
  induction over the chain) and those of `RequestProofs`, `ReasonsStayOwn`,
  `EveryInputNamed` and `SidesKept` follow.

So every invariant, action property and refinement of the passing runs is a
theorem, but one. Only model-checked are what is under fairness
(`EveryMessageWorked`, `ShutdownReturns`, `EventGetsThere`, `LateWriteIsWorked`,
`OnlyPoisonHoldsUp`, `StopReturns`, `CallsReturn`, `EventFires`,
`CancelledReceiveReturns`), since liveness is beyond the installed provers, and
`SuiteHolds`, which is about the fixed programs of `RouterSuite`: to run them is the
way to check it. The violations are TLC's too. `EventGetsThere` rests on
`OnlyPoisonHoldsUp` by its fairness, and that step is an argument, not a proof.

## What is not modelled, and why

- Bus: the middleware chains of `Use` and of plugins. `On` and `Emit` compose them as
  the router does, with no slice that outlives the call; `Router` has the model of
  that. Codecs, validators and loggers are what may fail inside `Emit` and `deliver`.
- In-memory sink: the transaction that an emitter's ctx carries into a handler's
  goroutine, which outlives it. Neither `mem.go` nor `pgxdb` says what a handler
  may do with it, so there is no promise to hold the code to; it is on the list
  of hazards.
- Push sinks: signatures and the encodings of envelopes; only whether the headers
  survive is kept. Names are model values, so two names that one transport's
  encoding maps to one (`pathSafe`) do not meet.
- Spans and their attributes: state of OpenTelemetry, not of the program.
- Router: request metadata, the access log, `NotFound` and `MethodNotAllowed`, which
  are one handler each on the mux and hold no state. The mux is external.
- Event endpoint: but for its errors, one `Emit` per request.
- `bustest.go`: twelve sequential tests over the in-memory sink; what they wait for
  is what the properties of `Sinks` say of every interleaving. `routertest.go` is
  modelled, in `RouterSuite`.
- Row scanners and constraint sentinels of pgxdb: pure, one lookup each.
- Times: a lease, a backoff or a ticker fires at any moment. What depends on
  durations, such as the sum of the waits against a visibility timeout, shows as
  the lease that lapses under a delivery.
- Encoding errors: that a Meta or a reason does not encode is a flag of the error a
  handler comes up with. The reasons that `bind` and `HandlerDecorates` add are
  strings, which do. `examples/errorwriter` takes only the strings of a Meta, so what
  it writes encodes.
- Two more hazards on the list have no property because the code does them and says
  nothing to the contrary. `Dispatch` acks an event no handler is registered for
  (`dispatcher.go:51`): `NoLoss` is about the handlers that were subscribed at boot.
  `Retry` may park or drop an event that another delivery has worked since the last
  look (`retry.go:169`): in the refinement of `AtLeastOnce` an event that was worked
  stays worked (`GivenUp \ retired`), so that step is a stutter.
- The transport under `Retry` is the abstract one: batches, receipts and failed
  deletes are in `SqsWorker`, whose handlers may fail or pass as they like and so
  include retried ones.

## Plan

Done: the components of the table above, their compositions along the path of an
event, and the theorems. What would come next:

1. An abstract dispatcher, a set of declarations per route, that `Versions`
   implements. Its five properties already say so answer by answer, and are proved.
2. `EventPath` over the Pub/Sub sinks of `Sinks`, whose confirmations and traces
   differ from the queue's.
3. The in-memory sink under `TxCtx`, once the repository says what a handler may
   expect of the ctx it gets.
