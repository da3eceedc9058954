------------------------------- MODULE Sinks --------------------------------
(***************************************************************************)
(* The event bus over each of its other transports (events/events.go,      *)
(* mem.go, dispatcher.go, otel/otel.go, gcp/pubsub, aws/sns and            *)
(* aws/eventbridge): Emit validates, encodes, injects the trace and        *)
(* publishes; the sink delivers to the handlers On subscribed, each of     *)
(* which extracts, decodes, validates and runs; the sink acks what all of  *)
(* them took.  The SQS sink has a module of its own, SqsWorker.            *)
(***************************************************************************)
EXTENDS Integers, Sequences, FiniteSets, SequencesExt

CONSTANTS
    Items,          \* events
    NameOf,         \* [Items -> Names]
    KindOf,         \* [Items -> {"good", "invalid", "unencodable", "alien"}]
    Names,          \* event names
    Handlers,       \* On registrations
    OnName,         \* [Handlers -> Names]
    Transports,     \* what a program may be built on
    Coercers,       \* "default", or "lenient": one that coerces errors to nil
    Topics,         \* names an SNS publisher has a topic for
    Slots,          \* concurrent deliveries of a broker
    MaxDeliveries,  \* bound: deliveries of an event before it is parked
    MaxFaults       \* bound: failed calls, lost replies, crashes

ASSUME SinksAssumption ==
    /\ NameOf \in [Items -> Names] /\ OnName \in [Handlers -> Names]
    /\ KindOf \in [Items -> {"good", "invalid", "unencodable", "alien"}]
    /\ Transports \subseteq {"mem", "pull", "gcp_push", "sns", "eventbridge"}
    /\ MaxDeliveries \in Nat /\ MaxFaults \in Nat

VARIABLES
    transport,  \* the sink the bus wraps
    coercer,    \* the bus's Coercer
    subs,       \* the sink's handlers by event name, in order
    registered, \* the On calls made
    emit,       \* how each event's Emit stands
    broker,     \* how each event stands at the broker: its state, the headers
                \* it carries and how often it was delivered
    tasks,      \* MemSink's goroutines, <<event, handler>>
    slot,       \* the broker's deliveries under way (clean is history: no handler
                \* of it has failed)
    receivers,  \* PullSink: the handler each event's receiver was started with
    receive,    \* PullSink.Receive: "off", "on", "cancelled" or "returned"
    confirmed,  \* SNS has the subscription confirmed
    shared,     \* the Event of a package-level EventError, which whatever fails
                \* returns, NoEvent to begin with
    faults,     \* faults so far
    due,        \* history: the handlers an event is owed to as Emit begins
    heard,      \* history: <<event, handler, headers>> of every handler run
    reports,    \* history: <<event, the event its error names>> of every error that
                \* reached the ErrorHandler or Emit's caller
    worked,     \* history: events a delivery carried through every handler
    lost        \* history: goroutines that died with the process

vars == <<transport, coercer, subs, registered, emit, broker, tasks, slot, receivers, receive, confirmed,
          shared, faults, due, heard, reports, worked, lost>>

host == <<transport, coercer>>
handling == <<subs, registered>>
pulls == <<receivers, receive>>
errors == <<shared, reports>>

NoTrace == "no headers"
NoEvent == "no event"
Idle == [item |-> "idle"]
NotRunning == "not running"

Init ==
    /\ transport \in Transports /\ coercer \in Coercers
    /\ subs = [n \in Names |-> <<>>] /\ registered = {}
    /\ emit = [m \in Items |-> "new"]
    /\ broker = [m \in Items |-> [state |-> "none", headers |-> NoTrace, deliveries |-> 0]]
    /\ tasks = {} /\ slot = [d \in Slots |-> Idle]
    /\ receivers = [n \in Names |-> NotRunning] /\ receive = "off"
    /\ confirmed = (transport # "sns")
    /\ shared = NoEvent /\ reports = {}
    /\ faults = 0
    /\ due = [m \in Items |-> {}] /\ heard = {} /\ worked = {} /\ lost = {}

Fault == faults < MaxFaults /\ faults' = faults + 1

StampedInPlace(m) == IF shared = NoEvent THEN NameOf[m] ELSE shared  \* A slip: no copy

\* withEvent: the error is copied before it is stamped, and one that names an
\* event already is left alone.
SharedAfter(m) == shared
Stamped(m) == IF shared = NoEvent THEN NameOf[m] ELSE shared

\* An error is coerced, stamped and handed over, unless the coercer has none.
Reported(m, failed) ==
    IF failed /\ coercer # "lenient"
    THEN reports' = reports \cup {<<m, Stamped(m)>>} /\ shared' = SharedAfter(m)
    ELSE UNCHANGED errors

-----------------------------------------------------------------------------
(* Registration. *)

\* On, down to the sink's Subscribe.  PullSink keeps one handler per event,
\* the last; the others append.
On(h) ==
    /\ h \notin registered /\ registered' = registered \cup {h}
    /\ subs' = [subs EXCEPT ![OnName[h]] = IF transport = "pull" THEN <<h>> ELSE Append(@, h)]
    /\ UNCHANGED <<errors, host, emit, broker, tasks, slot, pulls, confirmed, faults, due, heard, worked, lost>>

-----------------------------------------------------------------------------
(* Emit. *)

EmitMoves(m, from, to) ==
    /\ emit[m] = from /\ emit' = [emit EXCEPT ![m] = to]
    /\ Reported(m, to \notin {"publishing", "ok"})
    /\ UNCHANGED <<host, handling, slot, pulls, confirmed, heard, worked, lost>>

\* coerce: an Emit that failed returns its error, unless the coercer has none.
Failed == IF coercer = "lenient" THEN "ok" ELSE "failed"

\* Validation and encoding refuse before anything is published, and an SNS
\* publisher has no topic for some names.
Refused(m) ==
    \/ KindOf[m] \in {"invalid", "unencodable"}
    \/ transport = "sns" /\ NameOf[m] \notin Topics

EmitRefused(m) ==
    /\ Refused(m) /\ EmitMoves(m, "new", Failed)
    /\ UNCHANGED <<broker, tasks, faults, due>>

\* Whom a delivery would reach now: Receive's receivers run what they were
\* started with.
Owed(n) == IF receive = "off" THEN Range(subs[n]) ELSE {receivers[n]} \ {NotRunning}

\* The publish chain runs: the otel plugin injects the event's trace.
EmitStarts(m) ==
    /\ KindOf[m] = "good" /\ ~Refused(m) /\ EmitMoves(m, "new", "publishing")
    /\ due' = [due EXCEPT ![m] = Owed(NameOf[m])]
    /\ UNCHANGED <<broker, tasks, faults>>

\* MemSink.Publish: a goroutine per subscriber as of now.
PublishMem(m) ==
    /\ transport = "mem" /\ EmitMoves(m, "publishing", "ok")
    /\ tasks' = tasks \cup {<<m, h>> : h \in Range(subs[NameOf[m]])}
    /\ UNCHANGED <<broker, faults, due>>

\* What of the envelope's headers the transport carries: all of them as a
\* message attribute, but EventBridge's entry has none.
CarriesOverPubSub(headers) == IF transport = "pull" THEN headers ELSE NoTrace  \* A slip: the push side forgets
Carries(headers) == IF transport = "eventbridge" THEN NoTrace ELSE headers

\* The broker takes the message.  A Pub/Sub publisher sends in the background
\* and may do so when the caller has stopped waiting.
Take(m) ==
    /\ transport # "mem" /\ KindOf[m] = "good" /\ ~Refused(m)
    /\ \/ emit[m] = "publishing"
       \/ transport \in {"pull", "gcp_push"} /\ emit[m] = Failed
    /\ broker[m].state = "none"
    /\ broker' = [broker EXCEPT ![m] = [@ EXCEPT !.state = "queued", !.headers = Carries(m)]]
    /\ UNCHANGED <<errors, host, handling, emit, tasks, slot, pulls, confirmed, faults, due, heard, worked, lost>>

\* Another producer's message, of a schema this program does not know.
AlienArrives(m) ==
    /\ transport # "mem" /\ KindOf[m] = "alien" /\ broker[m].state = "none"
    /\ broker' = [broker EXCEPT ![m].state = "queued"]
    /\ UNCHANGED <<errors, host, handling, emit, tasks, slot, pulls, confirmed, faults, due, heard, worked, lost>>

\* A slip: the publisher's result is never waited for
PublishReturnsUnacked(m) ==
    /\ transport # "mem" /\ EmitMoves(m, "publishing", "ok")
    /\ UNCHANGED <<broker, tasks, faults, due>>

PublishReturns(m) ==
    /\ broker[m].state # "none" /\ EmitMoves(m, "publishing", "ok")
    /\ UNCHANGED <<broker, tasks, faults, due>>

\* The call fails, an entry is refused, the reply is lost or the ctx ends:
\* the broker may have the message or not.
PublishFails(m) ==
    /\ transport # "mem" /\ Fault /\ EmitMoves(m, "publishing", Failed)
    /\ UNCHANGED <<broker, tasks, due>>

-----------------------------------------------------------------------------
(* One handler on one event: On's deliver. *)

\* Decoding and validation fail on an event of another schema; else the
\* handler succeeds or fails.
MayReturn(m, ok) ==
    \/ ok = (KindOf[m] # "alien")
    \/ ~ok /\ faults < MaxFaults

Faults(m, ok) == faults' = IF ok \/ KindOf[m] = "alien" THEN faults ELSE faults + 1

\* A coercer that makes nothing of the error makes deliver return nil.
Nacks(ok) == ~ok /\ coercer # "lenient"

Heard(m, h, headers) == heard' = heard \cup {<<m, h, headers>>}

\* A MemSink goroutine: its ctx outlives the emitter's, its error is dropped.
RunTask(m, h, ok) ==
    /\ <<m, h>> \in tasks /\ MayReturn(m, ok) /\ Faults(m, ok)
    /\ tasks' = tasks \ {<<m, h>>}
    /\ Heard(m, h, m) /\ Reported(m, ~ok)
    /\ UNCHANGED <<host, handling, emit, broker, slot, pulls, confirmed, due, worked, lost>>

-----------------------------------------------------------------------------
(* Delivery by a broker, at least once and maybe more than once at a time. *)

\* Who a message goes to: PullSink's receiver runs the handler it was started
\* with, the push sinks' Dispatch every handler subscribed as of now.
Audience(n) == IF transport = "pull" THEN <<receivers[n]>> ELSE subs[n]

Reachable(n) == IF transport = "pull" THEN receivers[n] # NotRunning ELSE confirmed

\* Whether the last handler just returned and every one was content.
Works(rest, clean) == rest = <<>> /\ clean

Deliver(m, d) ==
    /\ broker[m].state = "queued" /\ broker[m].deliveries < MaxDeliveries
    /\ slot[d] = Idle /\ Reachable(NameOf[m])
    /\ broker' = [broker EXCEPT ![m].deliveries = @ + 1]
    /\ slot' = [slot EXCEPT ![d] = [item |-> m, rest |-> Audience(NameOf[m]), failed |-> FALSE,
                                    headers |-> broker[m].headers, clean |-> TRUE]]
    /\ worked' = IF Works(Audience(NameOf[m]), TRUE) THEN worked \cup {m} ELSE worked
    /\ UNCHANGED <<errors, host, handling, emit, tasks, pulls, confirmed, faults, due, heard, lost>>

Delivering(d) == slot[d] # Idle

\* Dispatch joins the handlers' errors.
FailedLast(failed, ok) == Nacks(ok)  \* A slip: the last handler's error is the delivery's
FailedSoFar(failed, ok) == failed \/ Nacks(ok)

Onward(s, ok) ==
    [s EXCEPT !.rest = Tail(s.rest), !.failed = FailedSoFar(s.failed, ok), !.clean = s.clean /\ ~Nacks(ok)]

\* Dispatch: the next handler; an error is kept and the rest still run.
HandlerReturns(d, ok) ==
    /\ Delivering(d) /\ slot[d].rest # <<>>
    /\ MayReturn(slot[d].item, ok) /\ Faults(slot[d].item, ok)
    /\ slot' = [slot EXCEPT ![d] = Onward(@, ok)]
    /\ Heard(slot[d].item, Head(slot[d].rest), slot[d].headers)
    /\ Reported(slot[d].item, ~ok)
    /\ worked' = IF Works(slot'[d].rest, slot'[d].clean) THEN worked \cup {slot[d].item} ELSE worked
    /\ UNCHANGED <<host, handling, emit, broker, tasks, pulls, confirmed, due, lost>>

Answered(d) ==
    /\ Delivering(d) /\ slot[d].rest = <<>>
    /\ slot' = [slot EXCEPT ![d] = Idle]
    /\ UNCHANGED <<errors, host, handling, emit, tasks, pulls, confirmed, due, heard, worked, lost>>

\* Ack, or a 2xx, that reaches the broker.
Ack(d) ==
    /\ Answered(d) /\ ~slot[d].failed
    /\ broker' = [broker EXCEPT ![slot[d].item].state = "acked"]
    /\ UNCHANGED faults

\* Nack, or a 500: the broker keeps the message.
Nack(d) == Answered(d) /\ slot[d].failed /\ UNCHANGED <<broker, faults>>

AckLost(d) == Answered(d) /\ ~slot[d].failed /\ Fault /\ UNCHANGED broker

\* The broker's own policy gives up on a message nobody has in hand.
DeadLetter(m) ==
    /\ broker[m].state = "queued" /\ broker[m].deliveries = MaxDeliveries
    /\ \A d \in Slots : Delivering(d) => slot[d].item # m
    /\ broker' = [broker EXCEPT ![m].state = "parked"]
    /\ UNCHANGED <<errors, host, handling, emit, tasks, slot, pulls, confirmed, faults, due, heard, worked, lost>>

\* SNS's handshake: confirmed by the sink's fetch or out of band; a fetch that
\* fails is a 502 and SNS asks again.
Confirm ==
    /\ ~confirmed /\ confirmed' = TRUE
    /\ UNCHANGED <<errors, host, handling, emit, broker, tasks, slot, pulls, faults, due, heard, worked, lost>>

-----------------------------------------------------------------------------
(* PullSink.Receive. *)

PullMoves == UNCHANGED <<errors, host, handling, emit, broker, tasks, slot, confirmed, due, heard, worked, lost>>

\* The handler a name's receiver is started with, if it has one.
Started(n) == IF subs[n] = <<>> THEN NotRunning ELSE subs[n][1]

\* A receiver for every event with a handler, as of now.
Receive ==
    /\ transport = "pull" /\ receive = "off"
    /\ receive' = "on"
    /\ receivers' = [n \in Names |-> Started(n)]
    /\ PullMoves /\ UNCHANGED faults

\* A streaming pull ends once its callbacks have: on a cancelled ctx, or on an
\* error, which is logged and not retried.
Stop(n) ==
    /\ receivers[n] # NotRunning
    /\ \A d \in Slots : Delivering(d) => NameOf[slot[d].item] # n
    /\ receivers' = [receivers EXCEPT ![n] = NotRunning]
    /\ PullMoves /\ UNCHANGED receive

\* A slip: the pulls run on a background ctx, which only an error ends
ReceiverStopsOnError(n) == receive = "cancelled" /\ Fault /\ Stop(n)
ReceiverStops(n) == receive = "cancelled" /\ Stop(n) /\ UNCHANGED faults
ReceiverFails(n) == receive = "on" /\ Fault /\ Stop(n)

Cancel ==
    /\ receive = "on" /\ receive' = "cancelled"
    /\ PullMoves /\ UNCHANGED <<receivers, faults>>

\* Receive returns when its receivers have, whatever stopped them.
ReceiveReturns ==
    /\ receive \in {"on", "cancelled"} /\ \A n \in Names : receivers[n] = NotRunning
    /\ receive' = "returned"
    /\ PullMoves /\ UNCHANGED <<receivers, faults>>

\* The process dies and comes back with the same handlers.
Crash ==
    /\ Fault
    /\ slot' = [d \in Slots |-> Idle]
    /\ lost' = lost \cup tasks /\ tasks' = {}
    /\ emit' = [m \in Items |-> IF emit[m] = "publishing" THEN "failed" ELSE emit[m]]
    /\ receivers' = [n \in Names |-> NotRunning] /\ receive' = "off"
    /\ UNCHANGED <<errors, host, handling, broker, confirmed, due, heard, worked>>

Next ==
    \/ \E h \in Handlers : On(h)
    \/ \E m \in Items :
          \/ EmitRefused(m) \/ EmitStarts(m) \/ PublishMem(m)
          \/ AlienArrives(m) \/ Take(m) \/ PublishReturns(m) \/ PublishFails(m) \/ DeadLetter(m)
          \/ \E h \in Handlers, ok \in BOOLEAN : RunTask(m, h, ok)
          \/ \E d \in Slots : Deliver(m, d)
    \/ \E d \in Slots :
          \/ \E ok \in BOOLEAN : HandlerReturns(d, ok)
          \/ Ack(d) \/ Nack(d) \/ AckLost(d)
    \/ Confirm \/ Receive \/ Cancel \/ ReceiveReturns \/ Crash
    \/ \E n \in Names : ReceiverStops(n) \/ ReceiverFails(n)

Spec == Init /\ [][Next]_vars

\* The broker takes what is sent, delivers what it holds and is told the
\* outcome; goroutines run; the program calls Receive and answers SNS.
Fairness ==
    /\ \A m \in Items :
          /\ WF_vars(PublishMem(m)) /\ WF_vars(Take(m)) /\ WF_vars(PublishReturns(m))
          /\ WF_vars(\E d \in Slots : Deliver(m, d)) /\ WF_vars(DeadLetter(m))
          /\ \A h \in Handlers : WF_vars(\E ok \in BOOLEAN : RunTask(m, h, ok))
    /\ \A d \in Slots :
          /\ WF_vars(\E ok \in BOOLEAN : HandlerReturns(d, ok))
          /\ WF_vars(Ack(d) \/ Nack(d) \/ AckLost(d))
    /\ WF_vars(Confirm) /\ WF_vars(Receive) /\ WF_vars(ReceiveReturns)
    /\ \A n \in Names : WF_vars(ReceiverStops(n))

LiveSpec == Spec /\ Fairness

-----------------------------------------------------------------------------
(* Properties. *)

\* Every variable keeps its type.
TypeOK ==
    /\ transport \in Transports /\ coercer \in Coercers
    /\ subs \in [Names -> Seq(Handlers)] /\ registered \subseteq Handlers
    /\ emit \in [Items -> {"new", "publishing", "ok", "failed"}]
    /\ broker \in [Items -> [state : {"none", "queued", "acked", "parked"},
                             headers : Items \cup {NoTrace}, deliveries : 0 .. MaxDeliveries]]
    /\ tasks \subseteq Items \X Handlers /\ lost \subseteq Items \X Handlers
    /\ slot \in [Slots -> {Idle} \cup [item : Items, rest : Seq(Handlers), failed : BOOLEAN,
                                       headers : Items \cup {NoTrace}, clean : BOOLEAN]]
    /\ receivers \in [Names -> Handlers \cup {NotRunning}]
    /\ receive \in {"off", "on", "cancelled", "returned"}
    /\ confirmed \in BOOLEAN /\ faults \in 0 .. MaxFaults
    /\ due \in [Items -> SUBSET Handlers] /\ worked \subseteq Items
    /\ shared \in Names \cup {NoEvent} /\ reports \subseteq Items \X Names
    /\ heard \subseteq Items \X Handlers \X (Items \cup {NoTrace})

In(state) == {m \in Items : broker[m].state = state}

Promise == INSTANCE AtLeastOnce WITH
    accepted <- Items \ In("none"), retired <- In("acked"), parked <- In("parked")

\* Over a broker, nothing is acked that did not go through every handler
\* subscribed when it was delivered: one that fails keeps the message for the
\* whole fan-out (Dispatcher.Dispatch, PullSink.receive, the ServeHTTPs).
RefinesAtLeastOnce == Promise!Spec

\* A handler continues the trace its event was emitted under, whichever
\* transport carried it and however often (otel.go, marshalHeaders and
\* unmarshalHeaders).
TraceContinues ==
    \A m \in Items, h \in Handlers, t \in Items \cup {NoTrace} :
        <<m, h, t>> \in heard /\ KindOf[m] = "good" => t = m

\* An error names the event it is about, though handlers return one
\* package-level error for many events (EventError.withEvent).
ErrorsNameTheirEvent == \A r \in reports : r[2] = NameOf[r[1]]

Hears(m, h) == \E t \in Items \cup {NoTrace} : <<m, h, t>> \in heard

\* What may keep an event from a handler: the broker gave up on it, the
\* process died with the goroutine, or the pull for its name does not run.
Excused(m, h) ==
    \/ broker[m].state = "parked"
    \/ <<m, h>> \in lost
    \/ transport = "pull" /\ receive \in {"cancelled", "returned"}
    \/ transport = "pull" /\ receive = "on" /\ receivers[NameOf[m]] # h

\* Emit's promise: nil means the event is certain to fire, at every handler
\* subscribed by then, though calls fail, replies are lost and processes die.
EventFires ==
    \A m \in {i \in Items : KindOf[i] = "good"} : \A h \in {g \in Handlers : OnName[g] = NameOf[m]} :
        coercer = "default" /\ emit[m] = "ok" /\ h \in due[m] ~> Hears(m, h) \/ Excused(m, h)

\* A Receive whose ctx is cancelled returns, whichever of its receivers had
\* stopped before.
CancelledReceiveReturns == receive = "cancelled" ~> receive \in {"returned", "off"}
=============================================================================
