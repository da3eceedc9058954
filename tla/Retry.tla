------------------------------- MODULE Retry -------------------------------
(***************************************************************************)
(* events.Retry around a handler, in deliveries of a durable transport,    *)
(* for producers that emit before they write: handleCreate of              *)
(* docs/building-a-service.md emits UserCreated and then commits the row   *)
(* the event names, so a handler may look for a row that is not there yet, *)
(* or never will be.                                                       *)
(*                                                                         *)
(* The transport is modelled from how the sinks use it: a message is out   *)
(* under a lease, which may end while its delivery goes on, a nacked one   *)
(* comes back, an acked one is gone.  SqsWorker has the detail.            *)
(***************************************************************************)
EXTENDS Naturals, FiniteSets

CONSTANTS
    Events,             \* one event and the row it names
    Workers,            \* goroutines that run deliveries
    Stoppable,          \* workers whose ctx may be cancelled
    Attempts,           \* RetryPolicy.Attempts
    Waits,              \* attempts n with Backoff(n) > 0
    Policy,             \* the RetryPolicy.Exhausted an event's On came with: one,
                        \* or several while a deploy changes it
    MaxFaults           \* bound on handler bugs, failed parks and crashes

ASSUME PolicyAssumption ==
    /\ Attempts \in Nat \ {0}
    /\ Waits \subseteq Nat
    /\ Policy \in [Events -> SUBSET {"nack", "drop", "dead_letter"} \ {{}}]

ASSUME BoundsAssumption ==
    /\ Stoppable \subseteq Workers
    /\ MaxFaults \in Nat

VARIABLES
    write,              \* the row's transaction: open, landed or undone
    queue,              \* where the message is
    ctx,                \* whether a worker's ctx is live
    pc,                 \* where a worker's delivery is
    of,                 \* the event it delivers
    attempt,            \* Retry's attempt
    parked,             \* events DeadLetter's park has kept
    faults,             \* faults so far
    looks,              \* history: times this delivery's handler was run
    worked,             \* history: events a handler returned nil for
    dropped,            \* history: events Drop acked
    spent,              \* history: events whose attempts ran out once
    retired             \* history: events acked before they were given up

deliveryVars == <<pc, of, attempt, looks>>
history == <<worked, dropped, spent, retired>>
vars == <<write, queue, ctx, deliveryVars, parked, faults, history>>

-----------------------------------------------------------------------------
Busy == {"handler", "waiting", "exhausted", "ack", "nack"}

Emitted(e) == queue[e] # "unemitted"

GivenUp == parked \cup dropped

Init ==
    /\ write = [e \in Events |-> "open"]
    /\ queue = [e \in Events |-> "unemitted"]
    /\ ctx = [w \in Workers |-> TRUE]
    /\ pc = [w \in Workers |-> "idle"]
    /\ of \in [Workers -> Events]
    /\ attempt = [w \in Workers |-> 1]
    /\ parked = {}
    /\ faults = 0
    /\ looks = [w \in Workers |-> 0]
    /\ worked = {}
    /\ dropped = {}
    /\ spent = {}
    /\ retired = {}

-----------------------------------------------------------------------------
(* The producer: emit, then write                                          *)

Emit(e) ==
    /\ queue[e] = "unemitted"
    /\ queue' = [queue EXCEPT ![e] = "visible"]
    /\ UNCHANGED <<write, ctx, deliveryVars, parked, faults, history>>

\* store.Create commits, fails, or the process dies before it.
WriteEnds(e, how) ==
    /\ Emitted(e)
    /\ write[e] = "open"
    /\ how \in {"landed", "undone"}
    /\ write' = [write EXCEPT ![e] = how]
    /\ UNCHANGED <<queue, ctx, deliveryVars, parked, faults, history>>

-----------------------------------------------------------------------------
(* A delivery: Bus.On's deliver, with Retry as its middleware              *)

Goto(w, where) == pc' = [pc EXCEPT ![w] = where]

Fault ==
    /\ faults < MaxFaults
    /\ faults' = faults + 1

Deliver(w, e) ==
    /\ pc[w] = "idle"
    /\ ctx[w]
    /\ queue[e] = "visible"
    /\ queue' = [queue EXCEPT ![e] = "inflight"]
    /\ of' = [of EXCEPT ![w] = e]
    /\ attempt' = [attempt EXCEPT ![w] = 1]
    /\ looks' = [looks EXCEPT ![w] = 0]
    /\ Goto(w, "handler")
    /\ UNCHANGED <<write, ctx, parked, faults, history>>

\* A receive that finds no message.
EmptyReceive(w) ==
    /\ pc[w] = "idle"
    /\ ctx[w]
    /\ \A e \in Events : queue[e] # "visible"
    /\ UNCHANGED vars

\* The handler finds its row and does its work.
HandlerSucceeds(w) ==
    /\ pc[w] = "handler"
    /\ write[of[w]] = "landed"
    /\ worked' = worked \cup {of[w]}
    /\ looks' = [looks EXCEPT ![w] = @ + 1]
    /\ Goto(w, "ack")
    /\ UNCHANGED <<write, queue, ctx, of, attempt, parked, faults, dropped, spent, retired>>

\* A slip: the last attempt is taken for one that leaves another.
LastOneOver(n) == n > Attempts

Last(n) == n = Attempts

\* The row is not there: wait, or the attempts have run out.
HandlerNotFound(w) ==
    /\ pc[w] = "handler"
    /\ write[of[w]] # "landed"
    /\ looks' = [looks EXCEPT ![w] = @ + 1]
    /\ Goto(w, IF Last(attempt[w]) THEN "exhausted" ELSE "waiting")
    /\ spent' = IF Last(attempt[w]) THEN spent \cup {of[w]} ELSE spent
    /\ UNCHANGED <<write, queue, ctx, of, attempt, parked, faults, worked, dropped, retired>>

\* Any other error, that of a dead ctx among them, is not retryable.
HandlerFails(w) ==
    /\ pc[w] = "handler"
    /\ IF ctx[w] THEN Fault ELSE faults' = faults
    /\ looks' = [looks EXCEPT ![w] = @ + 1]
    /\ Goto(w, "nack")
    /\ UNCHANGED <<write, queue, ctx, of, attempt, parked, history>>

\* The timer fired, or there was none to wait for; with ctx dead as well,
\* wait's select may still take this branch.
WaitElapses(w) ==
    /\ pc[w] = "waiting"
    /\ attempt' = [attempt EXCEPT ![w] = @ + 1]
    /\ Goto(w, "handler")
    /\ UNCHANGED <<write, queue, ctx, of, looks, parked, faults, history>>

\* A slip: a break where the loop should return.
WaitCancelledExhausts(w) ==
    /\ pc[w] = "waiting"
    /\ attempt[w] \in Waits
    /\ ~ctx[w]
    /\ Goto(w, "exhausted")
    /\ UNCHANGED <<write, queue, ctx, of, attempt, looks, parked, faults, history>>

\* ctx ends the wait, and the handler's error goes back to the sink.
WaitCancelled(w) ==
    /\ pc[w] = "waiting"
    /\ attempt[w] \in Waits
    /\ ~ctx[w]
    /\ Goto(w, "nack")
    /\ UNCHANGED <<write, queue, ctx, of, attempt, looks, parked, faults, history>>

\* A slip: Nack acks.
NackAcks(w) ==
    /\ pc[w] = "exhausted"
    /\ "nack" \in Policy[of[w]]
    /\ Goto(w, "ack")
    /\ UNCHANGED <<write, queue, ctx, of, attempt, looks, parked, faults, history>>

Nack(w) ==
    /\ pc[w] = "exhausted"
    /\ "nack" \in Policy[of[w]]
    /\ Goto(w, "nack")
    /\ UNCHANGED <<write, queue, ctx, of, attempt, looks, parked, faults, history>>

Drop(w) ==
    /\ pc[w] = "exhausted"
    /\ "drop" \in Policy[of[w]]
    /\ dropped' = dropped \cup {of[w]}
    /\ Goto(w, "ack")
    /\ UNCHANGED <<write, queue, ctx, of, attempt, looks, parked, faults, worked, spent, retired>>

\* DeadLetter: park has a copy.
Park(w) ==
    /\ pc[w] = "exhausted"
    /\ "dead_letter" \in Policy[of[w]]
    /\ parked' = parked \cup {of[w]}
    /\ Goto(w, "ack")
    /\ UNCHANGED <<write, queue, ctx, of, attempt, looks, faults, history>>

\* A slip: park's error is logged and forgotten.
ParkFailsAndAcks(w) ==
    /\ pc[w] = "exhausted"
    /\ "dead_letter" \in Policy[of[w]]
    /\ IF ctx[w] THEN Fault ELSE faults' = faults
    /\ Goto(w, "ack")
    /\ UNCHANGED <<write, queue, ctx, of, attempt, looks, parked, history>>

\* DeadLetter: park fails, as it does on a dead ctx, and its error is joined.
ParkFails(w) ==
    /\ pc[w] = "exhausted"
    /\ "dead_letter" \in Policy[of[w]]
    /\ IF ctx[w] THEN Fault ELSE faults' = faults
    /\ Goto(w, "nack")
    /\ UNCHANGED <<write, queue, ctx, of, attempt, looks, parked, history>>

-----------------------------------------------------------------------------
(* The transport                                                           *)

\* deliver returned nil: the message is deleted, lease or no lease.
Ack(w) ==
    /\ pc[w] = "ack"
    /\ queue' = [queue EXCEPT ![of[w]] = "acked"]
    /\ retired' = retired \cup ({of[w]} \ GivenUp)
    /\ Goto(w, "idle")
    /\ UNCHANGED <<write, ctx, of, attempt, looks, parked, faults, worked, dropped, spent>>

\* deliver returned an error: the message comes back, unless it is gone.
Return(w) ==
    /\ pc[w] = "nack"
    /\ queue' = [queue EXCEPT ![of[w]] = IF @ = "inflight" THEN "visible" ELSE @]
    /\ Goto(w, "idle")
    /\ UNCHANGED <<write, ctx, of, attempt, looks, parked, faults, history>>

\* The lease runs out, the delivery going on or not.
Expire(e) ==
    /\ queue[e] = "inflight"
    /\ queue' = [queue EXCEPT ![e] = "visible"]
    /\ UNCHANGED <<write, ctx, deliveryVars, parked, faults, history>>

\* The worker's process dies and another takes its place.
Crash(w) ==
    /\ pc[w] \in Busy
    /\ Fault
    /\ Goto(w, "idle")
    /\ UNCHANGED <<write, queue, ctx, of, attempt, looks, parked, history>>

Shutdown(w) ==
    /\ w \in Stoppable
    /\ ctx[w]
    /\ ctx' = [ctx EXCEPT ![w] = FALSE]
    /\ UNCHANGED <<write, queue, deliveryVars, parked, faults, history>>

-----------------------------------------------------------------------------
Finish(w) ==
    \/ HandlerSucceeds(w) \/ HandlerNotFound(w)
    \/ WaitElapses(w)
    \/ Nack(w) \/ Drop(w) \/ Park(w)
    \/ Ack(w) \/ Return(w)

Disturb(w) ==
    HandlerFails(w) \/ WaitCancelled(w) \/ ParkFails(w) \/ Crash(w) \/ Shutdown(w)

Next ==
    \/ \E e \in Events : Emit(e) \/ Expire(e)
    \/ \E e \in Events, how \in {"landed", "undone"} : WriteEnds(e, how)
    \/ \E w \in Workers, e \in Events : Deliver(w, e)
    \/ \E w \in Workers : EmptyReceive(w) \/ Finish(w) \/ Disturb(w)

Spec == Init /\ [][Next]_vars

\* Deliveries run on, leases end, and a message that is visible time and again
\* is received time and again.
Fairness ==
    /\ \A w \in Workers : WF_vars(Finish(w))
    /\ \A e \in Events : WF_vars(Expire(e)) /\ SF_vars(\E w \in Workers : Deliver(w, e))

LiveSpec == Spec /\ Fairness

-----------------------------------------------------------------------------
(* Properties                                                              *)

TypeOK ==
    /\ write \in [Events -> {"open", "landed", "undone"}]
    /\ queue \in [Events -> {"unemitted", "visible", "inflight", "acked"}]
    /\ ctx \in [Workers -> BOOLEAN]
    /\ pc \in [Workers -> {"idle"} \cup Busy]
    /\ of \in [Workers -> Events]
    /\ attempt \in [Workers -> 1..Attempts]
    /\ parked \subseteq Events
    /\ faults \in 0..MaxFaults
    /\ looks \in [Workers -> 0..Attempts]
    /\ worked \subseteq Events
    /\ dropped \subseteq Events
    /\ spent \subseteq Events
    /\ retired \subseteq Events

\* The Exhausted action is for a delivery that has looked Attempts times: a
\* shutdown in one of the waits does not bring it forward.
SpentBeforeExhausted == \A w \in Workers : pc[w] = "exhausted" => looks[w] = Attempts

\* Deliveries keep the promise of AtLeastOnce.  A message is acked only if a
\* handler did its work, park has a copy, or its policy is Drop: not because a
\* wait was cancelled, a park failed, or another delivery of it went on under
\* an expired lease.  To give an event up is to park or drop it before any
\* delivery acked it as worked.
Promise == INSTANCE AtLeastOnce WITH
    Items <- Events,
    accepted <- {e \in Events : Emitted(e)},
    worked <- worked,
    retired <- retired,
    parked <- GivenUp \ retired

RefinesAtLeastOnce == Promise!Spec

\* An event whose row lands, however late, is worked or given up by the policy.
LateWriteIsWorked ==
    \A e \in Events : write[e] = "landed" ~> e \in worked \cup GivenUp

\* What docs/building-a-service.md says of the last attempt: "the write didn't
\* just lag, it didn't happen".
ExhaustedMeansNoWrite == \A e \in spent : write[e] # "landed"
=============================================================================
