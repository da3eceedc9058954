----------------------------- MODULE SqsWorker -----------------------------
(***************************************************************************)
(* The SQS sink of events/aws/sqs with the events.Dispatcher it embeds:    *)
(* several Receive loops (goroutines of one or many worker processes) pull *)
(* from one standard queue, run every handler subscribed to a message's    *)
(* name, and delete the message if all of them succeeded.                  *)
(*                                                                         *)
(* The queue itself is not in the repository; its part (visible,           *)
(* in flight under a receipt, lease expiry, deletion by a receipt that may *)
(* be stale, a redrive policy) is modelled from how the sink uses it.      *)
(*                                                                         *)
(* A handler here is the whole deliver callback the bus subscribed, its    *)
(* decoding, middleware and retries included: it takes some time, during   *)
(* which anything else may happen, and returns nil or an error.            *)
(***************************************************************************)
EXTENDS Naturals, Sequences, FiniteSets

CONSTANTS
    Loops,              \* goroutines running Receive
    Msgs,               \* messages a producer may send
    Names,              \* event names
    EventOf,            \* [Msgs -> Names]: the event attribute of a message
    Handlers,           \* deliver callbacks
    Registrations,      \* <<name, handler>> pairs the program may Subscribe
    Stoppable,          \* loops whose ctx may be cancelled
    BatchSize,          \* WithBatchSize
    MaxReceives,        \* the queue's redrive policy: receives before parking
    MaxFailures,        \* bound on failed polls in a row
    MaxCrashes          \* bound on worker crashes

ASSUME EventsAssumption ==
    /\ EventOf \in [Msgs -> Names]
    /\ Registrations \subseteq Names \X Handlers
    /\ Stoppable \subseteq Loops

ASSUME BoundsAssumption ==
    /\ BatchSize \in Nat \ {0}
    /\ MaxReceives \in Nat \ {0}
    /\ MaxFailures \in Nat
    /\ MaxCrashes \in Nat

VARIABLES
    subs,               \* Dispatcher.subs: handlers by name, in order
    queue,              \* where each message is
    receipt,            \* how often each was received: its latest receipt
    ctx,                \* whether a loop's ctx is live
    pc,                 \* where a loop is
    got,                \* out.Messages of the poll in hand
    at,                 \* index of the message in hand
    snap,               \* Dispatch's copy of the handlers
    pos,                \* index of the handler to run next
    errs,               \* whether Dispatch has collected an error
    poll,               \* the Poll being counted
    failures,           \* Receive's failures in a row
    crashes,            \* crashes so far
    receiving,          \* history: some Receive has been started
    boot,               \* history: what was subscribed when it was
    ran,                \* history: handlers that passed in the delivery in hand
    cleared,            \* history: messages some delivery passed to all of boot
    settles,            \* history: deliveries of a message that ended in nil
    excused             \* history: messages with a reason to come round again

queueVars == <<queue, receipt>>
loopVars  == <<ctx, pc, got, at, snap, pos, errs, poll, failures>>
bootVars  == <<subs, receiving, boot>>
history   == <<ran, cleared, settles, excused>>
vars == <<queueVars, loopVars, bootVars, crashes, history>>

-----------------------------------------------------------------------------
ZeroPoll == [Received |-> 0, Handled |-> 0, Failed |-> 0, Undeleted |-> 0]

Delivery == [msg : Msgs, receipt : 1..MaxReceives]

Visible == {m \in Msgs : queue[m] = "visible"}

\* What one ReceiveMessage may return: up to BatchSize visible messages, each
\* once, in any order.
Batches == {s \in UNION {[1..n -> Visible] : n \in 0..BatchSize} :
                \A i, j \in DOMAIN s : s[i] = s[j] => i = j}

Elems(s) == {s[i] : i \in DOMAIN s}

InHand(w) == got[w][at[w]]

Busy == {"batch", "dispatch", "delete"}

\* The deliveries a loop has received and not finished with.
Held(w) == {got[w][i] : i \in at[w]..Len(got[w])}

\* A delivery whose lease still runs.
Fresh(d) == queue[d.msg] = "inflight" /\ receipt[d.msg] = d.receipt

\* The locals of handle and ReceiveOnce go out of scope.
LeaveDispatch(w) ==
    /\ snap' = [snap EXCEPT ![w] = <<>>]
    /\ pos' = [pos EXCEPT ![w] = 1]
    /\ errs' = [errs EXCEPT ![w] = FALSE]
    /\ ran' = [ran EXCEPT ![w] = {}]

LeaveBatch(w) ==
    /\ got' = [got EXCEPT ![w] = <<>>]
    /\ at' = [at EXCEPT ![w] = 1]

BootHandlers(m) == {h \in Handlers : <<EventOf[m], h>> \in boot}

Init ==
    /\ subs = [n \in Names |-> <<>>]
    /\ queue = [m \in Msgs |-> "unsent"]
    /\ receipt = [m \in Msgs |-> 0]
    /\ ctx = [w \in Loops |-> TRUE]
    /\ pc = [w \in Loops |-> "idle"]
    /\ got = [w \in Loops |-> <<>>]
    /\ at = [w \in Loops |-> 1]
    /\ snap = [w \in Loops |-> <<>>]
    /\ pos = [w \in Loops |-> 1]
    /\ errs = [w \in Loops |-> FALSE]
    /\ poll = [w \in Loops |-> ZeroPoll]
    /\ failures = [w \in Loops |-> 0]
    /\ crashes = 0
    /\ receiving = FALSE
    /\ boot = {}
    /\ ran = [w \in Loops |-> {}]
    /\ cleared = {}
    /\ settles = [m \in Msgs |-> 0]
    /\ excused = {}

-----------------------------------------------------------------------------
(* The program around the loops                                            *)

\* bus.On -> Dispatcher.Subscribe, under the registry's lock.
Subscribe(n, h) ==
    /\ <<n, h>> \in Registrations
    /\ h \notin Elems(subs[n])
    /\ subs' = [subs EXCEPT ![n] = Append(@, h)]
    /\ boot' = IF receiving THEN boot ELSE boot \cup {<<n, h>>}
    /\ UNCHANGED <<receiving, queueVars, loopVars, crashes, history>>

\* SendMessage accepted the message, whether or not the reply got back.
Publish(m) ==
    /\ queue[m] = "unsent"
    /\ queue' = [queue EXCEPT ![m] = "visible"]
    /\ UNCHANGED <<receipt, loopVars, bootVars, crashes, history>>

\* A goroutine, or a restarted process, calls Receive.
StartReceive(w) ==
    /\ pc[w] \in {"idle", "crashed"}
    /\ pc' = [pc EXCEPT ![w] = "entry"]
    /\ receiving' = TRUE
    /\ UNCHANGED <<ctx, failures, got, at, snap, pos, errs, poll, subs, boot,
                   queueVars, crashes, history>>

Shutdown(w) ==
    /\ w \in Stoppable
    /\ ctx[w]
    /\ ctx' = [ctx EXCEPT ![w] = FALSE]
    /\ UNCHANGED <<pc, got, at, snap, pos, errs, poll, failures,
                   queueVars, bootVars, crashes, history>>

\* The process dies; the queue learns of it only by the leases running out.
Crash(w) ==
    /\ pc[w] \notin {"idle", "returned", "crashed"}
    /\ crashes < MaxCrashes
    /\ crashes' = crashes + 1
    /\ pc' = [pc EXCEPT ![w] = "crashed"]
    /\ excused' = IF pc[w] = "delete" THEN excused \cup {InHand(w).msg} ELSE excused
    /\ LeaveBatch(w)
    /\ LeaveDispatch(w)
    /\ poll' = [poll EXCEPT ![w] = ZeroPoll]
    /\ failures' = [failures EXCEPT ![w] = 0]
    /\ UNCHANGED <<ctx, queueVars, bootVars, cleared, settles>>

-----------------------------------------------------------------------------
(* ReceiveOnce's poll                                                      *)

\* A slip: Receive treats ReceiveOnce's ctx error as one more failed poll.
EnterDeadBacksOff(w) ==
    /\ pc[w] = "entry"
    /\ ~ctx[w]
    /\ pc' = [pc EXCEPT ![w] = "backoff"]
    /\ UNCHANGED <<ctx, got, at, snap, pos, errs, poll, failures,
                   queueVars, bootVars, crashes, history>>

\* A dead ctx makes no call at all: ReceiveOnce hands back its error with a
\* zero Poll, and Receive returns the error.
EnterDead(w) ==
    /\ pc[w] = "entry"
    /\ ~ctx[w]
    /\ pc' = [pc EXCEPT ![w] = "returned"]
    /\ UNCHANGED <<ctx, got, at, snap, pos, errs, poll, failures,
                   queueVars, bootVars, crashes, history>>

Enter(w) ==
    /\ pc[w] = "entry"
    /\ ctx[w]
    /\ pc' = [pc EXCEPT ![w] = "polling"]
    /\ UNCHANGED <<ctx, got, at, snap, pos, errs, poll, failures,
                   queueVars, bootVars, crashes, history>>

\* The queue puts the messages of S in flight, each under a new receipt.
Lease(S) ==
    /\ queue' = [m \in Msgs |-> IF m \in S THEN "inflight" ELSE queue[m]]
    /\ receipt' = [m \in Msgs |-> IF m \in S THEN receipt[m] + 1 ELSE receipt[m]]

PollSucceeds(w, b) ==
    /\ pc[w] = "polling"
    /\ Lease(Elems(b))
    /\ got' = [got EXCEPT ![w] =
                 [i \in DOMAIN b |-> [msg |-> b[i], receipt |-> receipt[b[i]] + 1]]]
    /\ at' = [at EXCEPT ![w] = 1]
    /\ poll' = [poll EXCEPT ![w].Received = Len(b)]
    /\ pc' = [pc EXCEPT ![w] = "batch"]
    /\ UNCHANGED <<ctx, snap, pos, errs, failures, bootVars, crashes, history>>

\* A slip: Receive returns a failed poll's error instead of backing off.
PollFailsForGood(w, S) ==
    /\ pc[w] = "polling"
    /\ Lease(S)
    /\ pc' = [pc EXCEPT ![w] = "returned"]
    /\ UNCHANGED <<ctx, got, at, snap, pos, errs, poll, failures, bootVars, crashes, history>>

\* The call fails or its reply is lost (S may be leased to nobody).  A dead
\* ctx ends Receive; otherwise the failure is counted and backed off.
PollFails(w, S) ==
    /\ pc[w] = "polling"
    /\ Lease(S)
    /\ IF ctx[w]
       THEN /\ failures[w] < MaxFailures
            /\ failures' = [failures EXCEPT ![w] = @ + 1]
            /\ pc' = [pc EXCEPT ![w] = "backoff"]
       ELSE /\ failures' = failures
            /\ pc' = [pc EXCEPT ![w] = "returned"]
    /\ UNCHANGED <<ctx, got, at, snap, pos, errs, poll, bootVars, crashes, history>>

\* Receive's select: with ctx dead and the timer fired, either may win.
BackoffElapses(w) ==
    /\ pc[w] = "backoff"
    /\ pc' = [pc EXCEPT ![w] = "entry"]
    /\ UNCHANGED <<ctx, got, at, snap, pos, errs, poll, failures,
                   queueVars, bootVars, crashes, history>>

BackoffCancelled(w) ==
    /\ pc[w] = "backoff"
    /\ ~ctx[w]
    /\ pc' = [pc EXCEPT ![w] = "returned"]
    /\ UNCHANGED <<ctx, got, at, snap, pos, errs, poll, failures,
                   queueVars, bootVars, crashes, history>>

-----------------------------------------------------------------------------
(* The batch, a message at a time                                          *)

\* ctx is looked at before each message; then handle calls Dispatch, which
\* copies the handlers under the registry's lock.
NextMessage(w) ==
    /\ pc[w] = "batch"
    /\ at[w] <= Len(got[w])
    /\ ctx[w]
    /\ snap' = [snap EXCEPT ![w] = subs[EventOf[InHand(w).msg]]]
    /\ pos' = [pos EXCEPT ![w] = 1]
    /\ errs' = [errs EXCEPT ![w] = FALSE]
    /\ ran' = [ran EXCEPT ![w] = {}]
    /\ pc' = [pc EXCEPT ![w] = "dispatch"]
    /\ UNCHANGED <<ctx, got, at, poll, failures, queueVars, bootVars, crashes,
                   cleared, settles, excused>>

\* ctx ended: the rest of the batch is left to its leases.
AbandonBatch(w) ==
    /\ pc[w] = "batch"
    /\ at[w] <= Len(got[w])
    /\ ~ctx[w]
    /\ pc' = [pc EXCEPT ![w] = "returned"]
    /\ LeaveBatch(w)
    /\ UNCHANGED <<ctx, snap, pos, errs, poll, failures,
                   queueVars, bootVars, crashes, history>>

\* A slip: the Poll outlives the call that counted it.
BatchDoneKeepsPoll(w) ==
    /\ pc[w] = "batch"
    /\ at[w] > Len(got[w])
    /\ failures' = [failures EXCEPT ![w] = 0]
    /\ pc' = [pc EXCEPT ![w] = "entry"]
    /\ LeaveBatch(w)
    /\ UNCHANGED <<ctx, snap, pos, errs, poll,
                   queueVars, bootVars, crashes, history>>

\* ReceiveOnce returns its Poll and no error; Receive drops the Poll, clears
\* its count of failures and polls again.
BatchDone(w) ==
    /\ pc[w] = "batch"
    /\ at[w] > Len(got[w])
    /\ failures' = [failures EXCEPT ![w] = 0]
    /\ pc' = [pc EXCEPT ![w] = "entry"]
    /\ poll' = [poll EXCEPT ![w] = ZeroPoll]
    /\ LeaveBatch(w)
    /\ UNCHANGED <<ctx, snap, pos, errs,
                   queueVars, bootVars, crashes, history>>

\* A slip: the error of the last handler stands for the whole fan-out.
CollectLast(failed, err) == err

\* One handler of Dispatch's loop returns.  An error is kept and the loop
\* goes on to the handlers after it.
Collect(failed, err) == failed \/ err

HandlerReturns(w, err) ==
    /\ pc[w] = "dispatch"
    /\ pos[w] <= Len(snap[w])
    /\ errs' = [errs EXCEPT ![w] = Collect(@, err)]
    /\ ran' = [ran EXCEPT ![w] = IF err THEN @ ELSE @ \cup {snap[w][pos[w]]}]
    /\ pos' = [pos EXCEPT ![w] = @ + 1]
    /\ UNCHANGED <<ctx, pc, got, at, snap, poll, failures,
                   queueVars, bootVars, crashes, cleared, settles, excused>>

\* A slip: a failed message is not counted.
DispatchFailsUncounted(w) ==
    /\ pc[w] = "dispatch"
    /\ pos[w] > Len(snap[w])
    /\ errs[w]
    /\ at' = [at EXCEPT ![w] = @ + 1]
    /\ pc' = [pc EXCEPT ![w] = "batch"]
    /\ LeaveDispatch(w)
    /\ UNCHANGED <<ctx, got, poll, failures,
                   queueVars, bootVars, crashes, cleared, settles, excused>>

\* A slip: handle goes on to the delete after an error.
DispatchFailsAndDeletes(w) ==
    /\ pc[w] = "dispatch"
    /\ pos[w] > Len(snap[w])
    /\ errs[w]
    /\ poll' = [poll EXCEPT ![w].Failed = @ + 1]
    /\ pc' = [pc EXCEPT ![w] = "delete"]
    /\ LeaveDispatch(w)
    /\ UNCHANGED <<ctx, got, at, failures,
                   queueVars, bootVars, crashes, cleared, settles, excused>>

\* Dispatch returned an error: count it and leave the message to its lease.
DispatchFails(w) ==
    /\ pc[w] = "dispatch"
    /\ pos[w] > Len(snap[w])
    /\ errs[w]
    /\ poll' = [poll EXCEPT ![w].Failed = @ + 1]
    /\ at' = [at EXCEPT ![w] = @ + 1]
    /\ pc' = [pc EXCEPT ![w] = "batch"]
    /\ LeaveDispatch(w)
    /\ UNCHANGED <<ctx, got, failures,
                   queueVars, bootVars, crashes, cleared, settles, excused>>

\* A slip: the delete shares the loop's ctx, and is skipped on shutdown.
DispatchSucceedsOrQuits(w) ==
    LET m == InHand(w).msg IN
    /\ pc[w] = "dispatch"
    /\ pos[w] > Len(snap[w])
    /\ ~errs[w]
    /\ poll' = [poll EXCEPT ![w].Handled = @ + 1]
    /\ pc' = [pc EXCEPT ![w] = IF ctx[w] THEN "delete" ELSE "batch"]
    /\ at' = [at EXCEPT ![w] = IF ctx[w] THEN @ ELSE @ + 1]
    /\ settles' = [settles EXCEPT ![m] = @ + 1]
    /\ cleared' = IF BootHandlers(m) \subseteq ran[w] THEN cleared \cup {m} ELSE cleared
    /\ LeaveDispatch(w)
    /\ UNCHANGED <<ctx, got, failures, queueVars, bootVars, crashes, excused>>

\* Dispatch returned nil: count it and go on to the delete, ctx or no ctx.
DispatchSucceeds(w) ==
    LET m == InHand(w).msg IN
    /\ pc[w] = "dispatch"
    /\ pos[w] > Len(snap[w])
    /\ ~errs[w]
    /\ poll' = [poll EXCEPT ![w].Handled = @ + 1]
    /\ pc' = [pc EXCEPT ![w] = "delete"]
    /\ settles' = [settles EXCEPT ![m] = @ + 1]
    /\ cleared' = IF BootHandlers(m) \subseteq ran[w] THEN cleared \cup {m} ELSE cleared
    /\ LeaveDispatch(w)
    /\ UNCHANGED <<ctx, got, at, failures,
                   queueVars, bootVars, crashes, excused>>

\* DeleteMessage on the detached ctx.  A delete under the current receipt that
\* succeeds removes the message; under a stale one it may remove nothing; one
\* that reports an error may have removed it all the same.
DeleteReturns(w, ok, removed) ==
    LET d == InHand(w) IN
    /\ pc[w] = "delete"
    /\ ok /\ Fresh(d) => removed
    /\ queue' = [queue EXCEPT ![d.msg] =
                   IF removed /\ @ \in {"visible", "inflight"} THEN "deleted" ELSE @]
    /\ poll' = [poll EXCEPT ![w].Undeleted = IF ok THEN @ ELSE @ + 1]
    /\ excused' = IF ok THEN excused ELSE excused \cup {d.msg}
    /\ at' = [at EXCEPT ![w] = @ + 1]
    /\ pc' = [pc EXCEPT ![w] = "batch"]
    /\ UNCHANGED <<receipt, ctx, got, snap, pos, errs, failures,
                   bootVars, crashes, ran, cleared, settles>>

\* The visibility timeout of m runs out: it shows again, or the redrive policy
\* parks it.  If a loop still holds it, a second delivery is to be expected.
Expire(m) ==
    /\ queue[m] = "inflight"
    /\ queue' = [queue EXCEPT ![m] = IF receipt[m] < MaxReceives THEN "visible" ELSE "parked"]
    /\ excused' = IF \E w \in Loops : [msg |-> m, receipt |-> receipt[m]] \in Held(w)
                  THEN excused \cup {m} ELSE excused
    /\ UNCHANGED <<receipt, loopVars, bootVars, crashes, ran, cleared, settles>>

-----------------------------------------------------------------------------
Receive(w) ==
    \/ EnterDead(w)
    \/ Enter(w)
    \/ \E b \in Batches : PollSucceeds(w, b)
    \/ \E S \in SUBSET Visible : Cardinality(S) <= BatchSize /\ PollFails(w, S)
    \/ BackoffElapses(w)
    \/ BackoffCancelled(w)
    \/ NextMessage(w)
    \/ AbandonBatch(w)
    \/ BatchDone(w)
    \/ \E err \in BOOLEAN : HandlerReturns(w, err)
    \/ DispatchFails(w)
    \/ DispatchSucceeds(w)
    \/ \E ok, removed \in BOOLEAN : DeleteReturns(w, ok, removed)

\* What the consumers do, and the queue with what it has.
Consume ==
    \/ \E n \in Names, h \in Handlers : Subscribe(n, h)
    \/ \E m \in Msgs : Expire(m)
    \/ \E w \in Loops : StartReceive(w) \/ Shutdown(w) \/ Crash(w) \/ Receive(w)

Next == (\E m \in Msgs : Publish(m)) \/ Consume

Spec == Init /\ [][Next]_vars

\* The scheduler runs every loop (a handler returns, a call to the queue comes
\* back, a timer fires), leases run out, a crashed worker is started again, and
\* a poll does not fail, or miss a visible message, every time it is tried.
Fairness ==
    /\ \A w \in Loops : WF_vars(Receive(w)) /\ WF_vars(StartReceive(w))
    /\ \A m \in Msgs : WF_vars(Expire(m))
    /\ \A w \in Loops, m \in Msgs :
         SF_vars(\E b \in Batches : m \in Elems(b) /\ PollSucceeds(w, b))

LiveSpec == Spec /\ Fairness
-----------------------------------------------------------------------------
(* Properties                                                              *)

\* Every variable has its type; a batch is no larger than asked for and a loop
\* is never past its end by more than one (sqs.go ReceiveOnce, handle).
TypeOK ==
    /\ subs \in [Names -> Seq(Handlers)]
    /\ queue \in [Msgs -> {"unsent", "visible", "inflight", "deleted", "parked"}]
    /\ receipt \in [Msgs -> 0..MaxReceives]
    /\ ctx \in [Loops -> BOOLEAN]
    /\ pc \in [Loops -> {"idle", "entry", "polling", "backoff", "batch", "dispatch",
                         "delete", "returned", "crashed"}]
    /\ got \in [Loops -> Seq(Delivery)]
    /\ at \in [Loops -> Nat \ {0}]
    /\ snap \in [Loops -> Seq(Handlers)]
    /\ pos \in [Loops -> Nat \ {0}]
    /\ errs \in [Loops -> BOOLEAN]
    /\ poll \in [Loops -> [Received : 0..BatchSize, Handled : 0..BatchSize,
                           Failed : 0..BatchSize, Undeleted : 0..BatchSize]]
    /\ failures \in [Loops -> 0..MaxFailures]
    /\ crashes \in 0..MaxCrashes
    /\ receiving \in BOOLEAN
    /\ boot \subseteq Registrations
    /\ ran \in [Loops -> SUBSET Handlers]
    /\ cleared \subseteq Msgs
    /\ settles \in [Msgs -> Nat]
    /\ excused \subseteq Msgs

\* A message is only ever deleted if, in one delivery of it, every handler that
\* was subscribed when the program began to Receive returned nil: whichever
\* loop deleted it, under whichever receipt, crashes, expired leases and late
\* subscriptions included (Dispatch's joined error, handle's early return).
NoLoss == \A m \in Msgs : queue[m] = "deleted" => m \in cleared

\* The handlers of a message complete twice, or run in two loops at once, only
\* for a reason the sink cannot help: the lease ran out while a loop still held
\* the message, its delete was reported failed, or the process died between the
\* handlers and the delete.  A shutdown is no such reason, which is why handle
\* detaches the delete from ctx.
NoNeedlessDuplicate ==
    \A m \in Msgs : m \notin excused =>
        /\ settles[m] <= 1
        /\ \A v, w \in Loops :
              /\ v # w
              /\ pc[v] = "dispatch" /\ InHand(v).msg = m
              /\ pc[w] = "dispatch" /\ InHand(w).msg = m
              => FALSE

\* What a Poll says adds up at every moment of ReceiveOnce, and what it returns
\* is what its comment promises: Handled plus Failed is Received, or behind it
\* by exactly the messages a dead ctx left undispatched, and only handled
\* messages are ever counted undeleted.
PollAccounts ==
    \A w \in Loops :
        LET p == poll[w]
            seen == p.Handled + p.Failed
        IN /\ p.Undeleted <= p.Handled
           /\ pc[w] \in Busy =>
                 /\ p.Received = Len(got[w])
                 /\ seen = IF pc[w] = "delete" THEN at[w] ELSE at[w] - 1
           /\ pc[w] = "returned" => seen <= p.Received /\ (seen < p.Received => ~ctx[w])

\* The sink keeps the promise of AtLeastOnce: a message is accepted when the
\* queue has it, worked when a delivery passed every handler, retired when it
\* is deleted.
Promise == INSTANCE AtLeastOnce WITH
    Items <- Msgs,
    accepted <- {m \in Msgs : queue[m] # "unsent"},
    worked <- cleared,
    retired <- {m \in Msgs : queue[m] = "deleted"},
    parked <- {m \in Msgs : queue[m] = "parked"}

RefinesAtLeastOnce == Promise!Spec

\* Every message the queue accepted is eventually carried through all its
\* handlers or parked by the redrive policy, as long as one loop is left
\* running: failed polls, failed handlers, crashes and expired leases only
\* delay it (Receive's retry loop).
EveryMessageWorked == Promise!Delivered

\* Once its ctx has ended a loop returns, wherever it was: in the wait between
\* polls, in a poll, or in the middle of a batch.
ShutdownReturns == \A w \in Loops : ~ctx[w] ~> pc[w] = "returned"
=============================================================================
