------------------------------- MODULE Outbox -------------------------------
(***************************************************************************)
(* The transactional outbox of events/examples/outbox over db/pgxdb.       *)
(* Writers emit inside (or outside) a TxCtx block, which inserts a row in  *)
(* event_outbox on the running transaction; relays move committed rows to  *)
(* the inner sink, a batch per transaction, and mark them published.       *)
(*                                                                         *)
(* PostgreSQL and the inner sink are not in the repository.  What is used  *)
(* of them: ids are drawn at INSERT and seen by others at COMMIT, the      *)
(* SELECT ... FOR UPDATE SKIP LOCKED passes over rows another transaction  *)
(* holds, a transaction's updates and locks end with it; a publish may     *)
(* fail, or reach the sink and have its reply lost.                        *)
(***************************************************************************)
EXTENDS Naturals, Sequences, FiniteSets

CONSTANTS
    Events,             \* events, each emitted once
    Poison,             \* events whose publish the inner sink always refuses
    Relays,             \* goroutines or processes running Relay
    Stoppable,          \* relays whose ctx may be cancelled
    Batch,              \* Relay's batch
    MaxFaults           \* bound on failed statements, publishes and crashes

ASSUME RelayAssumption ==
    /\ Poison \subseteq Events
    /\ Stoppable \subseteq Relays
    /\ Batch \in Nat \ {0}
    /\ MaxFaults \in Nat

VARIABLES
    tx,                 \* the business transaction an event is emitted in
    row,                \* the event's row in event_outbox
    id,                 \* its id, 0 while it has none
    seq,                \* the table's id sequence
    marked,             \* rows whose published_at is committed
    ctx,                \* whether a relay's ctx is live
    pc,                 \* where a relay is
    rows,               \* the rows its transaction has locked
    moved,              \* how many of them it has published and marked
    faults,             \* faults so far
    sent,               \* what reached the inner sink, by first publication
    again,              \* history: events that reached it more than once
    excused             \* history: published in a transaction that was lost

writerVars == <<tx, row, id, seq>>
relayVars  == <<ctx, pc, rows, moved>>
history    == <<sent, again, excused>>
vars == <<writerVars, relayVars, marked, faults, history>>

-----------------------------------------------------------------------------
Elems(s) == {s[i] : i \in DOMAIN s}

InTx == {"publish", "mark", "commit"}

\* The row locks of relay r's open transaction.
Locked(r) == IF pc[r] \in InTx THEN Elems(rows[r]) ELSE {}

\* A slip: a plain SELECT, without FOR UPDATE SKIP LOCKED.
WaitingUnlocked == {e \in Events : row[e] = "committed"} \ marked

\* published_at IS NULL, less what SKIP LOCKED passes over.
Waiting == {e \in Events : row[e] = "committed"} \ (marked \cup UNION {Locked(r) : r \in Relays})

\* ORDER BY id LIMIT Batch over the rows of W.
Oldest(W) ==
    {s \in UNION {[1..n -> W] : n \in 0..Batch} :
        /\ \A i, j \in DOMAIN s : i < j => id[s[i]] < id[s[j]]
        /\ Len(s) = Batch \/ Elems(s) = W
        /\ \A i \in DOMAIN s, e \in W \ Elems(s) : id[s[i]] < id[e]}

\* The rows relay r has published in its open transaction.
PublishedIn(r) ==
    {rows[r][i] : i \in 1..(IF pc[r] = "mark" THEN moved[r] + 1 ELSE moved[r])}

Init ==
    /\ tx = [e \in Events |-> "none"]
    /\ row = [e \in Events |-> "none"]
    /\ id = [e \in Events |-> 0]
    /\ seq = 0
    /\ marked = {}
    /\ ctx = [r \in Relays |-> TRUE]
    /\ pc = [r \in Relays |-> "select"]
    /\ rows = [r \in Relays |-> <<>>]
    /\ moved = [r \in Relays |-> 0]
    /\ faults = 0
    /\ sent = <<>>
    /\ again = {}
    /\ excused = {}

-----------------------------------------------------------------------------
(* The writers                                                             *)

\* TxCtx opens a transaction and attaches it to the closure's ctx.
BeginTx(e) ==
    /\ tx[e] = "none"
    /\ row[e] = "none"
    /\ tx' = [tx EXCEPT ![e] = "open"]
    /\ UNCHANGED <<row, id, seq, marked, relayVars, faults, history>>

\* A slip: the sink always writes through its own pool.
QuerierOfPool(e) == "pool"

\* GetQuerier: the running transaction if ctx carries one, else the pool.
QuerierOf(e) == IF tx[e] = "open" THEN "tx" ELSE "pool"

\* Emit -> outboxSink.Publish: one INSERT, which commits on its own on the
\* pool and with the transaction on the transaction.
Emit(e) ==
    /\ tx[e] \in {"none", "open"}
    /\ row[e] = "none"
    /\ seq' = seq + 1
    /\ id' = [id EXCEPT ![e] = seq + 1]
    /\ row' = [row EXCEPT ![e] = IF QuerierOf(e) = "tx" THEN "pending" ELSE "committed"]
    /\ UNCHANGED <<tx, marked, relayVars, faults, history>>

\* The closure returned nil and COMMIT took effect, its reply lost or not.
CommitTx(e) ==
    /\ tx[e] = "open"
    /\ row[e] # "none"
    /\ tx' = [tx EXCEPT ![e] = "committed"]
    /\ row' = [row EXCEPT ![e] = "committed"]
    /\ UNCHANGED <<id, seq, marked, relayVars, faults, history>>

\* The closure, Emit or COMMIT failed, the closure panicked, or the process
\* died: the transaction leaves nothing behind but its gap in the ids.
RollbackTx(e) ==
    /\ tx[e] = "open"
    /\ tx' = [tx EXCEPT ![e] = "aborted"]
    /\ row' = [row EXCEPT ![e] = IF @ = "pending" THEN "gone" ELSE @]
    /\ UNCHANGED <<id, seq, marked, relayVars, faults, history>>

-----------------------------------------------------------------------------
(* The relays                                                              *)

\* One pass of drain's loop: relayBatch opens its transaction and selects.
SelectBatch(r) ==
    /\ pc[r] = "select"
    /\ ctx[r]
    /\ \E s \in Oldest(Waiting) :
         /\ rows' = [rows EXCEPT ![r] = s]
         /\ pc' = [pc EXCEPT ![r] = IF s = <<>> THEN "commit" ELSE "publish"]
    /\ moved' = [moved EXCEPT ![r] = 0]
    /\ UNCHANGED <<writerVars, marked, ctx, faults, history>>

\* The inner sink takes e.
Reach(e) ==
    /\ sent' = IF e \in Elems(sent) THEN sent ELSE Append(sent, e)
    /\ again' = IF e \in Elems(sent) THEN again \cup {e} ELSE again

PublishRow(r) ==
    LET e == rows[r][moved[r] + 1] IN
    /\ pc[r] = "publish"
    /\ e \notin Poison
    /\ Reach(e)
    /\ pc' = [pc EXCEPT ![r] = "mark"]
    /\ UNCHANGED <<writerVars, marked, ctx, rows, moved, faults, excused>>

\* UPDATE ... SET published_at, within the transaction; then the next row, or
\* the closure's nil return.
MarkRow(r) ==
    /\ pc[r] = "mark"
    /\ ctx[r]
    /\ moved' = [moved EXCEPT ![r] = @ + 1]
    /\ pc' = [pc EXCEPT ![r] = IF moved[r] + 1 < Len(rows[r]) THEN "publish" ELSE "commit"]
    /\ UNCHANGED <<writerVars, marked, ctx, rows, faults, history>>

\* The relay's transaction is over; its locals go out of scope.
EndTx(r, next) ==
    /\ pc' = [pc EXCEPT ![r] = next]
    /\ rows' = [rows EXCEPT ![r] = <<>>]
    /\ moved' = [moved EXCEPT ![r] = 0]

\* A slip: the marks are made outside the transaction, so a rollback keeps them.
MarkedAfterOutside(r) == marked \cup Elems(rows[r])

\* What is marked once relay r's transaction is lost: its updates go with it.
MarkedAfter(r) == marked

\* A full batch means there may be more: drain goes round again.
CommitBatch(r) ==
    /\ pc[r] = "commit"
    /\ ctx[r]
    /\ marked' = marked \cup Elems(rows[r])
    /\ EndTx(r, IF moved[r] < Batch THEN "tick" ELSE "select")
    /\ UNCHANGED <<writerVars, ctx, faults, history>>

\* COMMIT took effect but its reply was lost: relayBatch reports an error, and
\* drain ends its pass.
CommitReplyLost(r) ==
    /\ pc[r] = "commit"
    /\ faults < MaxFaults
    /\ faults' = faults + 1
    /\ marked' = marked \cup Elems(rows[r])
    /\ EndTx(r, "tick")
    /\ UNCHANGED <<writerVars, ctx, history>>

\* Rolled back: what it published stays published, what it marked is not.
Lose(r, next) ==
    /\ marked' = MarkedAfter(r)
    /\ excused' = excused \cup PublishedIn(r)
    /\ EndTx(r, next)
    /\ UNCHANGED <<writerVars, ctx>>

\* A slip: an error ends Relay, not just drain's pass.
TxFailsForGood(r) ==
    /\ pc[r] \in InTx \cup {"select"}
    /\ IF ctx[r] THEN faults < MaxFaults /\ faults' = faults + 1
                 ELSE faults' = faults
    /\ Lose(r, "returned")
    /\ UNCHANGED <<sent, again>>

\* A slip: drain tries again at once instead of ending its pass.
TxFailsAndSpins(r) ==
    /\ pc[r] \in InTx \cup {"select"}
    /\ IF ctx[r] THEN faults < MaxFaults /\ faults' = faults + 1
                 ELSE faults' = faults
    /\ Lose(r, "select")
    /\ UNCHANGED <<sent, again>>

\* A statement, a publish or the commit fails, as all do on a dead ctx: the
\* transaction rolls back as a unit and drain ends its pass.
TxFails(r) ==
    /\ pc[r] \in InTx \cup {"select"}
    /\ IF ctx[r] THEN faults < MaxFaults /\ faults' = faults + 1
                 ELSE faults' = faults
    /\ Lose(r, "tick")
    /\ UNCHANGED <<sent, again>>

\* The inner sink took the event but reported an error.
PublishReplyLost(r) ==
    LET e == rows[r][moved[r] + 1] IN
    /\ pc[r] = "publish"
    /\ e \notin Poison
    /\ faults < MaxFaults
    /\ faults' = faults + 1
    /\ Reach(e)
    /\ excused' = excused \cup PublishedIn(r) \cup {e}
    /\ marked' = MarkedAfter(r)
    /\ EndTx(r, "tick")
    /\ UNCHANGED <<writerVars, ctx>>

\* An event the inner sink will never take: no topic for it, or too large.
PoisonRefused(r) ==
    /\ pc[r] = "publish"
    /\ rows[r][moved[r] + 1] \in Poison
    /\ Lose(r, "tick")
    /\ UNCHANGED <<faults, sent, again>>

\* The process dies; the server ends its transaction with the connection.
Crash(r) ==
    /\ pc[r] \notin {"returned", "crashed"}
    /\ faults < MaxFaults
    /\ faults' = faults + 1
    /\ Lose(r, "crashed")
    /\ UNCHANGED <<sent, again>>

\* Relay's select.  With ctx dead and the ticker ready either may win.
Tick(r) ==
    /\ pc[r] = "tick"
    /\ pc' = [pc EXCEPT ![r] = "select"]
    /\ UNCHANGED <<writerVars, marked, ctx, rows, moved, faults, history>>

RelayReturns(r) ==
    /\ pc[r] = "tick"
    /\ ~ctx[r]
    /\ pc' = [pc EXCEPT ![r] = "returned"]
    /\ UNCHANGED <<writerVars, marked, ctx, rows, moved, faults, history>>

Restart(r) ==
    /\ pc[r] = "crashed"
    /\ pc' = [pc EXCEPT ![r] = "select"]
    /\ UNCHANGED <<writerVars, marked, ctx, rows, moved, faults, history>>

Stop(r) ==
    /\ r \in Stoppable
    /\ ctx[r]
    /\ ctx' = [ctx EXCEPT ![r] = FALSE]
    /\ UNCHANGED <<writerVars, marked, pc, rows, moved, faults, history>>

-----------------------------------------------------------------------------
Writer(e) == BeginTx(e) \/ Emit(e) \/ CommitTx(e) \/ RollbackTx(e)

Relay(r) ==
    \/ SelectBatch(r)
    \/ PublishRow(r)
    \/ MarkRow(r)
    \/ CommitBatch(r)
    \/ CommitReplyLost(r)
    \/ TxFails(r)
    \/ PublishReplyLost(r)
    \/ PoisonRefused(r)
    \/ Tick(r)
    \/ Restart(r)

Next ==
    \/ \E e \in Events : Writer(e)
    \/ \E r \in Relays : Relay(r) \/ RelayReturns(r) \/ Crash(r) \/ Stop(r)

Spec == Init /\ [][Next]_vars

\* Every relay is scheduled, a crashed one is restarted, and Go's select does
\* not pick the ticker over a dead ctx for ever.
Fairness == \A r \in Relays : WF_vars(Relay(r)) /\ SF_vars(RelayReturns(r))

LiveSpec == Spec /\ Fairness
-----------------------------------------------------------------------------
(* Properties                                                              *)

\* Every variable has its type, and a relay has moved no more rows than it
\* selected (relayBatch).
TypeOK ==
    /\ tx \in [Events -> {"none", "open", "committed", "aborted"}]
    /\ row \in [Events -> {"none", "pending", "committed", "gone"}]
    /\ id \in [Events -> Nat]
    /\ seq \in Nat
    /\ marked \subseteq Events
    /\ ctx \in [Relays -> BOOLEAN]
    /\ pc \in [Relays -> {"tick", "select", "publish", "mark", "commit",
                          "returned", "crashed"}]
    /\ rows \in [Relays -> Seq(Events)]
    /\ moved \in [Relays -> Nat]
    /\ \A r \in Relays :
         moved[r] + (IF pc[r] \in {"publish", "mark"} THEN 1 ELSE 0) <= Len(rows[r])
    /\ faults \in 0..MaxFaults
    /\ sent \in Seq(Events)
    /\ again \subseteq Events
    /\ excused \subseteq Events

\* No phantoms: what reached the inner sink was emitted on its own or in a
\* transaction that committed, never in one still open or rolled back
\* (outboxSink.Publish through GetQuerier).
NoPhantom == \A e \in Elems(sent) : tx[e] \in {"none", "committed"}

\* An event goes out twice only if a transaction that had published it was
\* lost before its marks were committed: never because two relays took the
\* same row, or because a committed mark was not seen (relayBatch's FOR UPDATE
\* SKIP LOCKED and WHERE published_at IS NULL).
NoNeedlessDuplicate == again \subseteq excused

\* The outbox keeps the promise of AtLeastOnce: an event is accepted when its
\* row is committed, worked when it reached the inner sink, and retired when
\* its mark is committed.
Promise == INSTANCE AtLeastOnce WITH
    Items <- Events,
    accepted <- {e \in Events : row[e] = "committed"},
    worked <- Elems(sent),
    retired <- marked,
    parked <- {}

RefinesAtLeastOnce == Promise!Spec

\* It keeps the promise of OutboxPromise to whoever reads from the inner sink:
\* only committed rows are sent, none that is marked, and none again but after
\* a transaction that had sent it was lost (relayBatch).
Contract == INSTANCE OutboxPromise WITH
    committed <- {e \in Events : row[e] = "committed"},
    sent <- Elems(sent),
    resent <- again,
    lost <- excused,
    published <- marked

RefinesOutboxPromise == Contract!Spec

\* Only a row ahead of it that the inner sink refuses for good keeps a committed
\* row from being published: failed statements, lost replies, crashes, other
\* relays and poison behind it do not (relayBatch rolls the batch back at the
\* first error, after publishing what came before).
OnlyPoisonHoldsUp ==
    \A e \in Events \ Poison :
        row[e] = "committed" ~>
            e \in Elems(sent) \/ \E p \in Poison : row[p] = "committed" /\ id[p] < id[e]

\* Once its ctx has ended a relay returns, wherever it was.
StopReturns == \A r \in Relays : ~ctx[r] ~> pc[r] = "returned"

\* With one relay and no faults, events reach the inner sink in the order they
\* were emitted (relayBatch's comment: ORDER BY id keeps one relay in emit order).
EmitOrder == \A i, j \in DOMAIN sent : i < j => id[sent[i]] < id[sent[j]]
=============================================================================
