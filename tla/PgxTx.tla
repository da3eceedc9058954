------------------------------- MODULE PgxTx -------------------------------
(***************************************************************************)
(* The transaction runner of db/pgxdb: TxCtx and TxSerializableCtx called  *)
(* by concurrent goroutines that share one connection pool, with the retry *)
(* loop around serializable transactions.                                  *)
(*                                                                         *)
(* PostgreSQL is not in the repository.  Of it the model keeps what the    *)
(* runner reacts to: a serializable transaction may be refused, at a       *)
(* statement or at COMMIT, once another one committed after its snapshot   *)
(* was taken, and is refused at COMMIT at the latest (the closures all     *)
(* conflict, as those of examples/serializable, which update one row and   *)
(* so never deadlock).  A read committed transaction is not refused.       *)
(*                                                                         *)
(* Each caller makes one call.  Its closure f may return an error or nil,  *)
(* may panic, may swallow a statement's error, may itself call TxCtx, and  *)
(* may end its goroutine (runtime.Goexit, as a test's FailNow does).       *)
(***************************************************************************)
EXTENDS Naturals, FiniteSets

CONSTANTS
    Callers,            \* goroutines
    Serializable,       \* those that call TxSerializableCtx; the others, TxCtx
    Nesting,            \* those whose f calls TxCtx before its own statements
    Cancellable,        \* those whose ctx may be cancelled
    Exiting,            \* those whose f may end its goroutine
    PoolSize,           \* connections of the pool
    MaxRetries,         \* maxSerializableTxRetries
    MaxFaults           \* bound on lost connections

ASSUME CallersAssumption ==
    /\ IsFiniteSet(Callers)
    /\ Serializable \subseteq Callers
    /\ Nesting \subseteq Callers
    /\ Cancellable \subseteq Callers
    /\ Exiting \subseteq Callers

ASSUME BoundsAssumption ==
    /\ PoolSize \in Nat \ {0}
    /\ MaxRetries \in Nat
    /\ MaxFaults \in Nat

VARIABLES
    ctx,                \* whether the caller's ctx is live
    pc,                 \* where the call is
    attempt,            \* retrySerializable's attempt
    snap,               \* serializable commits the attempt's snapshot holds
    open,               \* whether the attempt's transaction has a connection
    inner,              \* whether the nested transaction has one
    err,                \* what tx returns, or is left with
    outcome,            \* what the call returned, or was left with
    landed,             \* history: how often the call's transaction committed
    faults              \* lost connections so far

vars == <<ctx, pc, attempt, snap, open, inner, err, outcome, landed, faults>>

-----------------------------------------------------------------------------
Errors == {"conflict", "other", "panic", "exit"}

\* How f may leave tx without returning.
Leaving == {"panic", "exit"}

InTx == {"nest", "inner", "body", "work", "aborted", "commit"}

\* Serializable transactions committed so far.
Landed  == {c \in Serializable : landed[c] > 0}
commits == Cardinality(Landed)

InUse == Cardinality({c \in Callers : open[c]}) + Cardinality({c \in Callers : inner[c]})

Conflicts(c) == c \in Serializable /\ snap[c] < commits

\* f, or Commit, is done with an error: the deferred rollback is next.
Fails(c, e) ==
    /\ err' = [err EXCEPT ![c] = e]
    /\ pc' = [pc EXCEPT ![c] = "unwind"]

Init ==
    /\ ctx = [c \in Callers |-> TRUE]
    /\ pc = [c \in Callers |-> "idle"]
    /\ attempt = [c \in Callers |-> 0]
    /\ snap = [c \in Callers |-> 0]
    /\ open = [c \in Callers |-> FALSE]
    /\ inner = [c \in Callers |-> FALSE]
    /\ err = [c \in Callers |-> "none"]
    /\ outcome = [c \in Callers |-> "none"]
    /\ landed = [c \in Callers |-> 0]
    /\ faults = 0

Cancel(c) ==
    /\ c \in Cancellable
    /\ ctx[c]
    /\ ctx' = [ctx EXCEPT ![c] = FALSE]
    /\ UNCHANGED <<pc, attempt, snap, open, inner, err, outcome, landed, faults>>

Call(c) ==
    /\ pc[c] = "idle"
    /\ pc' = [pc EXCEPT ![c] = "begin"]
    /\ UNCHANGED <<ctx, attempt, snap, open, inner, err, outcome, landed, faults>>

-----------------------------------------------------------------------------
(* One attempt: tx                                                         *)

\* A call to the pool or the server fails: its ctx is dead, or a fault.
CallFails(c) ==
    IF ctx[c] THEN /\ faults < MaxFaults
                   /\ faults' = faults + 1
              ELSE faults' = faults

\* pool.BeginTx waits for a connection.
BeginTx(c) ==
    /\ pc[c] = "begin"
    /\ InUse < PoolSize
    /\ open' = [open EXCEPT ![c] = TRUE]
    /\ pc' = [pc EXCEPT ![c] = IF c \in Nesting THEN "nest" ELSE "body"]
    /\ UNCHANGED <<ctx, attempt, snap, inner, err, outcome, landed, faults>>

\* There is no transaction yet, and so nothing to roll back.
BeginFails(c) ==
    /\ pc[c] = "begin"
    /\ CallFails(c)
    /\ err' = [err EXCEPT ![c] = "other"]
    /\ pc' = [pc EXCEPT ![c] = "decide"]
    /\ UNCHANGED <<ctx, attempt, snap, open, inner, outcome, landed>>

\* f calls TxCtx: a second transaction, on a connection of its own.
NestBegin(c) ==
    /\ pc[c] = "nest"
    /\ InUse < PoolSize
    /\ inner' = [inner EXCEPT ![c] = TRUE]
    /\ pc' = [pc EXCEPT ![c] = "inner"]
    /\ UNCHANGED <<ctx, attempt, snap, open, err, outcome, landed, faults>>

NestBeginFails(c) ==
    /\ pc[c] = "nest"
    /\ CallFails(c)
    /\ Fails(c, "other")
    /\ UNCHANGED <<ctx, attempt, snap, open, inner, outcome, landed>>

NestReturns(c) ==
    /\ pc[c] = "inner"
    /\ inner' = [inner EXCEPT ![c] = FALSE]
    /\ pc' = [pc EXCEPT ![c] = "body"]
    /\ UNCHANGED <<ctx, attempt, snap, open, err, outcome, landed, faults>>

\* A slip: the transaction, and its snapshot, outlive the attempt.
SnapshotOnce(c) ==
    /\ pc[c] = "body"
    /\ snap' = [snap EXCEPT ![c] = IF attempt[c] = 0 THEN commits ELSE @]
    /\ pc' = [pc EXCEPT ![c] = "work"]
    /\ UNCHANGED <<ctx, attempt, open, inner, err, outcome, landed, faults>>

\* f's first statement takes the snapshot.
Snapshot(c) ==
    /\ pc[c] = "body"
    /\ snap' = [snap EXCEPT ![c] = commits]
    /\ pc' = [pc EXCEPT ![c] = "work"]
    /\ UNCHANGED <<ctx, attempt, open, inner, err, outcome, landed, faults>>

\* A statement is refused and f hands the error back.
StatementRefused(c) ==
    /\ pc[c] = "work"
    /\ Conflicts(c)
    /\ Fails(c, "conflict")
    /\ UNCHANGED <<ctx, attempt, snap, open, inner, outcome, landed, faults>>

\* A statement is refused and f returns nil all the same: the server answers
\* the COMMIT of an aborted transaction with a rollback.
RefusalSwallowed(c) ==
    /\ pc[c] = "work"
    /\ Conflicts(c)
    /\ pc' = [pc EXCEPT ![c] = "aborted"]
    /\ UNCHANGED <<ctx, attempt, snap, open, inner, err, outcome, landed, faults>>

\* f gives up for reasons of its own, panics, or ends its goroutine; its nested
\* call, if open, has been through the same by then, and so has rolled back
\* unless the goroutine ends.
FReturns(c, e) ==
    /\ pc[c] \in {"inner", "body", "work"}
    /\ e \in {"other"} \cup Leaving
    /\ e = "exit" => c \in Exiting
    /\ inner' = [inner EXCEPT ![c] = @ /\ e = "exit"]
    /\ Fails(c, e)
    /\ UNCHANGED <<ctx, attempt, snap, open, outcome, landed, faults>>

FReturnsNil(c) ==
    /\ pc[c] = "work"
    /\ pc' = [pc EXCEPT ![c] = "commit"]
    /\ UNCHANGED <<ctx, attempt, snap, open, inner, err, outcome, landed, faults>>

\* Commit gives the connection back however it ends.
CommitEnds(c) == open' = [open EXCEPT ![c] = FALSE]

Commit(c) ==
    /\ pc[c] = "commit"
    /\ ~Conflicts(c)
    /\ landed' = [landed EXCEPT ![c] = @ + 1]
    /\ err' = [err EXCEPT ![c] = "none"]
    /\ CommitEnds(c)
    /\ pc' = [pc EXCEPT ![c] = "decide"]
    /\ UNCHANGED <<ctx, attempt, snap, inner, outcome, faults>>

\* A slip: tx hands back f's error, and Commit's only to the rollback.
CommitRefusedUnseen(c) ==
    /\ \/ pc[c] = "commit" /\ Conflicts(c)
       \/ pc[c] = "aborted"
    /\ err' = [err EXCEPT ![c] = "none"]
    /\ pc' = [pc EXCEPT ![c] = "decide"]
    /\ CommitEnds(c)
    /\ UNCHANGED <<ctx, attempt, snap, inner, outcome, landed, faults>>

CommitRefused(c) ==
    /\ \/ pc[c] = "commit" /\ Conflicts(c) /\ Fails(c, "conflict")
       \/ pc[c] = "aborted" /\ Fails(c, "other")
    /\ CommitEnds(c)
    /\ UNCHANGED <<ctx, attempt, snap, inner, outcome, landed, faults>>

\* The connection or the ctx dies under the COMMIT: it took effect or not.
CommitUnanswered(c, took) ==
    /\ pc[c] = "commit"
    /\ CallFails(c)
    /\ took => ~Conflicts(c)
    /\ landed' = [landed EXCEPT ![c] = IF took THEN @ + 1 ELSE @]
    /\ Fails(c, "other")
    /\ CommitEnds(c)
    /\ UNCHANGED <<ctx, attempt, snap, inner, outcome>>

\* A slip: a panic goes past the rollback.
RollsBackErrors(c) == err[c] \notin {"none"} \cup Leaving

\* A slip: only a panic is rolled back, an error is not.
RollsBackPanics(c) == err[c] = "panic"

\* The deferred function sees f's panic, f's error and Commit's; a rollback
\* after Commit finds the connection given back already.  When the goroutine
\* ends there is neither a panic to recover nor an error.
RollsBack(c) == err[c] \notin {"none", "exit"}

\* tx ends.  A panic, or the goroutine's end, goes on up through the retry loop.
Unwind(c) ==
    /\ pc[c] = "unwind"
    /\ open' = [open EXCEPT ![c] = @ /\ ~RollsBack(c)]
    /\ pc' = [pc EXCEPT ![c] = IF err[c] \in Leaving THEN "returned" ELSE "decide"]
    /\ outcome' = [outcome EXCEPT ![c] = IF err[c] \in Leaving THEN err[c] ELSE @]
    /\ UNCHANGED <<ctx, attempt, snap, inner, err, landed, faults>>

-----------------------------------------------------------------------------
(* The loop around the attempts: retrySerializable                         *)

\* A slip: MaxRetries attempts in all.
RetriesOneShort(c) ==
    c \in Serializable /\ err[c] = "conflict" /\ ctx[c] /\ attempt[c] + 1 < MaxRetries

\* A slip: whatever the error, and one attempt too many.
RetriesOneMore(c) ==
    c \in Serializable /\ err[c] # "none" /\ ctx[c] /\ attempt[c] <= MaxRetries

\* A slip: any error is worth another attempt.
RetriesAnything(c) ==
    c \in Serializable /\ err[c] # "none" /\ ctx[c] /\ attempt[c] < MaxRetries

Retriable(c) ==
    c \in Serializable /\ err[c] = "conflict" /\ ctx[c] /\ attempt[c] < MaxRetries

Retry(c) ==
    /\ pc[c] = "decide"
    /\ Retriable(c)
    /\ attempt' = [attempt EXCEPT ![c] = @ + 1]
    /\ pc' = [pc EXCEPT ![c] = "begin"]
    /\ UNCHANGED <<ctx, snap, open, inner, err, outcome, landed, faults>>

Return(c) ==
    /\ pc[c] = "decide"
    /\ ~Retriable(c)
    /\ outcome' = [outcome EXCEPT ![c] = IF err[c] = "none" THEN "nil" ELSE err[c]]
    /\ pc' = [pc EXCEPT ![c] = "returned"]
    /\ UNCHANGED <<ctx, attempt, snap, open, inner, err, landed, faults>>

-----------------------------------------------------------------------------
\* What a call does by itself once it has begun and its calls are answered.
Step(c) ==
    \/ BeginTx(c) \/ NestBegin(c) \/ NestReturns(c)
    \/ Snapshot(c) \/ StatementRefused(c) \/ FReturnsNil(c)
    \/ Commit(c) \/ CommitRefused(c)
    \/ Unwind(c) \/ Retry(c) \/ Return(c)

Faulty(c) ==
    \/ BeginFails(c) \/ NestBeginFails(c) \/ RefusalSwallowed(c)
    \/ \E e \in {"other"} \cup Leaving : FReturns(c, e)
    \/ \E took \in BOOLEAN : CommitUnanswered(c, took)

AllReturned == \A c \in Callers : pc[c] = "returned"

Next ==
    \/ \E c \in Callers : Cancel(c) \/ Call(c) \/ Step(c) \/ Faulty(c)
    \/ AllReturned /\ UNCHANGED vars

Spec == Init /\ [][Next]_vars

\* A goroutine runs on, its closure comes to an end, and the pool gives a
\* free connection to one that waits.
Fairness == \A c \in Callers : WF_vars(Step(c))

LiveSpec == Spec /\ Fairness

-----------------------------------------------------------------------------
(* Properties                                                              *)

TypeOK ==
    /\ ctx \in [Callers -> BOOLEAN]
    /\ pc \in [Callers -> {"idle", "begin", "unwind", "decide", "returned"} \cup InTx]
    /\ attempt \in [Callers -> 0..MaxRetries]
    /\ snap \in [Callers -> Nat]
    /\ open \in [Callers -> BOOLEAN]
    /\ inner \in [Callers -> BOOLEAN]
    /\ err \in [Callers -> {"none"} \cup Errors]
    /\ outcome \in [Callers -> {"none", "nil"} \cup Errors]
    /\ landed \in [Callers -> Nat]
    /\ faults \in 0..MaxFaults

\* A call whose ctx is live gives up with a serialization failure only after
\* MaxRetries + 1 other transactions have committed.
GivesUpLate ==
    \A c \in Callers :
        outcome[c] = "conflict" /\ ctx[c] => Cardinality(Landed \ {c}) > MaxRetries

\* A serializable call never ends in a serialization failure when there are
\* no more of them than attempts: "the final count equals the worker count".
RetriesEnough ==
    Cardinality(Serializable) <= MaxRetries + 1 =>
        \A c \in Callers : ctx[c] => outcome[c] # "conflict"

\* The work of a call is committed at most once whatever is retried; it is
\* if the call returned nil, and is not if it failed in a way that says so, or
\* panicked, or never came back.
CommittedOnce ==
    \A c \in Callers :
        /\ landed[c] <= 1
        /\ outcome[c] = "nil" => landed[c] = 1
        /\ outcome[c] \in {"conflict"} \cup Leaving => landed[c] = 0

\* A call that is over, by return or by panic, holds no connection; one whose
\* goroutine ended inside f may (tx's deferred function).
ConnsReturned ==
    \A c \in Callers :
        pc[c] \in {"idle", "decide", "returned"} /\ outcome[c] # "exit" => ~open[c] /\ ~inner[c]

\* Connections that a goroutine took with it.
Leaked == Cardinality({c \in Callers : outcome[c] = "exit" /\ open[c]})
            + Cardinality({c \in Callers : outcome[c] = "exit" /\ inner[c]})

\* As many nesting callers as connections wait on each other for ever: there
\* are fewer, counting the connections that are left.
Spare == Cardinality(Nesting) + Leaked < PoolSize

\* Not everyone waits on everyone: as long as fewer callers nest than there are
\* connections left, a pool with none to give has one in the hands of a call
\* that waits for no other (TxCtx inside TxCtx).
SomeoneGivesBack ==
    Spare /\ InUse >= PoolSize =>
        \E c \in Callers : (open[c] \/ inner[c]) /\ pc[c] \notin {"nest", "returned"}

\* The runner keeps the promise of TxPromise: a call takes effect when its
\* transaction commits, and is answered by what it returned.
Promise == INSTANCE TxPromise WITH
    Retries <- MaxRetries,
    called <- {c \in Callers : pc[c] # "idle"},
    dead <- {c \in Callers : ~ctx[c]},
    took <- landed,
    answer <- outcome

RefinesTxPromise == Promise!Spec

\* Every call returns, as long as there are connections to spare.
CallsReturn == \A c \in Callers : pc[c] = "begin" ~> pc[c] = "returned" \/ ~Spare
=============================================================================
