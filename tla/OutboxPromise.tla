--------------------------- MODULE OutboxPromise ---------------------------
(***************************************************************************)
(* What the transactional outbox promises the sink behind it and those who *)
(* read from that sink, whatever relays, batches, rollbacks and crashes    *)
(* are behind it: an event is sent only when its row is committed and not  *)
(* once the row is marked published, it is sent again only if a            *)
(* transaction that had sent it was lost, and it is marked only if sent.   *)
(*                                                                         *)
(* Outbox is shown to implement it; EventPath puts it before an SQS queue. *)
(***************************************************************************)

CONSTANT Events         \* events, each emitted once

VARIABLES
    committed,          \* events whose row is committed
    sent,               \* those the inner sink has taken
    resent,             \* those it has taken more than once
    lost,               \* those sent by a transaction that was lost
    published           \* those whose row is marked published

vars == <<committed, sent, resent, lost, published>>

Init ==
    /\ committed = {}
    /\ sent = {}
    /\ resent = {}
    /\ lost = {}
    /\ published = {}

Commit(e) ==
    /\ e \notin committed
    /\ committed' = committed \cup {e}
    /\ UNCHANGED <<sent, resent, lost, published>>

\* The sink takes e; if its reply is lost then so is the transaction, with e
\* and all of S that it had sent before.
Send(e, S) ==
    /\ e \in committed \ published
    /\ e \in sent => e \in lost
    /\ S \subseteq sent \cup {e}
    /\ sent' = sent \cup {e}
    /\ resent' = IF e \in sent THEN resent \cup {e} ELSE resent
    /\ lost' = lost \cup S
    /\ UNCHANGED <<committed, published>>

\* A transaction is lost that had sent the events of S.
Lose(S) ==
    /\ S \subseteq sent
    /\ lost' = lost \cup S
    /\ UNCHANGED <<committed, sent, resent, published>>

\* A transaction commits that had sent the events of S.
Mark(S) ==
    /\ S \subseteq sent
    /\ published' = published \cup S
    /\ UNCHANGED <<committed, sent, resent, lost>>

Next ==
    \/ \E e \in Events : Commit(e)
    \/ \E e \in Events, S \in SUBSET Events : Send(e, S)
    \/ \E S \in SUBSET Events : Lose(S) \/ Mark(S)

Spec == Init /\ [][Next]_vars
=============================================================================
