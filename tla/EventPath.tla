----------------------------- MODULE EventPath -----------------------------
(***************************************************************************)
(* An event's whole way: the transactional outbox with the SQS sink behind *)
(* it, as the outbox example says it is deployed ("swap MemSink for an SQS *)
(* or Pub/Sub sink and nothing above changes").  The bus publishes through *)
(* the outbox; a relay's s.next.Publish is the sink's SendMessage; the     *)
(* handlers are subscribed to the sink.                                    *)
(*                                                                         *)
(* The worker is SqsWorker as it stands.  The outbox is taken by its       *)
(* promise, OutboxPromise, which Outbox is shown to implement.             *)
(***************************************************************************)
EXTENDS SqsWorker

CONSTANTS
    Events,             \* events, each emitted once
    Carries             \* [Msgs -> Events]: the event a message would carry

ASSUME CarriesAssumption == Carries \in [Msgs -> Events]

VARIABLES
    committed,          \* events whose row is committed
    sent,               \* those the queue has taken
    resent,             \* those it has taken more than once
    lost,               \* those sent by a transaction that was lost
    published           \* those whose row is marked published

tableVars == <<committed, sent, resent, lost, published>>
pathVars  == <<vars, tableVars>>

Table == INSTANCE OutboxPromise

-----------------------------------------------------------------------------
PathInit == Init /\ Table!Init

\* A writer's row is committed.
Emitted(e) == Table!Commit(e) /\ UNCHANGED vars

\* A slip: the relay goes by what is waiting, and not by what it may still see.
RelayedUncommitted(m) ==
    /\ sent' = sent \cup {Carries[m]}
    /\ resent' = IF Carries[m] \in sent THEN resent \cup {Carries[m]} ELSE resent
    /\ Publish(m)
    /\ UNCHANGED <<committed, lost, published>>

\* relayBatch publishes an event: it is sent as a message of its own.
Relayed(m) == \E S \in SUBSET Events : Table!Send(Carries[m], S) /\ Publish(m)

\* A slip: a row is marked before its event is sent.
SettledUnsent(S) ==
    /\ S \subseteq committed
    /\ published' = published \cup S
    /\ UNCHANGED <<committed, sent, resent, lost, vars>>

\* A relay's transaction ends, one way or the other.
Settled(S) == (Table!Lose(S) \/ Table!Mark(S)) /\ UNCHANGED vars

Consumed == Consume /\ UNCHANGED tableVars

PathNext ==
    \/ \E e \in Events : Emitted(e)
    \/ \E m \in Msgs : Relayed(m)
    \/ \E S \in SUBSET Events : Settled(S)
    \/ Consumed

PathSpec == PathInit /\ [][PathNext]_pathVars

\* The worker's fairness, and a relay that gets to every committed row, as it
\* does when the sink takes the rows before it (Outbox's OnlyPoisonHoldsUp).
PathFairness ==
    /\ Fairness
    /\ \A e \in Events :
         WF_pathVars(\E m \in Msgs : Carries[m] = e /\ e \notin sent /\ Relayed(m))

LivePathSpec == PathSpec /\ PathFairness

-----------------------------------------------------------------------------
(* Properties                                                              *)

\* The messages the queue has taken for e.
Copies(e) == {m \in Msgs : Carries[m] = e /\ queue[m] # "unsent"}

\* No phantoms: a handler only ever runs for an event whose row was committed
\* (the outbox example: "no phantoms, none lost").
NoPhantomHandled ==
    \A w \in Loops : pc[w] \in {"dispatch", "delete"} => Carries[InHand(w).msg] \in committed

\* None lost: what the outbox has marked published and will not send again was
\* carried through every handler, or is still in the queue to be, or was parked.
NoneLost ==
    \A e \in published :
        \E m \in Copies(e) : m \in cleared \/ queue[m] \in {"visible", "inflight", "parked"}

\* The handlers of an event complete twice, or run in two loops at once, only
\* if a relay's transaction was lost after the send, or for a reason the worker
\* cannot help: nothing in between adds a duplicate of its own.
HandledOnce ==
    \A e \in Events :
        e \notin lost /\ (\A m \in Copies(e) : m \notin excused) =>
            \A k, m \in Copies(e) :
                /\ settles[m] <= 1
                /\ k # m => settles[k] = 0 \/ settles[m] = 0
                /\ \A v, w \in Loops :
                      /\ v # w
                      /\ pc[v] = "dispatch" /\ InHand(v).msg = k
                      /\ pc[w] = "dispatch" /\ InHand(w).msg = m
                      => FALSE

\* The way as a whole keeps the promise of AtLeastOnce: an event is accepted
\* when its row is committed, worked when a delivery passed every handler, and
\* retired when its row is marked and all its messages are deleted.
EndToEnd == INSTANCE AtLeastOnce WITH
    Items <- Events,
    accepted <- committed,
    worked <- {Carries[m] : m \in cleared},
    retired <- {e \in published : \A m \in Copies(e) : queue[m] = "deleted"},
    parked <- {Carries[m] : m \in {k \in Msgs : queue[k] = "parked"}}

PathRefinesAtLeastOnce == EndToEnd!Spec

\* Every committed event is eventually carried through all its handlers, or
\* parked by the redrive policy.
EventGetsThere == EndToEnd!Delivered
=============================================================================
