---------------------------- MODULE AtLeastOnce ----------------------------
(***************************************************************************)
(* What every durable path of the events module promises of an item (an    *)
(* SQS message, an outbox row), whatever happens behind it: once accepted, *)
(* an item is retired only after it was worked.  It may be worked many     *)
(* times, or again after it was retired, and the operator of the transport *)
(* may park one that never works.                                          *)
(*                                                                         *)
(* SqsWorker, Outbox, Retry and Sinks are each shown to implement it.      *)
(***************************************************************************)
EXTENDS FiniteSets

CONSTANT Items          \* the messages or rows a run may see

VARIABLES
    accepted,           \* durably taken over from the producer
    worked,             \* carried through to success at least once
    retired,            \* removed from the transport because they were worked
    parked              \* given up on, a copy kept aside

vars == <<accepted, worked, retired, parked>>

Init ==
    /\ accepted = {}
    /\ worked = {}
    /\ retired = {}
    /\ parked = {}

Accept(i) ==
    /\ i \notin accepted
    /\ accepted' = accepted \cup {i}
    /\ UNCHANGED <<worked, retired, parked>>

Work(i) ==
    /\ i \in accepted
    /\ worked' = worked \cup {i}
    /\ UNCHANGED <<accepted, retired, parked>>

\* A whole set at once: a relay's transaction marks its batch in one commit.
Retire(S) ==
    /\ S \subseteq worked \ parked
    /\ retired' = retired \cup S
    /\ UNCHANGED <<accepted, worked, parked>>

Park(i) ==
    /\ i \in accepted \ retired
    /\ parked' = parked \cup {i}
    /\ UNCHANGED <<accepted, worked, retired>>

Next ==
    \/ \E i \in Items : Accept(i) \/ Work(i) \/ Park(i)
    \/ \E S \in SUBSET Items : Retire(S)

Spec == Init /\ [][Next]_vars

\* The progress half of the promise, stated apart: it needs the fairness of
\* the implementation.
Delivered == \A i \in Items : (i \in accepted) ~> (i \in worked \cup parked)
=============================================================================
