---------------------------- MODULE RetryProofs ----------------------------
(***************************************************************************)
(* Retry for any events, workers, attempts, waits and policies: the        *)
(* Exhausted action waits for the last attempt, and every step is a step   *)
(* of AtLeastOnce.                                                         *)
(***************************************************************************)
EXTENDS Retry, TLAPS

\* How often the handler was run, by where the delivery is.
LooksAdd ==
    \A w \in Workers :
        /\ pc[w] = "handler" => looks[w] + 1 = attempt[w]
        /\ pc[w] = "waiting" => looks[w] = attempt[w] /\ attempt[w] # Attempts
        /\ pc[w] = "exhausted" => looks[w] = Attempts

\* A delivery is of an event that was emitted, and is acked for a reason.
AckHasReason ==
    \A w \in Workers :
        /\ pc[w] # "idle" => Emitted(of[w])
        /\ pc[w] = "ack" => of[w] \in worked \cup GivenUp

IInv == TypeOK /\ LooksAdd /\ AckHasReason

-----------------------------------------------------------------------------
LEMMA InitInv == Init => IInv
BY PolicyAssumption, BoundsAssumption
   DEF Init, IInv, TypeOK, Busy, LooksAdd, AckHasReason

LEMMA StepType ==
    ASSUME TypeOK, LooksAdd, [Next]_vars
    PROVE  TypeOK'
<1> USE PolicyAssumption, BoundsAssumption DEF TypeOK, Busy, LooksAdd
<1>1. CASE UNCHANGED vars
  BY <1>1 DEF vars, deliveryVars, history
<1>2. ASSUME NEW e \in Events, Emit(e) PROVE TypeOK'
  BY <1>2 DEF Emit, deliveryVars, history
<1>3. ASSUME NEW e \in Events, Expire(e) PROVE TypeOK'
  BY <1>3 DEF Expire, deliveryVars, history
<1>4. ASSUME NEW e \in Events, NEW how \in {"landed", "undone"}, WriteEnds(e, how) PROVE TypeOK'
  BY <1>4 DEF WriteEnds, deliveryVars, history
<1>5. ASSUME NEW w \in Workers, NEW e \in Events, Deliver(w, e) PROVE TypeOK'
  BY <1>5 DEF Deliver, Goto, history
<1>6. ASSUME NEW w \in Workers, EmptyReceive(w) PROVE TypeOK'
  BY <1>6 DEF EmptyReceive, vars, deliveryVars, history
<1>7. ASSUME NEW w \in Workers, HandlerSucceeds(w) PROVE TypeOK'
  BY <1>7 DEF HandlerSucceeds, Goto
<1>8. ASSUME NEW w \in Workers, HandlerNotFound(w) PROVE TypeOK'
  BY <1>8 DEF HandlerNotFound, Goto, Last, history
<1>9. ASSUME NEW w \in Workers, HandlerFails(w) PROVE TypeOK'
  BY <1>9 DEF HandlerFails, Fault, Goto, history
<1>10. ASSUME NEW w \in Workers, WaitElapses(w) PROVE TypeOK'
  BY <1>10 DEF WaitElapses, Goto, history
<1>11. ASSUME NEW w \in Workers, WaitCancelled(w) PROVE TypeOK'
  BY <1>11 DEF WaitCancelled, Goto, history
<1>12. ASSUME NEW w \in Workers, Nack(w) PROVE TypeOK'
  BY <1>12 DEF Nack, Goto, history
<1>13. ASSUME NEW w \in Workers, Drop(w) PROVE TypeOK'
  BY <1>13 DEF Drop, Goto
<1>14. ASSUME NEW w \in Workers, Park(w) PROVE TypeOK'
  BY <1>14 DEF Park, Goto, history
<1>15. ASSUME NEW w \in Workers, ParkFails(w) PROVE TypeOK'
  BY <1>15 DEF ParkFails, Fault, Goto, history
<1>16. ASSUME NEW w \in Workers, Ack(w) PROVE TypeOK'
  BY <1>16 DEF Ack, Goto
<1>17. ASSUME NEW w \in Workers, Return(w) PROVE TypeOK'
  BY <1>17 DEF Return, Goto, history
<1>18. ASSUME NEW w \in Workers, Crash(w) PROVE TypeOK'
  BY <1>18 DEF Crash, Fault, Goto, history
<1>19. ASSUME NEW w \in Workers, Shutdown(w) PROVE TypeOK'
  BY <1>19 DEF Shutdown, deliveryVars, history
<1> QED
  BY <1>1, <1>2, <1>3, <1>4, <1>5, <1>6, <1>7, <1>8, <1>9, <1>10,
     <1>11, <1>12, <1>13, <1>14, <1>15, <1>16, <1>17, <1>18, <1>19
     DEF Next, Finish, Disturb

LEMMA StepLooks ==
    ASSUME TypeOK, LooksAdd, [Next]_vars
    PROVE  LooksAdd'
<1> USE PolicyAssumption DEF TypeOK, Busy, LooksAdd
<1>1. CASE UNCHANGED vars
  BY <1>1 DEF vars, deliveryVars, history
<1>2. ASSUME NEW e \in Events, Emit(e) PROVE LooksAdd'
  BY <1>2 DEF Emit, deliveryVars, history
<1>3. ASSUME NEW e \in Events, Expire(e) PROVE LooksAdd'
  BY <1>3 DEF Expire, deliveryVars, history
<1>4. ASSUME NEW e \in Events, NEW how \in {"landed", "undone"}, WriteEnds(e, how) PROVE LooksAdd'
  BY <1>4 DEF WriteEnds, deliveryVars, history
<1>5. ASSUME NEW w \in Workers, NEW e \in Events, Deliver(w, e) PROVE LooksAdd'
  BY <1>5 DEF Deliver, Goto, history
<1>6. ASSUME NEW w \in Workers, EmptyReceive(w) PROVE LooksAdd'
  BY <1>6 DEF EmptyReceive, vars, deliveryVars, history
<1>7. ASSUME NEW w \in Workers, HandlerSucceeds(w) PROVE LooksAdd'
  BY <1>7 DEF HandlerSucceeds, Goto
<1>8. ASSUME NEW w \in Workers, HandlerNotFound(w) PROVE LooksAdd'
  BY <1>8 DEF HandlerNotFound, Goto, Last, history
<1>9. ASSUME NEW w \in Workers, HandlerFails(w) PROVE LooksAdd'
  BY <1>9 DEF HandlerFails, Fault, Goto, history
<1>10. ASSUME NEW w \in Workers, WaitElapses(w) PROVE LooksAdd'
  BY <1>10 DEF WaitElapses, Goto, history
<1>11. ASSUME NEW w \in Workers, WaitCancelled(w) PROVE LooksAdd'
  BY <1>11 DEF WaitCancelled, Goto, history
<1>12. ASSUME NEW w \in Workers, Nack(w) PROVE LooksAdd'
  BY <1>12 DEF Nack, Goto, history
<1>13. ASSUME NEW w \in Workers, Drop(w) PROVE LooksAdd'
  BY <1>13 DEF Drop, Goto
<1>14. ASSUME NEW w \in Workers, Park(w) PROVE LooksAdd'
  BY <1>14 DEF Park, Goto, history
<1>15. ASSUME NEW w \in Workers, ParkFails(w) PROVE LooksAdd'
  BY <1>15 DEF ParkFails, Fault, Goto, history
<1>16. ASSUME NEW w \in Workers, Ack(w) PROVE LooksAdd'
  BY <1>16 DEF Ack, Goto
<1>17. ASSUME NEW w \in Workers, Return(w) PROVE LooksAdd'
  BY <1>17 DEF Return, Goto, history
<1>18. ASSUME NEW w \in Workers, Crash(w) PROVE LooksAdd'
  BY <1>18 DEF Crash, Fault, Goto, history
<1>19. ASSUME NEW w \in Workers, Shutdown(w) PROVE LooksAdd'
  BY <1>19 DEF Shutdown, deliveryVars, history
<1> QED
  BY <1>1, <1>2, <1>3, <1>4, <1>5, <1>6, <1>7, <1>8, <1>9, <1>10,
     <1>11, <1>12, <1>13, <1>14, <1>15, <1>16, <1>17, <1>18, <1>19
     DEF Next, Finish, Disturb

LEMMA StepReason ==
    ASSUME TypeOK, AckHasReason, [Next]_vars
    PROVE  AckHasReason'
<1> USE DEF TypeOK, Busy, AckHasReason, Emitted, GivenUp
<1>1. CASE UNCHANGED vars
  BY <1>1 DEF vars, deliveryVars, history
<1>2. ASSUME NEW e \in Events, Emit(e) PROVE AckHasReason'
  BY <1>2 DEF Emit, deliveryVars, history
<1>3. ASSUME NEW e \in Events, Expire(e) PROVE AckHasReason'
  BY <1>3 DEF Expire, deliveryVars, history
<1>4. ASSUME NEW e \in Events, NEW how \in {"landed", "undone"}, WriteEnds(e, how) PROVE AckHasReason'
  BY <1>4 DEF WriteEnds, deliveryVars, history
<1>5. ASSUME NEW w \in Workers, NEW e \in Events, Deliver(w, e) PROVE AckHasReason'
  BY <1>5 DEF Deliver, Goto, history
<1>6. ASSUME NEW w \in Workers, EmptyReceive(w) PROVE AckHasReason'
  BY <1>6 DEF EmptyReceive, vars, deliveryVars, history
<1>7. ASSUME NEW w \in Workers, HandlerSucceeds(w) PROVE AckHasReason'
  BY <1>7 DEF HandlerSucceeds, Goto
<1>8. ASSUME NEW w \in Workers, HandlerNotFound(w) PROVE AckHasReason'
  BY <1>8 DEF HandlerNotFound, Goto, Last, history
<1>9. ASSUME NEW w \in Workers, HandlerFails(w) PROVE AckHasReason'
  BY <1>9 DEF HandlerFails, Fault, Goto, history
<1>10. ASSUME NEW w \in Workers, WaitElapses(w) PROVE AckHasReason'
  BY <1>10 DEF WaitElapses, Goto, history
<1>11. ASSUME NEW w \in Workers, WaitCancelled(w) PROVE AckHasReason'
  BY <1>11 DEF WaitCancelled, Goto, history
<1>12. ASSUME NEW w \in Workers, Nack(w) PROVE AckHasReason'
  BY <1>12 DEF Nack, Goto, history
<1>13. ASSUME NEW w \in Workers, Drop(w) PROVE AckHasReason'
  BY <1>13 DEF Drop, Goto
<1>14. ASSUME NEW w \in Workers, Park(w) PROVE AckHasReason'
  BY <1>14 DEF Park, Goto, history
<1>15. ASSUME NEW w \in Workers, ParkFails(w) PROVE AckHasReason'
  BY <1>15 DEF ParkFails, Fault, Goto, history
<1>16. ASSUME NEW w \in Workers, Ack(w) PROVE AckHasReason'
  BY <1>16 DEF Ack, Goto
<1>17. ASSUME NEW w \in Workers, Return(w) PROVE AckHasReason'
  BY <1>17 DEF Return, Goto, history
<1>18. ASSUME NEW w \in Workers, Crash(w) PROVE AckHasReason'
  BY <1>18 DEF Crash, Fault, Goto, history
<1>19. ASSUME NEW w \in Workers, Shutdown(w) PROVE AckHasReason'
  BY <1>19 DEF Shutdown, deliveryVars, history
<1> QED
  BY <1>1, <1>2, <1>3, <1>4, <1>5, <1>6, <1>7, <1>8, <1>9, <1>10,
     <1>11, <1>12, <1>13, <1>14, <1>15, <1>16, <1>17, <1>18, <1>19
     DEF Next, Finish, Disturb

\* IInv holds initially and every step preserves it.
THEOREM Inductive == Spec => []IInv
<1>1. Init => IInv
  BY InitInv
<1>2. IInv /\ [Next]_vars => IInv'
  BY StepType, StepLooks, StepReason DEF IInv
<1> QED
  BY <1>1, <1>2, PTL DEF Spec

-----------------------------------------------------------------------------
\* Every variable of the retried deliveries keeps its type: above all, no
\* delivery makes more than Attempts attempts.
THEOREM TypeCorrect == Spec => []TypeOK
<1>1. IInv => TypeOK
  BY DEF IInv
<1> QED
  BY <1>1, Inductive, PTL

\* The Exhausted action is for deliveries that have looked Attempts times.
THEOREM SpentBeforeExhaustedEver == Spec => []SpentBeforeExhausted
<1>1. IInv => SpentBeforeExhausted
  BY DEF IInv, LooksAdd, SpentBeforeExhausted
<1> QED
  BY <1>1, Inductive, PTL

-----------------------------------------------------------------------------
(* The refinement                                                          *)

LEMMA InitPromise == Init => Promise!Init
BY DEF Init, Promise!Init, Emitted, GivenUp

\* Emit accepts, a handler that finds its row works, Park and Drop give up, and
\* Ack retires; every other action stutters.
LEMMA StepPromise ==
    ASSUME IInv, IInv', [Next]_vars
    PROVE  [Promise!Next]_(Promise!vars)
<1> USE DEF IInv, TypeOK, Busy, Emitted, GivenUp, Promise!vars
<1>1. CASE UNCHANGED vars
  BY <1>1 DEF vars, deliveryVars, history
<1>2. ASSUME NEW e \in Events, Emit(e)
      PROVE  [Promise!Next]_(Promise!vars)
  <2>1. Promise!Accept(e)
    BY <1>2 DEF Emit, deliveryVars, history, Promise!Accept
  <2> QED
    BY <2>1 DEF Promise!Next
<1>3. ASSUME NEW e \in Events, Expire(e)
      PROVE  [Promise!Next]_(Promise!vars)
  BY <1>3 DEF Expire, deliveryVars, history
<1>4. ASSUME NEW e \in Events, NEW how \in {"landed", "undone"}, WriteEnds(e, how)
      PROVE  [Promise!Next]_(Promise!vars)
  BY <1>4 DEF WriteEnds, deliveryVars, history
<1>5. ASSUME NEW w \in Workers, NEW e \in Events, Deliver(w, e)
      PROVE  [Promise!Next]_(Promise!vars)
  BY <1>5 DEF Deliver, Goto, history
<1>6. ASSUME NEW w \in Workers, EmptyReceive(w)
      PROVE  [Promise!Next]_(Promise!vars)
  BY <1>6 DEF EmptyReceive, vars, deliveryVars, history
<1>7. ASSUME NEW w \in Workers, HandlerSucceeds(w)
      PROVE  [Promise!Next]_(Promise!vars)
  <2>1. of[w] \in Events /\ Emitted(of[w])
    BY <1>7 DEF HandlerSucceeds, AckHasReason
  <2>2. Promise!Work(of[w])
    BY <1>7, <2>1 DEF HandlerSucceeds, Promise!Work
  <2> QED
    BY <2>1, <2>2 DEF Promise!Next
<1>8. ASSUME NEW w \in Workers, HandlerNotFound(w)
      PROVE  [Promise!Next]_(Promise!vars)
  BY <1>8 DEF HandlerNotFound, Goto, Last, history
<1>9. ASSUME NEW w \in Workers, HandlerFails(w)
      PROVE  [Promise!Next]_(Promise!vars)
  BY <1>9 DEF HandlerFails, Fault, Goto, history
<1>10. ASSUME NEW w \in Workers, WaitElapses(w)
      PROVE  [Promise!Next]_(Promise!vars)
  BY <1>10 DEF WaitElapses, Goto, history
<1>11. ASSUME NEW w \in Workers, WaitCancelled(w)
      PROVE  [Promise!Next]_(Promise!vars)
  BY <1>11 DEF WaitCancelled, Goto, history
<1>12. ASSUME NEW w \in Workers, Nack(w)
      PROVE  [Promise!Next]_(Promise!vars)
  BY <1>12 DEF Nack, Goto, history
<1>13. ASSUME NEW w \in Workers, Drop(w)
      PROVE  [Promise!Next]_(Promise!vars)
  <2>1. of[w] \in Events /\ Emitted(of[w])
    BY <1>13 DEF Drop, AckHasReason
  <2>2. CASE of[w] \in retired
    BY <1>13, <2>2 DEF Drop, history
  <2>3. CASE of[w] \notin retired
    <3>1. Promise!Park(of[w])
      BY <1>13, <2>1, <2>3 DEF Drop, history, Promise!Park
    <3> QED
      BY <2>1, <3>1 DEF Promise!Next
  <2> QED
    BY <2>2, <2>3
<1>14. ASSUME NEW w \in Workers, Park(w)
      PROVE  [Promise!Next]_(Promise!vars)
  <2>1. of[w] \in Events /\ Emitted(of[w])
    BY <1>14 DEF Park, AckHasReason
  <2>2. CASE of[w] \in retired
    BY <1>14, <2>2 DEF Park, history
  <2>3. CASE of[w] \notin retired
    <3>1. Promise!Park(of[w])
      BY <1>14, <2>1, <2>3 DEF Park, history, Promise!Park
    <3> QED
      BY <2>1, <3>1 DEF Promise!Next
  <2> QED
    BY <2>2, <2>3
<1>15. ASSUME NEW w \in Workers, ParkFails(w)
      PROVE  [Promise!Next]_(Promise!vars)
  BY <1>15 DEF ParkFails, Fault, Goto, history
<1>16. ASSUME NEW w \in Workers, Ack(w)
      PROVE  [Promise!Next]_(Promise!vars)
  <2>1. of[w] \in Events /\ Emitted(of[w]) /\ of[w] \in worked \cup GivenUp
    BY <1>16 DEF Ack, AckHasReason
  <2>2. {e \in Events : Emitted(e)}' = {e \in Events : Emitted(e)}
    BY <1>16, <2>1 DEF Ack
  <2>3. CASE of[w] \in GivenUp
    <3>1. retired' = retired /\ GivenUp' = GivenUp /\ worked' = worked
      BY <1>16, <2>3 DEF Ack
    <3> QED
      BY <2>2, <3>1
  <2>4. CASE of[w] \notin GivenUp
    <3>1. PICK S \in SUBSET Events : S = {of[w]}
      BY <2>1
    <3>2. retired' = retired \cup S
      BY <1>16, <2>4, <3>1 DEF Ack
    <3>3. S \subseteq worked \ (GivenUp \ retired)
      BY <2>1, <2>4, <3>1
    <3>4. (GivenUp \ retired)' = GivenUp \ retired
      BY <1>16, <2>4 DEF Ack
    <3>5. Promise!Retire(S)
      BY <1>16, <2>2, <3>2, <3>3, <3>4 DEF Ack, Promise!Retire
    <3> QED
      BY <3>5 DEF Promise!Next
  <2> QED
    BY <2>3, <2>4
<1>17. ASSUME NEW w \in Workers, Return(w)
      PROVE  [Promise!Next]_(Promise!vars)
  BY <1>17 DEF Return, Goto, history, AckHasReason
<1>18. ASSUME NEW w \in Workers, Crash(w)
      PROVE  [Promise!Next]_(Promise!vars)
  BY <1>18 DEF Crash, Fault, Goto, history
<1>19. ASSUME NEW w \in Workers, Shutdown(w)
      PROVE  [Promise!Next]_(Promise!vars)
  BY <1>19 DEF Shutdown, deliveryVars, history
<1> QED
  BY <1>1, <1>2, <1>3, <1>4, <1>5, <1>6, <1>7, <1>8, <1>9, <1>10,
     <1>11, <1>12, <1>13, <1>14, <1>15, <1>16, <1>17, <1>18, <1>19
     DEF Next, Finish, Disturb

\* Retried deliveries implement AtLeastOnce: nothing is acked that was neither
\* worked nor given up by the event's own policy.
THEOREM ImplementsAtLeastOnce == Spec => RefinesAtLeastOnce
<1>1. Init => Promise!Init
  BY InitPromise
<1>2. IInv /\ IInv' /\ [Next]_vars => [Promise!Next]_(Promise!vars)
  BY StepPromise
<1> QED
  BY <1>1, <1>2, Inductive, PTL DEF Spec, RefinesAtLeastOnce, Promise!Spec
=============================================================================
