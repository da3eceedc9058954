---------------------------- MODULE SinksProofs -----------------------------
(***************************************************************************)
(* Sinks for any events, handlers, transports, topics, slots and faults:   *)
(* no error is ever stamped in place, every delivery but EventBridge's     *)
(* carries its event's own trace, and every step is a step of AtLeastOnce. *)
(***************************************************************************)
EXTENDS Sinks, TLAPS

Entry == [state : {"none", "queued", "acked", "parked"},
          headers : Items \cup {NoTrace}, deliveries : 0 .. MaxDeliveries]

Delivery == [item : Items, rest : Seq(Handlers), failed : BOOLEAN,
             headers : Items \cup {NoTrace}, clean : BOOLEAN]

LEMMA EntryMoves ==
    ASSUME NEW b \in Entry, NEW st \in {"none", "queued", "acked", "parked"}, NEW hd \in Items \cup {NoTrace}
    PROVE  [b EXCEPT !.state = st] \in Entry /\ [b EXCEPT !.state = st, !.headers = hd] \in Entry
BY DEF Entry

LEMMA DeliveryMoves ==
    ASSUME NEW s \in Delivery, NEW ok \in BOOLEAN, s.rest # <<>>
    PROVE  /\ Onward(s, ok) \in Delivery
           /\ Onward(s, ok).item = s.item /\ Onward(s, ok).headers = s.headers
           /\ Onward(s, ok).rest = Tail(s.rest)
           /\ (s.failed <=> ~s.clean) => (Onward(s, ok).failed <=> ~Onward(s, ok).clean)
<1>1. Nacks(ok) \in BOOLEAN
  BY DEF Nacks
<1>2. s.failed \in BOOLEAN /\ s.clean \in BOOLEAN /\ Tail(s.rest) \in Seq(Handlers)
  BY DEF Delivery
<1>3. PICK r \in Seq(Handlers), f \in BOOLEAN, c \in BOOLEAN :
          /\ r = Tail(s.rest) /\ f = FailedSoFar(s.failed, ok) /\ c = (s.clean /\ ~Nacks(ok))
  BY <1>1, <1>2 DEF FailedSoFar
<1>4. Onward(s, ok) = [s EXCEPT !.rest = r, !.failed = f, !.clean = c]
  BY <1>3 DEF Onward
<1>5. (s.failed <=> ~s.clean) => (f <=> ~c)
  BY <1>1, <1>2, <1>3 DEF FailedSoFar
<1> QED
  BY <1>3, <1>4, <1>5 DEF Delivery

\* A package-level error keeps the Event it was declared with, none.
ErrorsUntouched == shared = NoEvent /\ ErrorsNameTheirEvent

\* The trace of a good event, from its Emit to its handlers.
TraceCarried ==
    transport # "eventbridge" =>
        /\ \A m \in Items : KindOf[m] = "good" /\ broker[m].state # "none" => broker[m].headers = m
        /\ \A d \in Slots : slot[d] # Idle /\ KindOf[slot[d].item] = "good" => slot[d].headers = slot[d].item
        /\ TraceContinues

\* A delivery is of an event the broker holds or has retired, never of one it
\* gave up on; it is answered for exactly what its handlers said; and one that
\* is about to be acked has been worked.
Sound(d) ==
    slot[d] # Idle =>
        /\ broker[slot[d].item].state \in {"queued", "acked"}
        /\ slot[d].failed <=> ~slot[d].clean
        /\ slot[d].rest = <<>> /\ slot[d].clean => slot[d].item \in worked

AnswersForAll == \A d \in Slots : Sound(d)

IInv == TypeOK /\ ErrorsUntouched /\ TraceCarried /\ AnswersForAll

-----------------------------------------------------------------------------
LEMMA InitInv == Init => IInv
BY SinksAssumption
   DEF Init, IInv, TypeOK, ErrorsUntouched, ErrorsNameTheirEvent, TraceCarried, TraceContinues, AnswersForAll, Sound

LEMMA StepType ==
    ASSUME TypeOK, [Next]_vars
    PROVE  TypeOK'
<1> USE SinksAssumption DEF TypeOK
<1>1. CASE UNCHANGED vars
  BY <1>1 DEF vars, host, handling, pulls, errors
<1>2. ASSUME NEW h \in Handlers, On(h)
      PROVE  TypeOK'
  <2>1. /\ h \in Handlers /\ OnName[h] \in Names /\ subs[OnName[h]] \in Seq(Handlers)
        /\ subs \in [Names -> Seq(Handlers)]
    BY <1>2
  <2>2. PICK s : s = IF transport = "pull" THEN <<h>> ELSE Append(subs[OnName[h]], h)
    OBVIOUS
  <2>3. s \in Seq(Handlers)
    <3>1. <<h>> \in Seq(Handlers)
      BY <2>1
    <3>2. Append(subs[OnName[h]], h) \in Seq(Handlers)
      BY <2>1
    <3> QED
      BY <2>2, <3>1, <3>2
  <2>4. subs' = [subs EXCEPT ![OnName[h]] = s]
    BY <1>2, <2>2 DEF On
  <2>5. subs' \in [Names -> Seq(Handlers)]
    BY <2>1, <2>3, <2>4
  <2>6. registered' \subseteq Handlers
    BY <1>2 DEF On
  <2>7. /\ UNCHANGED <<transport, coercer, shared, reports, receivers, receive>>
        /\ UNCHANGED <<emit, broker, tasks, slot, confirmed, faults, due, heard, worked, lost>>
    BY <1>2 DEF On, host, pulls, errors
  <2> QED
    BY <2>5, <2>6, <2>7
<1>3. ASSUME NEW m \in Items, EmitRefused(m)
      PROVE  TypeOK'
  <2>1. emit' = [emit EXCEPT ![m] = Failed] /\ Failed \in {"ok", "failed"}
    BY <1>3 DEF EmitRefused, EmitMoves, Failed
  <2>2. emit' \in [Items -> {"new", "publishing", "ok", "failed"}]
    BY <2>1
  <2>3. shared' \in Names \cup {NoEvent} /\ reports' \subseteq Items \X Names
    BY <1>3 DEF EmitRefused, EmitMoves, Reported, SharedAfter, Stamped, errors
  <2>4. UNCHANGED <<host, handling, slot, pulls, confirmed, heard, worked, lost, broker, tasks, faults, due>>
    BY <1>3 DEF EmitRefused, EmitMoves
  <2> QED
    BY <2>2, <2>3, <2>4 DEF host, handling, pulls
<1>4. ASSUME NEW m \in Items, EmitStarts(m)
      PROVE  TypeOK'
  <2>1. Owed(NameOf[m]) \in SUBSET Handlers
    BY DEF Owed, Range
  <2> QED
    BY <1>4, <2>1 DEF EmitStarts, EmitMoves, Reported, SharedAfter, Stamped, host, handling, pulls, errors
<1>5. ASSUME NEW m \in Items, PublishMem(m)
      PROVE  TypeOK'
  <2>1. Range(subs[NameOf[m]]) \subseteq Handlers
    BY DEF Range
  <2>2. tasks' \subseteq Items \X Handlers
    BY <1>5, <2>1 DEF PublishMem
  <2> QED
    BY <1>5, <2>2 DEF PublishMem, EmitMoves, Reported, SharedAfter, Stamped, host, handling, pulls, errors
<1>6. ASSUME NEW m \in Items, AlienArrives(m)
      PROVE  TypeOK'
  <2>1. broker[m] \in Entry
    BY DEF Entry
  <2>2. [broker[m] EXCEPT !.state = "queued"] \in Entry
    BY <2>1, EntryMoves DEF Carries
  <2>3. broker' \in [Items -> Entry]
    BY <1>6, <2>2 DEF AlienArrives, Entry
  <2> QED
    BY <1>6, <2>3 DEF AlienArrives, Entry, host, handling, pulls, errors
<1>7. ASSUME NEW m \in Items, Take(m)
      PROVE  TypeOK'
  <2>1. broker[m] \in Entry
    BY DEF Entry
  <2>2. [broker[m] EXCEPT !.state = "queued", !.headers = Carries(m)] \in Entry
    BY <2>1, EntryMoves DEF Carries
  <2>3. broker' \in [Items -> Entry]
    BY <1>7, <2>2 DEF Take, Carries, Entry
  <2> QED
    BY <1>7, <2>3 DEF Take, Carries, Entry, host, handling, pulls, errors
<1>8. ASSUME NEW m \in Items, PublishReturns(m)
      PROVE  TypeOK'
  BY <1>8 DEF PublishReturns, EmitMoves, Reported, SharedAfter, Stamped, host, handling, pulls,
     errors
<1>9. ASSUME NEW m \in Items, PublishFails(m)
      PROVE  TypeOK'
  <2>1. emit' = [emit EXCEPT ![m] = Failed] /\ Failed \in {"ok", "failed"}
    BY <1>9 DEF PublishFails, EmitMoves, Failed
  <2>2. emit' \in [Items -> {"new", "publishing", "ok", "failed"}]
    BY <2>1
  <2>3. shared' \in Names \cup {NoEvent} /\ reports' \subseteq Items \X Names
    BY <1>9 DEF PublishFails, EmitMoves, Reported, SharedAfter, Stamped, errors
  <2>4. faults' \in 0 .. MaxFaults
    BY <1>9 DEF PublishFails, Fault
  <2>5. UNCHANGED <<host, handling, slot, pulls, confirmed, heard, worked, lost, broker, tasks, due>>
    BY <1>9 DEF PublishFails, EmitMoves
  <2> QED
    BY <2>2, <2>3, <2>4, <2>5 DEF host, handling, pulls
<1>10. ASSUME NEW m \in Items, DeadLetter(m)
      PROVE  TypeOK'
  <2>1. broker[m] \in Entry
    BY DEF Entry
  <2>2. [broker[m] EXCEPT !.state = "parked"] \in Entry
    BY <2>1, EntryMoves DEF Carries
  <2>3. broker' \in [Items -> Entry]
    BY <1>10, <2>2 DEF DeadLetter, Entry
  <2> QED
    BY <1>10, <2>3 DEF DeadLetter, Entry, host, handling, pulls, errors
<1>11. ASSUME NEW m \in Items, NEW h \in Handlers, NEW ok \in BOOLEAN, RunTask(m, h, ok)
      PROVE  TypeOK'
  <2>1. heard' \subseteq Items \X Handlers \X (Items \cup {NoTrace})
    BY <1>11 DEF RunTask, Heard
  <2>2. faults' \in 0 .. MaxFaults
    BY <1>11 DEF RunTask, MayReturn, Faults
  <2>3. shared' \in Names \cup {NoEvent} /\ reports' \subseteq Items \X Names
    BY <1>11 DEF RunTask, Reported, SharedAfter, Stamped, errors
  <2>4. tasks' \subseteq Items \X Handlers
    BY <1>11 DEF RunTask
  <2>5. UNCHANGED <<host, handling, emit, broker, slot, pulls, confirmed, due, worked, lost>>
    BY <1>11 DEF RunTask
  <2> QED
    BY <2>1, <2>2, <2>3, <2>4, <2>5 DEF host, handling, pulls
<1>12. ASSUME NEW m \in Items, NEW d \in Slots, Deliver(m, d)
      PROVE  TypeOK'
  <2>1. broker[m] \in Entry /\ broker[m].deliveries + 1 \in 0 .. MaxDeliveries
    BY <1>12 DEF Deliver, Entry
  <2>2. broker' = [broker EXCEPT ![m].deliveries = broker[m].deliveries + 1]
    BY <1>12 DEF Deliver
  <2>3. broker' \in [Items -> Entry]
    BY <2>1, <2>2 DEF Entry
  <2>4. Audience(NameOf[m]) \in Seq(Handlers)
    BY <1>12 DEF Deliver, Reachable, Audience
  <2>5. slot' \in [Slots -> {Idle} \cup Delivery]
    <3>1. PICK s \in Delivery :
              s = [item |-> m, rest |-> Audience(NameOf[m]), failed |-> FALSE,
                   headers |-> broker[m].headers, clean |-> TRUE]
      BY <2>1, <2>4 DEF Delivery, Entry
    <3>2. slot' = [slot EXCEPT ![d] = s]
      BY <1>12, <3>1 DEF Deliver
    <3> QED
      BY <3>2 DEF Delivery
  <2>6. worked' \subseteq Items
    BY <1>12 DEF Deliver, Works
  <2>7. UNCHANGED <<errors, host, handling, emit, tasks, pulls, confirmed, faults, due, heard, lost>>
    BY <1>12 DEF Deliver
  <2> QED
    BY <2>3, <2>5, <2>6, <2>7 DEF Entry, Delivery, errors, host, handling, pulls
<1>13. ASSUME NEW d \in Slots, NEW ok \in BOOLEAN, HandlerReturns(d, ok)
      PROVE  TypeOK'
  <2> DEFINE was == slot[d]
              now == slot'[d]
  <2>1. was \in Delivery /\ was.rest # <<>> /\ Head(was.rest) \in Handlers /\ Tail(was.rest) \in Seq(Handlers)
    BY <1>13 DEF HandlerReturns, Delivering, Delivery
  <2>2. now = Onward(was, ok)
    BY <1>13 DEF HandlerReturns
  <2>3. now \in Delivery
    BY <2>1, <2>2, DeliveryMoves
  <2>4. slot' \in [Slots -> {Idle} \cup Delivery]
    BY <1>13, <2>3 DEF HandlerReturns, Delivery
  <2>5. heard' \subseteq Items \X Handlers \X (Items \cup {NoTrace})
    BY <1>13, <2>1 DEF HandlerReturns, Heard, Delivery
  <2>6. worked' \subseteq Items /\ faults' \in 0 .. MaxFaults
    BY <1>13, <2>1 DEF HandlerReturns, MayReturn, Faults, Delivery
  <2>7. shared' \in Names \cup {NoEvent} /\ reports' \subseteq Items \X Names
    BY <1>13, <2>1 DEF HandlerReturns, Reported, SharedAfter, Stamped, errors, Delivery
  <2> QED
    BY <1>13, <2>4, <2>5, <2>6, <2>7 DEF HandlerReturns, Delivery, host, handling, pulls
<1>14. ASSUME NEW d \in Slots, Ack(d)
      PROVE  TypeOK'
  <2>1. slot[d].item \in Items
    BY <1>14 DEF Ack, Answered, Delivering
  <2>2. [broker[slot[d].item] EXCEPT !.state = "acked"] \in Entry
    <3>1. broker[slot[d].item] \in Entry
      BY <2>1 DEF Entry
    <3> QED
      BY <3>1, EntryMoves
  <2>3. broker' \in [Items -> Entry]
    BY <1>14, <2>1, <2>2 DEF Ack, Entry
  <2> QED
    BY <1>14, <2>3 DEF Ack, Answered, Delivering, Entry, host, handling, pulls, errors
<1>15. ASSUME NEW d \in Slots, Nack(d)
      PROVE  TypeOK'
  BY <1>15 DEF Nack, Answered, Delivering, host, handling, pulls, errors
<1>16. ASSUME NEW d \in Slots, AckLost(d)
      PROVE  TypeOK'
  BY <1>16 DEF AckLost, Answered, Delivering, Fault, host, handling, pulls, errors
<1>17. ASSUME Confirm PROVE TypeOK'
  BY <1>17 DEF Confirm, host, handling, pulls, errors
<1>18. ASSUME Receive PROVE TypeOK'
  BY <1>18 DEF Receive, Started, PullMoves, host, handling, pulls, errors
<1>19. ASSUME Cancel PROVE TypeOK'
  BY <1>19 DEF Cancel, PullMoves, host, handling, pulls, errors
<1>20. ASSUME ReceiveReturns PROVE TypeOK'
  BY <1>20 DEF ReceiveReturns, PullMoves, host, handling, pulls, errors
<1>21. ASSUME NEW n \in Names, ReceiverStops(n)
      PROVE  TypeOK'
  BY <1>21 DEF ReceiverStops, Stop, PullMoves, host, handling, pulls, errors
<1>22. ASSUME NEW n \in Names, ReceiverFails(n)
      PROVE  TypeOK'
  <2>1. receivers' \in [Names -> Handlers \cup {NotRunning}]
    BY <1>22 DEF ReceiverFails, Stop
  <2>2. faults' \in 0 .. MaxFaults
    BY <1>22 DEF ReceiverFails, Fault
  <2>3. PullMoves /\ UNCHANGED receive
    BY <1>22 DEF ReceiverFails, Stop
  <2> QED
    BY <2>1, <2>2, <2>3 DEF PullMoves, host, handling, errors
<1>23. ASSUME Crash PROVE TypeOK'
  BY <1>23 DEF Crash, Fault, host, handling, pulls, errors
<1> HIDE DEF TypeOK
<1> QED
  BY <1>1, <1>2, <1>3, <1>4, <1>5, <1>6, <1>7, <1>8, <1>9, <1>10, <1>11, <1>12,
     <1>13, <1>14, <1>15, <1>16, <1>17, <1>18, <1>19, <1>20, <1>21, <1>22, <1>23
     DEF Next

LEMMA StepErrors ==
    ASSUME TypeOK, ErrorsUntouched, [Next]_vars
    PROVE  ErrorsUntouched'
<1> USE SinksAssumption DEF ErrorsUntouched, ErrorsNameTheirEvent
<1>1. CASE UNCHANGED vars
  BY <1>1 DEF vars, host, handling, pulls, errors
<1>2. ASSUME NEW h \in Handlers, On(h)
      PROVE  ErrorsUntouched'
  BY <1>2 DEF On, host, handling, pulls, errors
<1>3. ASSUME NEW m \in Items, EmitRefused(m)
      PROVE  ErrorsUntouched'
  BY <1>3 DEF EmitRefused, EmitMoves, Reported, SharedAfter, Stamped, Failed, host, handling,
     pulls, errors
<1>4. ASSUME NEW m \in Items, EmitStarts(m)
      PROVE  ErrorsUntouched'
  BY <1>4 DEF EmitStarts, EmitMoves, Reported, SharedAfter, Stamped, Owed, host, handling,
     pulls, errors
<1>5. ASSUME NEW m \in Items, PublishMem(m)
      PROVE  ErrorsUntouched'
  BY <1>5 DEF PublishMem, EmitMoves, Reported, SharedAfter, Stamped, host, handling, pulls, errors
<1>6. ASSUME NEW m \in Items, AlienArrives(m)
      PROVE  ErrorsUntouched'
  BY <1>6 DEF AlienArrives, host, handling, pulls, errors
<1>7. ASSUME NEW m \in Items, Take(m)
      PROVE  ErrorsUntouched'
  BY <1>7 DEF Take, Carries, host, handling, pulls, errors
<1>8. ASSUME NEW m \in Items, PublishReturns(m)
      PROVE  ErrorsUntouched'
  BY <1>8 DEF PublishReturns, EmitMoves, Reported, SharedAfter, Stamped, host, handling, pulls,
     errors
<1>9. ASSUME NEW m \in Items, PublishFails(m)
      PROVE  ErrorsUntouched'
  BY <1>9 DEF PublishFails, EmitMoves, Reported, SharedAfter, Stamped, Fault, Failed, host,
     handling, pulls, errors
<1>10. ASSUME NEW m \in Items, DeadLetter(m)
      PROVE  ErrorsUntouched'
  BY <1>10 DEF DeadLetter, Delivering, host, handling, pulls, errors
<1>11. ASSUME NEW m \in Items, NEW h \in Handlers, NEW ok \in BOOLEAN, RunTask(m, h, ok)
      PROVE  ErrorsUntouched'
  BY <1>11 DEF RunTask, MayReturn, Faults, Heard, Reported, SharedAfter, Stamped, host,
     handling, pulls, errors
<1>12. ASSUME NEW m \in Items, NEW d \in Slots, Deliver(m, d)
      PROVE  ErrorsUntouched'
  BY <1>12 DEF Deliver, Reachable, Audience, Works, host, handling, pulls, errors
<1>13. ASSUME NEW d \in Slots, NEW ok \in BOOLEAN, HandlerReturns(d, ok)
      PROVE  ErrorsUntouched'
  BY <1>13 DEF HandlerReturns, Delivering, MayReturn, Faults, FailedSoFar, Nacks, Heard,
     Reported, SharedAfter, Stamped, Works, host, handling, pulls, errors
<1>14. ASSUME NEW d \in Slots, Ack(d)
      PROVE  ErrorsUntouched'
  BY <1>14 DEF Ack, Answered, Delivering, host, handling, pulls, errors
<1>15. ASSUME NEW d \in Slots, Nack(d)
      PROVE  ErrorsUntouched'
  BY <1>15 DEF Nack, Answered, Delivering, host, handling, pulls, errors
<1>16. ASSUME NEW d \in Slots, AckLost(d)
      PROVE  ErrorsUntouched'
  BY <1>16 DEF AckLost, Answered, Delivering, Fault, host, handling, pulls, errors
<1>17. ASSUME Confirm PROVE ErrorsUntouched'
  BY <1>17 DEF Confirm, host, handling, pulls, errors
<1>18. ASSUME Receive PROVE ErrorsUntouched'
  BY <1>18 DEF Receive, Started, PullMoves, host, handling, pulls, errors
<1>19. ASSUME Cancel PROVE ErrorsUntouched'
  BY <1>19 DEF Cancel, PullMoves, host, handling, pulls, errors
<1>20. ASSUME ReceiveReturns PROVE ErrorsUntouched'
  BY <1>20 DEF ReceiveReturns, PullMoves, host, handling, pulls, errors
<1>21. ASSUME NEW n \in Names, ReceiverStops(n)
      PROVE  ErrorsUntouched'
  BY <1>21 DEF ReceiverStops, Stop, PullMoves, host, handling, pulls, errors
<1>22. ASSUME NEW n \in Names, ReceiverFails(n)
      PROVE  ErrorsUntouched'
  BY <1>22 DEF ReceiverFails, Stop, PullMoves, Fault, host, handling, pulls, errors
<1>23. ASSUME Crash PROVE ErrorsUntouched'
  BY <1>23 DEF Crash, Fault, host, handling, pulls, errors
<1> HIDE DEF ErrorsUntouched, ErrorsNameTheirEvent
<1> QED
  BY <1>1, <1>2, <1>3, <1>4, <1>5, <1>6, <1>7, <1>8, <1>9, <1>10, <1>11, <1>12,
     <1>13, <1>14, <1>15, <1>16, <1>17, <1>18, <1>19, <1>20, <1>21, <1>22, <1>23
     DEF Next

LEMMA StepTrace ==
    ASSUME TypeOK, TraceCarried, AnswersForAll, [Next]_vars
    PROVE  TraceCarried'
<1> USE SinksAssumption DEF TypeOK, TraceCarried, TraceContinues
<1>1. CASE UNCHANGED vars
  BY <1>1 DEF vars, host, handling, pulls, errors
<1>2. ASSUME NEW h \in Handlers, On(h)
      PROVE  TraceCarried'
  BY <1>2 DEF On, host, handling, pulls, errors
<1>3. ASSUME NEW m \in Items, EmitRefused(m)
      PROVE  TraceCarried'
  BY <1>3 DEF EmitRefused, EmitMoves, Reported, SharedAfter, Stamped, Failed, host, handling,
     pulls, errors
<1>4. ASSUME NEW m \in Items, EmitStarts(m)
      PROVE  TraceCarried'
  BY <1>4 DEF EmitStarts, EmitMoves, Reported, SharedAfter, Stamped, Owed, host, handling,
     pulls, errors
<1>5. ASSUME NEW m \in Items, PublishMem(m)
      PROVE  TraceCarried'
  BY <1>5 DEF PublishMem, EmitMoves, Reported, SharedAfter, Stamped, host, handling, pulls, errors
<1>6. ASSUME NEW m \in Items, AlienArrives(m)
      PROVE  TraceCarried'
  BY <1>6 DEF AlienArrives, host, handling, pulls, errors
<1>7. ASSUME NEW m \in Items, Take(m)
      PROVE  TraceCarried'
  BY <1>7 DEF Take, Carries, host, handling, pulls, errors
<1>8. ASSUME NEW m \in Items, PublishReturns(m)
      PROVE  TraceCarried'
  BY <1>8 DEF PublishReturns, EmitMoves, Reported, SharedAfter, Stamped, host, handling, pulls,
     errors
<1>9. ASSUME NEW m \in Items, PublishFails(m)
      PROVE  TraceCarried'
  BY <1>9 DEF PublishFails, EmitMoves, Reported, SharedAfter, Stamped, Fault, Failed, host,
     handling, pulls, errors
<1>10. ASSUME NEW m \in Items, DeadLetter(m)
      PROVE  TraceCarried'
  BY <1>10 DEF DeadLetter, Delivering, host, handling, pulls, errors
<1>11. ASSUME NEW m \in Items, NEW h \in Handlers, NEW ok \in BOOLEAN, RunTask(m, h, ok)
      PROVE  TraceCarried'
  BY <1>11 DEF RunTask, MayReturn, Faults, Heard, Reported, SharedAfter, Stamped, host,
     handling, pulls, errors
<1>12. ASSUME NEW m \in Items, NEW d \in Slots, Deliver(m, d)
      PROVE  TraceCarried'
  BY <1>12 DEF Deliver, Reachable, Audience, Works, host, handling, pulls, errors
<1>13. ASSUME NEW d \in Slots, NEW ok \in BOOLEAN, HandlerReturns(d, ok)
      PROVE  TraceCarried'
  <2>1. slot[d] \in Delivery /\ slot[d].rest # <<>>
    BY <1>13 DEF HandlerReturns, Delivering, Delivery
  <2>2. slot'[d] = Onward(slot[d], ok)
    BY <1>13 DEF HandlerReturns
  <2>3. slot'[d].item = slot[d].item /\ slot'[d].headers = slot[d].headers
    BY <2>1, <2>2, DeliveryMoves
  <2> QED
    BY <1>13, <2>3 DEF HandlerReturns, Delivering, Heard, host
<1>14. ASSUME NEW d \in Slots, Ack(d)
      PROVE  TraceCarried'
  <2>1. slot[d].item \in Items
    BY <1>14 DEF Ack, Answered, Delivering
  <2>2. \A m \in Items : broker'[m].headers = broker[m].headers
    BY <1>14, <2>1 DEF Ack
  <2>3. \A m \in Items : broker'[m].state # "none" => broker[m].state # "none"
    BY <1>14, <2>1 DEF Ack, Answered, Delivering, AnswersForAll, Sound
  <2> QED
    BY <1>14, <2>1, <2>2, <2>3 DEF Ack, Answered, Delivering, host
<1>15. ASSUME NEW d \in Slots, Nack(d)
      PROVE  TraceCarried'
  BY <1>15 DEF Nack, Answered, Delivering, host, handling, pulls, errors
<1>16. ASSUME NEW d \in Slots, AckLost(d)
      PROVE  TraceCarried'
  BY <1>16 DEF AckLost, Answered, Delivering, Fault, host, handling, pulls, errors
<1>17. ASSUME Confirm PROVE TraceCarried'
  BY <1>17 DEF Confirm, host, handling, pulls, errors
<1>18. ASSUME Receive PROVE TraceCarried'
  BY <1>18 DEF Receive, Started, PullMoves, host, handling, pulls, errors
<1>19. ASSUME Cancel PROVE TraceCarried'
  BY <1>19 DEF Cancel, PullMoves, host, handling, pulls, errors
<1>20. ASSUME ReceiveReturns PROVE TraceCarried'
  BY <1>20 DEF ReceiveReturns, PullMoves, host, handling, pulls, errors
<1>21. ASSUME NEW n \in Names, ReceiverStops(n)
      PROVE  TraceCarried'
  BY <1>21 DEF ReceiverStops, Stop, PullMoves, host, handling, pulls, errors
<1>22. ASSUME NEW n \in Names, ReceiverFails(n)
      PROVE  TraceCarried'
  BY <1>22 DEF ReceiverFails, Stop, PullMoves, Fault, host, handling, pulls, errors
<1>23. ASSUME Crash PROVE TraceCarried'
  BY <1>23 DEF Crash, Fault, host, handling, pulls, errors
<1> HIDE DEF TypeOK, TraceCarried, TraceContinues
<1> QED
  BY <1>1, <1>2, <1>3, <1>4, <1>5, <1>6, <1>7, <1>8, <1>9, <1>10, <1>11, <1>12,
     <1>13, <1>14, <1>15, <1>16, <1>17, <1>18, <1>19, <1>20, <1>21, <1>22, <1>23
     DEF Next

LEMMA StepAnswers ==
    ASSUME TypeOK, AnswersForAll, [Next]_vars
    PROVE  AnswersForAll'
<1> USE SinksAssumption DEF TypeOK, AnswersForAll, Sound
<1>1. CASE UNCHANGED vars
  BY <1>1 DEF vars, host, handling, pulls, errors
<1>2. ASSUME NEW h \in Handlers, On(h)
      PROVE  AnswersForAll'
  BY <1>2 DEF On, host, handling, pulls, errors
<1>3. ASSUME NEW m \in Items, EmitRefused(m)
      PROVE  AnswersForAll'
  BY <1>3 DEF EmitRefused, EmitMoves, Reported, SharedAfter, Stamped, Failed, host, handling,
     pulls, errors
<1>4. ASSUME NEW m \in Items, EmitStarts(m)
      PROVE  AnswersForAll'
  BY <1>4 DEF EmitStarts, EmitMoves, Reported, SharedAfter, Stamped, Owed, host, handling,
     pulls, errors
<1>5. ASSUME NEW m \in Items, PublishMem(m)
      PROVE  AnswersForAll'
  BY <1>5 DEF PublishMem, EmitMoves, Reported, SharedAfter, Stamped, host, handling, pulls, errors
<1>6. ASSUME NEW m \in Items, AlienArrives(m)
      PROVE  AnswersForAll'
  BY <1>6 DEF AlienArrives, host, handling, pulls, errors
<1>7. ASSUME NEW m \in Items, Take(m)
      PROVE  AnswersForAll'
  BY <1>7 DEF Take, Carries, host, handling, pulls, errors
<1>8. ASSUME NEW m \in Items, PublishReturns(m)
      PROVE  AnswersForAll'
  BY <1>8 DEF PublishReturns, EmitMoves, Reported, SharedAfter, Stamped, host, handling, pulls,
     errors
<1>9. ASSUME NEW m \in Items, PublishFails(m)
      PROVE  AnswersForAll'
  BY <1>9 DEF PublishFails, EmitMoves, Reported, SharedAfter, Stamped, Fault, Failed, host,
     handling, pulls, errors
<1>10. ASSUME NEW m \in Items, DeadLetter(m)
      PROVE  AnswersForAll'
  BY <1>10 DEF DeadLetter, Delivering, host, handling, pulls, errors
<1>11. ASSUME NEW m \in Items, NEW h \in Handlers, NEW ok \in BOOLEAN, RunTask(m, h, ok)
      PROVE  AnswersForAll'
  BY <1>11 DEF RunTask, MayReturn, Faults, Heard, Reported, SharedAfter, Stamped, host,
     handling, pulls, errors
<1>12. ASSUME NEW m \in Items, NEW d \in Slots, Deliver(m, d)
      PROVE  AnswersForAll'
  <2>1. \A i \in Items : broker'[i].state = broker[i].state
    BY <1>12 DEF Deliver
  <2>2. worked \subseteq worked'
    BY <1>12 DEF Deliver
  <2>3. ASSUME NEW c \in Slots, c # d PROVE Sound(c)'
    <3>1. Sound(c) /\ slot'[c] = slot[c]
      BY <1>12, <2>3 DEF Deliver
    <3>2. slot[c] # Idle => slot[c].item \in Items
      OBVIOUS
    <3>3. slot[c] # Idle => broker'[slot[c].item].state = broker[slot[c].item].state
      BY <2>1, <3>2
    <3> QED
      BY <2>2, <3>1, <3>3 DEF Sound
  <2>4. Sound(d)'
    <3>1. slot'[d].item = m /\ slot'[d].failed = FALSE /\ slot'[d].clean = TRUE
      BY <1>12 DEF Deliver
    <3>2. slot'[d].rest = <<>> => m \in worked'
      BY <1>12 DEF Deliver, Works
    <3>3. broker'[m].state = "queued"
      BY <1>12 DEF Deliver
    <3> QED
      BY <3>1, <3>2, <3>3
  <2> QED
    BY <2>3, <2>4
<1>13. ASSUME NEW d \in Slots, NEW ok \in BOOLEAN, HandlerReturns(d, ok)
      PROVE  AnswersForAll'
  <2>1. broker' = broker /\ worked \subseteq worked'
    BY <1>13 DEF HandlerReturns
  <2>2. ASSUME NEW c \in Slots, c # d PROVE Sound(c)'
    BY <1>13, <2>1, <2>2 DEF HandlerReturns
  <2>3. Sound(d)'
    <3>1. slot[d] \in Delivery /\ slot[d].rest # <<>>
      BY <1>13 DEF HandlerReturns, Delivering, Delivery
    <3>2. slot'[d] = Onward(slot[d], ok)
      BY <1>13 DEF HandlerReturns
    <3>3. slot'[d].rest = <<>> /\ slot'[d].clean => slot[d].item \in worked'
      BY <1>13 DEF HandlerReturns, Works
    <3>4. slot'[d].item = slot[d].item /\ (slot'[d].failed <=> ~slot'[d].clean)
      BY <1>13, <3>1, <3>2, DeliveryMoves DEF HandlerReturns, Delivering
    <3> QED
      BY <1>13, <2>1, <3>3, <3>4 DEF HandlerReturns, Delivering
  <2> QED
    BY <2>2, <2>3
<1>14. ASSUME NEW d \in Slots, Ack(d)
      PROVE  AnswersForAll'
  BY <1>14 DEF Ack, Answered, Delivering, host, handling, pulls, errors
<1>15. ASSUME NEW d \in Slots, Nack(d)
      PROVE  AnswersForAll'
  BY <1>15 DEF Nack, Answered, Delivering, host, handling, pulls, errors
<1>16. ASSUME NEW d \in Slots, AckLost(d)
      PROVE  AnswersForAll'
  BY <1>16 DEF AckLost, Answered, Delivering, Fault, host, handling, pulls, errors
<1>17. ASSUME Confirm PROVE AnswersForAll'
  BY <1>17 DEF Confirm, host, handling, pulls, errors
<1>18. ASSUME Receive PROVE AnswersForAll'
  BY <1>18 DEF Receive, Started, PullMoves, host, handling, pulls, errors
<1>19. ASSUME Cancel PROVE AnswersForAll'
  BY <1>19 DEF Cancel, PullMoves, host, handling, pulls, errors
<1>20. ASSUME ReceiveReturns PROVE AnswersForAll'
  BY <1>20 DEF ReceiveReturns, PullMoves, host, handling, pulls, errors
<1>21. ASSUME NEW n \in Names, ReceiverStops(n)
      PROVE  AnswersForAll'
  BY <1>21 DEF ReceiverStops, Stop, PullMoves, host, handling, pulls, errors
<1>22. ASSUME NEW n \in Names, ReceiverFails(n)
      PROVE  AnswersForAll'
  BY <1>22 DEF ReceiverFails, Stop, PullMoves, Fault, host, handling, pulls, errors
<1>23. ASSUME Crash PROVE AnswersForAll'
  BY <1>23 DEF Crash, Fault, host, handling, pulls, errors
<1> HIDE DEF TypeOK, AnswersForAll, Sound
<1> QED
  BY <1>1, <1>2, <1>3, <1>4, <1>5, <1>6, <1>7, <1>8, <1>9, <1>10, <1>11, <1>12,
     <1>13, <1>14, <1>15, <1>16, <1>17, <1>18, <1>19, <1>20, <1>21, <1>22, <1>23
     DEF Next

\* IInv holds initially and every step preserves it.
THEOREM Inductive == Spec => []IInv
<1>1. Init => IInv
  BY InitInv
<1>2. IInv /\ [Next]_vars => IInv'
  BY StepType, StepErrors, StepTrace, StepAnswers DEF IInv
<1> QED
  BY <1>1, <1>2, PTL DEF Spec

-----------------------------------------------------------------------------
\* Every variable of the sinks keeps its type, on every transport.
THEOREM TypeCorrect == Spec => []TypeOK
<1>1. IInv => TypeOK
  BY DEF IInv
<1> QED
  BY <1>1, Inductive, PTL

\* An error names the event it is about, whoever else returned it before.
THEOREM ErrorsNameTheirEventEver == Spec => []ErrorsNameTheirEvent
<1>1. IInv => ErrorsNameTheirEvent
  BY DEF IInv, ErrorsUntouched
<1> QED
  BY <1>1, Inductive, PTL

\* Over every transport but EventBridge a handler continues the trace its event
\* was emitted under.
THEOREM TraceContinuesEver == Spec => [](transport # "eventbridge" => TraceContinues)
<1>1. IInv => (transport # "eventbridge" => TraceContinues)
  BY DEF IInv, TraceCarried
<1> QED
  BY <1>1, Inductive, PTL

-----------------------------------------------------------------------------
(* The refinement                                                          *)

LEMMA InitPromise == Init => Promise!Init
BY DEF Init, Promise!Init, In

\* The broker taking a message accepts it, the last of its handlers works it,
\* an ack retires it and the broker's policy parks it; the rest stutters.
LEMMA StepPromise ==
    ASSUME IInv, [Next]_vars
    PROVE  [Promise!Next]_(Promise!vars)
<1> USE SinksAssumption DEF IInv, TypeOK, In, Promise!vars
<1>1. CASE UNCHANGED vars
  BY <1>1 DEF vars, host, handling, pulls, errors
<1>2. ASSUME NEW h \in Handlers, On(h)
      PROVE  [Promise!Next]_(Promise!vars)
  BY <1>2 DEF On, host, handling, pulls, errors
<1>3. ASSUME NEW m \in Items, EmitRefused(m)
      PROVE  [Promise!Next]_(Promise!vars)
  BY <1>3 DEF EmitRefused, EmitMoves, Reported, SharedAfter, Stamped, Failed, host, handling,
     pulls, errors
<1>4. ASSUME NEW m \in Items, EmitStarts(m)
      PROVE  [Promise!Next]_(Promise!vars)
  BY <1>4 DEF EmitStarts, EmitMoves, Reported, SharedAfter, Stamped, Owed, host, handling,
     pulls, errors
<1>5. ASSUME NEW m \in Items, PublishMem(m)
      PROVE  [Promise!Next]_(Promise!vars)
  BY <1>5 DEF PublishMem, EmitMoves, Reported, SharedAfter, Stamped, host, handling, pulls, errors
<1>6. ASSUME NEW m \in Items, AlienArrives(m)
      PROVE  [Promise!Next]_(Promise!vars)
  <2>1. Promise!Accept(m)
    BY <1>6 DEF AlienArrives, Promise!Accept
  <2> QED
    BY <2>1 DEF Promise!Next
<1>7. ASSUME NEW m \in Items, Take(m)
      PROVE  [Promise!Next]_(Promise!vars)
  <2>1. Promise!Accept(m)
    BY <1>7 DEF Take, Promise!Accept
  <2> QED
    BY <2>1 DEF Promise!Next
<1>8. ASSUME NEW m \in Items, PublishReturns(m)
      PROVE  [Promise!Next]_(Promise!vars)
  BY <1>8 DEF PublishReturns, EmitMoves, Reported, SharedAfter, Stamped, host, handling, pulls,
     errors
<1>9. ASSUME NEW m \in Items, PublishFails(m)
      PROVE  [Promise!Next]_(Promise!vars)
  BY <1>9 DEF PublishFails, EmitMoves, Reported, SharedAfter, Stamped, Fault, Failed, host,
     handling, pulls, errors
<1>10. ASSUME NEW m \in Items, DeadLetter(m)
      PROVE  [Promise!Next]_(Promise!vars)
  <2>1. Promise!Park(m)
    BY <1>10 DEF DeadLetter, Promise!Park
  <2> QED
    BY <2>1 DEF Promise!Next
<1>11. ASSUME NEW m \in Items, NEW h \in Handlers, NEW ok \in BOOLEAN, RunTask(m, h, ok)
      PROVE  [Promise!Next]_(Promise!vars)
  BY <1>11 DEF RunTask, MayReturn, Faults, Heard, Reported, SharedAfter, Stamped, host,
     handling, pulls, errors
<1>12. ASSUME NEW m \in Items, NEW d \in Slots, Deliver(m, d)
      PROVE  [Promise!Next]_(Promise!vars)
  <2>1. In("none")' = In("none") /\ In("acked")' = In("acked") /\ In("parked")' = In("parked")
    BY <1>12 DEF Deliver
  <2>2. CASE worked' = worked
    BY <2>1, <2>2
  <2>3. CASE worked' = worked \cup {m}
    <3>1. Promise!Work(m)
      BY <1>12, <2>1, <2>3 DEF Deliver, Promise!Work
    <3> QED
      BY <3>1 DEF Promise!Next
  <2> QED
    BY <1>12, <2>2, <2>3 DEF Deliver
<1>13. ASSUME NEW d \in Slots, NEW ok \in BOOLEAN, HandlerReturns(d, ok)
      PROVE  [Promise!Next]_(Promise!vars)
  <2>1. broker' = broker
    BY <1>13 DEF HandlerReturns
  <2>2. CASE worked' = worked
    BY <2>1, <2>2
  <2>3. CASE worked' = worked \cup {slot[d].item}
    <3>1. slot[d].item \in Items /\ broker[slot[d].item].state # "none"
      BY <1>13 DEF HandlerReturns, Delivering, AnswersForAll, Sound
    <3>2. Promise!Work(slot[d].item)
      BY <2>1, <2>3, <3>1 DEF Promise!Work
    <3> QED
      BY <3>1, <3>2 DEF Promise!Next
  <2> QED
    BY <1>13, <2>2, <2>3 DEF HandlerReturns
<1>14. ASSUME NEW d \in Slots, Ack(d)
      PROVE  [Promise!Next]_(Promise!vars)
  <2>1. slot[d].item \in worked /\ broker[slot[d].item].state \in {"queued", "acked"}
    BY <1>14 DEF Ack, Answered, Delivering, AnswersForAll, Sound
  <2>2. PICK S \in SUBSET Items : S = {slot[d].item}
    BY <2>1
  <2>3. In("none")' = In("none") /\ In("parked")' = In("parked") /\ In("acked")' = In("acked") \cup S
    BY <1>14, <2>1, <2>2 DEF Ack
  <2>4. S \subseteq worked \ In("parked") /\ worked' = worked
    BY <1>14, <2>1, <2>2 DEF Ack, Answered
  <2>5. Promise!Retire(S)
    BY <2>3, <2>4 DEF Promise!Retire
  <2> QED
    BY <2>5 DEF Promise!Next
<1>15. ASSUME NEW d \in Slots, Nack(d)
      PROVE  [Promise!Next]_(Promise!vars)
  BY <1>15 DEF Nack, Answered, Delivering, host, handling, pulls, errors
<1>16. ASSUME NEW d \in Slots, AckLost(d)
      PROVE  [Promise!Next]_(Promise!vars)
  BY <1>16 DEF AckLost, Answered, Delivering, Fault, host, handling, pulls, errors
<1>17. ASSUME Confirm PROVE [Promise!Next]_(Promise!vars)
  BY <1>17 DEF Confirm, host, handling, pulls, errors
<1>18. ASSUME Receive PROVE [Promise!Next]_(Promise!vars)
  BY <1>18 DEF Receive, Started, PullMoves, host, handling, pulls, errors
<1>19. ASSUME Cancel PROVE [Promise!Next]_(Promise!vars)
  BY <1>19 DEF Cancel, PullMoves, host, handling, pulls, errors
<1>20. ASSUME ReceiveReturns PROVE [Promise!Next]_(Promise!vars)
  BY <1>20 DEF ReceiveReturns, PullMoves, host, handling, pulls, errors
<1>21. ASSUME NEW n \in Names, ReceiverStops(n)
      PROVE  [Promise!Next]_(Promise!vars)
  BY <1>21 DEF ReceiverStops, Stop, PullMoves, host, handling, pulls, errors
<1>22. ASSUME NEW n \in Names, ReceiverFails(n)
      PROVE  [Promise!Next]_(Promise!vars)
  BY <1>22 DEF ReceiverFails, Stop, PullMoves, Fault, host, handling, pulls, errors
<1>23. ASSUME Crash PROVE [Promise!Next]_(Promise!vars)
  BY <1>23 DEF Crash, Fault, host, handling, pulls, errors
<1> QED
  BY <1>1, <1>2, <1>3, <1>4, <1>5, <1>6, <1>7, <1>8, <1>9, <1>10, <1>11, <1>12,
     <1>13, <1>14, <1>15, <1>16, <1>17, <1>18, <1>19, <1>20, <1>21, <1>22, <1>23
     DEF Next

\* The bus over a broker implements AtLeastOnce: nothing is acked that did not
\* go through every handler it was delivered to.
THEOREM ImplementsAtLeastOnce == Spec => RefinesAtLeastOnce
<1>1. Init => Promise!Init
  BY InitPromise
<1>2. IInv /\ [Next]_vars => [Promise!Next]_(Promise!vars)
  BY StepPromise
<1> QED
  BY <1>1, <1>2, Inductive, PTL DEF Spec, RefinesAtLeastOnce, Promise!Spec
=============================================================================
