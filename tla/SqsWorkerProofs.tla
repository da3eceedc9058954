-------------------------- MODULE SqsWorkerProofs --------------------------
(***************************************************************************)
(* SqsWorker for any loops, messages, handlers, batch size and bounds: no  *)
(* message is lost, none is worked twice needlessly, the Poll adds up, and *)
(* every step is a step of AtLeastOnce.  What is proved of the worker then *)
(* carries over to EventPath, the worker behind an outbox: no phantom is   *)
(* handled, no event lost, none handled twice needlessly.                  *)
(***************************************************************************)
EXTENDS EventPath, TLAPS

\* Where a loop is, and what its locals then hold.
Locals ==
    \A w \in Loops :
        /\ pc[w] \notin Busy => got[w] = <<>> /\ at[w] = 1
        /\ pc[w] = "batch" => at[w] <= Len(got[w]) + 1
        /\ pc[w] \in {"dispatch", "delete"} => at[w] <= Len(got[w])
        /\ pc[w] # "idle" => receiving

\* The Poll: zero before a poll, and adding up after it.
Counts ==
    /\ PollAccounts
    /\ \A w \in Loops :
         /\ pc[w] \notin Busy \cup {"returned"} => poll[w] = ZeroPoll
         /\ pc[w] = "delete" => poll[w].Undeleted < poll[w].Handled
         /\ pc[w] = "returned" => ~ctx[w]

\* What a message's state says of its receipts.
Receipts ==
    \A m \in Msgs : /\ queue[m] = "visible" => receipt[m] < MaxReceives
                    /\ queue[m] = "unsent" => receipt[m] = 0

\* A delivery in hand is under its lease, or its message is excused.
HeldCurrent ==
    \A w \in Loops : \A i \in at[w]..Len(got[w]) :
        /\ got[w][i].receipt <= receipt[got[w][i].msg]
        /\ Fresh(got[w][i]) \/ got[w][i].msg \in excused

\* No delivery is in hand twice.
HeldApart ==
    \A v, w \in Loops : \A i \in at[v]..Len(got[v]), j \in at[w]..Len(got[w]) :
        v # w \/ i # j => got[v][i] # got[w][j]

\* A message worked and not excused is deleted, or about to be.
SettledGone ==
    \A m \in Msgs : m \notin excused =>
        /\ settles[m] <= 1
        /\ settles[m] = 1 =>
             \/ queue[m] = "deleted"
             \/ \E w \in Loops : /\ pc[w] = "delete"
                                 /\ InHand(w).msg = m
                                 /\ Fresh(InHand(w))

\* Dispatch knows every boot handler, and has passed those before pos unless
\* it has kept an error.
Passing ==
    /\ \A n \in Names, h \in Handlers : <<n, h>> \in boot => h \in Elems(subs[n])
    /\ \A w \in Loops :
         /\ pc[w] = "dispatch" =>
              /\ BootHandlers(InHand(w).msg) \subseteq Elems(snap[w])
              /\ ~errs[w] => \A i \in DOMAIN snap[w] : i < pos[w] => snap[w][i] \in ran[w]
         /\ pc[w] = "delete" => InHand(w).msg \in cleared

IInv ==
    /\ TypeOK
    /\ Locals
    /\ Counts
    /\ Receipts
    /\ HeldCurrent
    /\ HeldApart
    /\ SettledGone
    /\ Passing
    /\ NoLoss

-----------------------------------------------------------------------------
(* The operators of the model                                              *)

LEMMA ElemsAppend ==
    ASSUME NEW S, NEW s \in Seq(S), NEW e \in S
    PROVE  Append(s, e) \in Seq(S) /\ Elems(s) \subseteq Elems(Append(s, e))
           /\ e \in Elems(Append(s, e))
<1>1. /\ Append(s, e) \in Seq(S)
      /\ Len(Append(s, e)) = Len(s) + 1
      /\ \A i \in 1..Len(s) : Append(s, e)[i] = s[i]
      /\ Append(s, e)[Len(s) + 1] = e
  OBVIOUS
<1>2. /\ DOMAIN Append(s, e) = 1..(Len(s) + 1)
      /\ DOMAIN s = 1..Len(s)
      /\ Len(s) \in Nat
  BY <1>1
<1> QED  BY <1>1, <1>2 DEF Elems

\* What one ReceiveMessage returns.
LEMMA BatchFacts ==
    ASSUME TypeOK, NEW b \in Batches
    PROVE  /\ b \in Seq(Msgs)
           /\ DOMAIN b = 1..Len(b)
           /\ Len(b) \in 0..BatchSize
           /\ \A i \in DOMAIN b : b[i] \in Msgs /\ queue[b[i]] = "visible"
           /\ \A i, j \in DOMAIN b : i # j => b[i] # b[j]
<1>1. PICK n \in 0..BatchSize : b \in [1..n -> Visible]
  BY DEF Batches
<1>2. n \in Nat
  BY BoundsAssumption
<1>3. Visible \subseteq Msgs
  BY DEF Visible
<1>4. b \in Seq(Msgs) /\ DOMAIN b = 1..n /\ Len(b) = n
  BY <1>1, <1>2, <1>3
<1>5. \A i \in DOMAIN b : b[i] \in Msgs /\ queue[b[i]] = "visible"
  BY <1>1 DEF Visible
<1>6. \A i, j \in DOMAIN b : i # j => b[i] # b[j]
  BY DEF Batches
<1> QED  BY <1>1, <1>4, <1>5, <1>6

\* The message in hand.
LEMMA HandFacts ==
    ASSUME TypeOK, NEW w \in Loops, at[w] <= Len(got[w])
    PROVE  /\ at[w] \in at[w]..Len(got[w])
           /\ InHand(w) \in Delivery
           /\ InHand(w).msg \in Msgs
           /\ InHand(w).receipt \in 1..MaxReceives
<1>1. got[w] \in Seq(Delivery) /\ at[w] \in Nat \ {0} /\ Len(got[w]) \in Nat
  BY DEF TypeOK
<1>2. at[w] \in DOMAIN got[w]
  BY <1>1
<1>3. InHand(w) \in Delivery
  BY <1>1, <1>2 DEF InHand
<1> QED  BY <1>1, <1>3 DEF Delivery

\* The deliveries still in hand.
LEMMA HeldFacts ==
    ASSUME TypeOK, NEW w \in Loops, NEW i \in at[w]..Len(got[w])
    PROVE  /\ i \in DOMAIN got[w]
           /\ got[w][i] \in Delivery
           /\ got[w][i].msg \in Msgs
           /\ got[w][i].receipt \in 1..MaxReceives
           /\ got[w][i] = [msg |-> got[w][i].msg, receipt |-> got[w][i].receipt]
<1>1. got[w] \in Seq(Delivery) /\ at[w] \in Nat \ {0} /\ Len(got[w]) \in Nat
  BY DEF TypeOK
<1>2. i \in DOMAIN got[w]
  BY <1>1
<1>3. got[w][i] \in Delivery
  BY <1>1, <1>2
<1> QED  BY <1>2, <1>3 DEF Delivery

\* Leasing visible messages.
LEMMA LeaseType ==
    ASSUME TypeOK, Receipts, NEW S \in SUBSET Visible, Lease(S)
    PROVE  /\ queue' \in [Msgs -> {"unsent", "visible", "inflight", "deleted", "parked"}]
           /\ receipt' \in [Msgs -> 0..MaxReceives]
           /\ \A m \in Msgs :
                /\ receipt[m] <= receipt'[m]
                /\ m \notin S => queue'[m] = queue[m] /\ receipt'[m] = receipt[m]
                /\ m \in S => /\ queue[m] = "visible"
                              /\ queue'[m] = "inflight"
                              /\ receipt'[m] = receipt[m] + 1
           /\ Receipts'
<1>1. \A m \in S : m \in Msgs /\ queue[m] = "visible"
  BY DEF Visible
<1>2. \A m \in Msgs : receipt[m] \in 0..MaxReceives
  BY DEF TypeOK
<1>3. MaxReceives \in Nat
  BY BoundsAssumption
<1>4. \A m \in S : receipt[m] + 1 \in 0..MaxReceives
  BY <1>1, <1>2, <1>3 DEF Receipts
<1>5. \A m \in Msgs :
        /\ receipt[m] <= receipt'[m]
        /\ m \notin S => queue'[m] = queue[m] /\ receipt'[m] = receipt[m]
        /\ m \in S => /\ queue[m] = "visible"
                      /\ queue'[m] = "inflight"
                      /\ receipt'[m] = receipt[m] + 1
  BY <1>1, <1>2, <1>3 DEF Lease
<1>6. receipt' \in [Msgs -> 0..MaxReceives]
  BY <1>2, <1>4 DEF Lease
<1>7. queue' \in [Msgs -> {"unsent", "visible", "inflight", "deleted", "parked"}]
  BY DEF Lease, TypeOK
<1> QED  BY <1>5, <1>6, <1>7 DEF Receipts

-----------------------------------------------------------------------------
(* Type correctness                                                        *)

LEMMA InitType == Init => TypeOK
<1> SUFFICES ASSUME Init PROVE TypeOK
  OBVIOUS
<1>1. \A S : <<>> \in Seq(S)
  OBVIOUS
<1>2. 0 \in 0..BatchSize /\ 0 \in 0..MaxReceives /\ 0 \in 0..MaxFailures /\ 0 \in 0..MaxCrashes
  BY BoundsAssumption
<1>3. /\ subs \in [Names -> Seq(Handlers)]
      /\ got \in [Loops -> Seq(Delivery)]
      /\ snap \in [Loops -> Seq(Handlers)]
  BY <1>1 DEF Init
<1>4. poll \in [Loops -> [Received : 0..BatchSize, Handled : 0..BatchSize,
                         Failed : 0..BatchSize, Undeleted : 0..BatchSize]]
  BY <1>2 DEF Init, ZeroPoll
<1>5. ctx \in [Loops -> BOOLEAN] /\ errs \in [Loops -> BOOLEAN]
  BY DEF Init
<1>6. /\ queue \in [Msgs -> {"unsent", "visible", "inflight", "deleted", "parked"}]
      /\ receipt \in [Msgs -> 0..MaxReceives]
      /\ pc \in [Loops -> {"idle", "entry", "polling", "backoff", "batch", "dispatch",
                           "delete", "returned", "crashed"}]
      /\ at \in [Loops -> Nat \ {0}]
      /\ pos \in [Loops -> Nat \ {0}]
      /\ failures \in [Loops -> 0..MaxFailures]
      /\ crashes \in 0..MaxCrashes
  BY <1>2 DEF Init
<1>7. /\ receiving \in BOOLEAN
      /\ boot \subseteq Registrations
      /\ ran \in [Loops -> SUBSET Handlers]
      /\ cleared \subseteq Msgs
      /\ settles \in [Msgs -> Nat]
      /\ excused \subseteq Msgs
  BY DEF Init
<1> QED  BY <1>3, <1>4, <1>5, <1>6, <1>7 DEF TypeOK

\* Leaving a batch or a dispatch resets the locals to values of their types.
LEMMA LeaveBatchType ==
    ASSUME TypeOK, NEW w \in Loops, LeaveBatch(w)
    PROVE  got' \in [Loops -> Seq(Delivery)] /\ at' \in [Loops -> Nat \ {0}]
<1>1. <<>> \in Seq(Delivery)
  OBVIOUS
<1> QED  BY <1>1 DEF TypeOK, LeaveBatch

LEMMA LeaveDispatchType ==
    ASSUME TypeOK, NEW w \in Loops, LeaveDispatch(w)
    PROVE  /\ snap' \in [Loops -> Seq(Handlers)]
           /\ pos' \in [Loops -> Nat \ {0}]
           /\ errs' \in [Loops -> BOOLEAN]
           /\ ran' \in [Loops -> SUBSET Handlers]
<1>1. <<>> \in Seq(Handlers)
  OBVIOUS
<1>2. snap' \in [Loops -> Seq(Handlers)]
  BY <1>1 DEF TypeOK, LeaveDispatch
<1>3. pos' \in [Loops -> Nat \ {0}]
  BY DEF TypeOK, LeaveDispatch
<1>4. errs' \in [Loops -> BOOLEAN]
  BY DEF TypeOK, LeaveDispatch
<1>5. ran' \in [Loops -> SUBSET Handlers]
  BY DEF TypeOK, LeaveDispatch
<1> QED  BY <1>2, <1>3, <1>4, <1>5

\* The Polls there are.
Polls == [Received : 0..BatchSize, Handled : 0..BatchSize,
          Failed : 0..BatchSize, Undeleted : 0..BatchSize]

\* One counter of a loop's Poll is set to a value of its range.
LEMMA PollSet ==
    ASSUME TypeOK, NEW w \in Loops, NEW n \in 0..BatchSize
    PROVE  /\ [poll EXCEPT ![w].Received = n] \in [Loops -> Polls]
           /\ [poll EXCEPT ![w].Handled = n] \in [Loops -> Polls]
           /\ [poll EXCEPT ![w].Failed = n] \in [Loops -> Polls]
           /\ [poll EXCEPT ![w].Undeleted = n] \in [Loops -> Polls]
<1>1. poll \in [Loops -> Polls]
  BY DEF TypeOK, Polls
<1>2. poll[w] \in Polls
  BY <1>1
<1>3. ASSUME NEW p \in Polls PROVE [poll EXCEPT ![w] = p] \in [Loops -> Polls]
  BY <1>1
<1>4. [poll[w] EXCEPT !.Received = n] \in Polls
  BY <1>2 DEF Polls
<1>5. [poll[w] EXCEPT !.Handled = n] \in Polls
  BY <1>2 DEF Polls
<1>6. [poll[w] EXCEPT !.Failed = n] \in Polls
  BY <1>2 DEF Polls
<1>7. [poll[w] EXCEPT !.Undeleted = n] \in Polls
  BY <1>2 DEF Polls
<1> QED  BY <1>3, <1>4, <1>5, <1>6, <1>7

\* A counter of the Poll can take one more while a message is in hand.
LEMMA PollRoom ==
    ASSUME IInv, NEW w \in Loops
    PROVE  /\ poll[w] \in [Received : 0..BatchSize, Handled : 0..BatchSize,
                           Failed : 0..BatchSize, Undeleted : 0..BatchSize]
           /\ pc[w] = "dispatch" => /\ poll[w].Handled + 1 \in 0..BatchSize
                                    /\ poll[w].Failed + 1 \in 0..BatchSize
           /\ pc[w] = "delete" => poll[w].Undeleted + 1 \in 0..BatchSize
<1>1. poll[w] \in [Received : 0..BatchSize, Handled : 0..BatchSize,
                   Failed : 0..BatchSize, Undeleted : 0..BatchSize]
  BY DEF IInv, TypeOK
<1>2. BatchSize \in Nat /\ at[w] \in Nat \ {0} /\ Len(got[w]) \in Nat
  BY BoundsAssumption DEF IInv, TypeOK
<1>3. CASE pc[w] = "dispatch"
  <2>1. poll[w].Handled + poll[w].Failed = at[w] - 1 /\ poll[w].Received = Len(got[w])
    BY <1>3 DEF IInv, Counts, PollAccounts, Busy
  <2>2. at[w] <= Len(got[w])
    BY <1>3 DEF IInv, Locals
  <2>3. \A b, h, f, n, l \in Nat :
          h + f = n - 1 /\ n <= l /\ l <= b => h + 1 \in 0..b /\ f + 1 \in 0..b
    OBVIOUS
  <2>4. /\ poll[w].Handled \in Nat /\ poll[w].Failed \in Nat
        /\ poll[w].Received <= BatchSize
    BY <1>1, <1>2
  <2>5. poll[w].Handled + 1 \in 0..BatchSize /\ poll[w].Failed + 1 \in 0..BatchSize
    BY <1>2, <2>1, <2>2, <2>3, <2>4
  <2> QED  BY <1>1, <1>3, <2>5
<1>4. CASE pc[w] = "delete"
  <2>1. poll[w].Undeleted < poll[w].Handled
    BY <1>4 DEF IInv, Counts
  <2> QED  BY <1>1, <1>2, <1>4, <2>1
<1> QED  BY <1>1, <1>3, <1>4

LEMMA StepType == IInv /\ [Next]_vars => TypeOK'
<1> SUFFICES ASSUME IInv, [Next]_vars PROVE TypeOK'
  OBVIOUS
<1> USE DEF queueVars, loopVars, bootVars, history
<1>0. TypeOK
  BY DEF IInv
<1>1. ASSUME NEW n \in Names, NEW h \in Handlers, Subscribe(n, h) PROVE TypeOK'
  <2>1. Append(subs[n], h) \in Seq(Handlers)
    BY <1>0, ElemsAppend DEF TypeOK
  <2>2. <<n, h>> \in Registrations
    BY <1>1 DEF Subscribe
  <2>3. subs' \in [Names -> Seq(Handlers)]
    <3>1. subs \in [Names -> Seq(Handlers)]
      BY <1>0 DEF TypeOK
    <3>2. subs' = [subs EXCEPT ![n] = Append(subs[n], h)]
      BY <1>1 DEF Subscribe
    <3> QED  BY <2>1, <3>1, <3>2
  <2>4. boot' \subseteq Registrations
    BY <1>0, <1>1, <2>2 DEF Subscribe, TypeOK
  <2>5. UNCHANGED <<receiving, queueVars, loopVars, crashes, history>>
    BY <1>1 DEF Subscribe
  <2> QED  BY <1>0, <2>3, <2>4, <2>5 DEF TypeOK
<1>2. ASSUME NEW m \in Msgs, Publish(m) PROVE TypeOK'
  BY <1>0, <1>2 DEF Publish, TypeOK
<1>3. ASSUME NEW m \in Msgs, Expire(m) PROVE TypeOK'
  BY <1>0, <1>3 DEF Expire, TypeOK
<1>4. ASSUME NEW w \in Loops, StartReceive(w) PROVE TypeOK'
  BY <1>0, <1>4 DEF StartReceive, TypeOK
<1>5. ASSUME NEW w \in Loops, Shutdown(w) PROVE TypeOK'
  BY <1>0, <1>5 DEF Shutdown, TypeOK
<1>6. ASSUME NEW w \in Loops, Crash(w) PROVE TypeOK'
  <2>1. pc[w] = "delete" => InHand(w).msg \in Msgs
    BY <1>0, HandFacts DEF IInv, Locals
  <2>2. crashes' \in 0..MaxCrashes
    BY <1>0, <1>6, BoundsAssumption DEF Crash, TypeOK
  <2>3. 0 \in 0..BatchSize /\ 0 \in 0..MaxFailures
    BY BoundsAssumption
  <2>4. poll' \in [Loops -> Polls]
    BY <1>0, <1>6, <2>3 DEF Crash, TypeOK, ZeroPoll, Polls
  <2> QED  BY <1>0, <1>6, <2>1, <2>2, <2>3, <2>4, LeaveBatchType, LeaveDispatchType
       DEF Crash, TypeOK, Polls
<1>7. ASSUME NEW w \in Loops,
             EnterDead(w) \/ Enter(w) \/ BackoffElapses(w) \/ BackoffCancelled(w)
      PROVE  TypeOK'
  BY <1>0, <1>7 DEF EnterDead, Enter, BackoffElapses, BackoffCancelled, TypeOK
<1>8. ASSUME NEW w \in Loops, NEW b \in Batches, PollSucceeds(w, b) PROVE TypeOK'
  <2>1. Elems(b) \subseteq Visible
    BY <1>0, BatchFacts DEF Elems, Visible
  <2>2. /\ queue' \in [Msgs -> {"unsent", "visible", "inflight", "deleted", "parked"}]
        /\ receipt' \in [Msgs -> 0..MaxReceives]
    BY <1>0, <1>8, <2>1, LeaseType DEF PollSucceeds, IInv
  <2>3. /\ b \in Seq(Msgs) /\ DOMAIN b = 1..Len(b) /\ Len(b) \in 0..BatchSize
        /\ \A i \in DOMAIN b : b[i] \in Msgs /\ queue[b[i]] = "visible"
    BY <1>0, BatchFacts
  <2>4. \A i \in DOMAIN b : receipt[b[i]] + 1 \in 1..MaxReceives
    <3>1. \A m \in Msgs : receipt[m] \in 0..MaxReceives
      BY <1>0 DEF TypeOK
    <3> QED  BY <2>3, <3>1, BoundsAssumption DEF IInv, Receipts
  <2> DEFINE g == [i \in DOMAIN b |-> [msg |-> b[i], receipt |-> receipt[b[i]] + 1]]
  <2>5. g \in Seq(Delivery)
    <3>1. \A i \in 1..Len(b) : [msg |-> b[i], receipt |-> receipt[b[i]] + 1] \in Delivery
      BY <2>3, <2>4 DEF Delivery
    <3>2. g = [i \in 1..Len(b) |-> [msg |-> b[i], receipt |-> receipt[b[i]] + 1]]
      BY <2>3
    <3>3. Len(b) \in Nat
      BY <2>3
    <3> QED  BY <3>1, <3>2, <3>3
  <2>6. got' = [got EXCEPT ![w] = g]
    BY <1>8 DEF PollSucceeds
  <2>7. got' \in [Loops -> Seq(Delivery)]
    BY <1>0, <2>5, <2>6 DEF TypeOK
  <2>8. poll' \in [Loops -> Polls]
    <3>1. poll' = [poll EXCEPT ![w].Received = Len(b)]
      BY <1>8 DEF PollSucceeds
    <3> QED  BY <1>0, <2>3, <3>1, PollSet
  <2>9. at' \in [Loops -> Nat \ {0}]
    <3>1. at' = [at EXCEPT ![w] = 1]
      BY <1>8 DEF PollSucceeds
    <3> QED  BY <1>0, <3>1 DEF TypeOK
  <2>10. pc' \in [Loops -> {"idle", "entry", "polling", "backoff", "batch", "dispatch",
                            "delete", "returned", "crashed"}]
    <3>1. pc' = [pc EXCEPT ![w] = "batch"]
      BY <1>8 DEF PollSucceeds
    <3> QED  BY <1>0, <3>1 DEF TypeOK
  <2>11. UNCHANGED <<ctx, snap, pos, errs, failures, bootVars, crashes, history>>
    BY <1>8 DEF PollSucceeds
  <2> QED  BY <1>0, <2>2, <2>7, <2>8, <2>9, <2>10, <2>11 DEF TypeOK, Polls
<1>9. ASSUME NEW w \in Loops, NEW S \in SUBSET Visible, PollFails(w, S) PROVE TypeOK'
  <2>1. /\ queue' \in [Msgs -> {"unsent", "visible", "inflight", "deleted", "parked"}]
        /\ receipt' \in [Msgs -> 0..MaxReceives]
    BY <1>0, <1>9, LeaseType DEF PollFails, IInv
  <2>2. failures' \in [Loops -> 0..MaxFailures]
    <3>1. CASE ctx[w]
      <4>1. failures' = [failures EXCEPT ![w] = @ + 1] /\ failures[w] < MaxFailures
        BY <1>9, <3>1 DEF PollFails
      <4>2. failures[w] \in 0..MaxFailures /\ MaxFailures \in Nat
        BY <1>0, BoundsAssumption DEF TypeOK
      <4>3. failures[w] + 1 \in 0..MaxFailures
        BY <4>1, <4>2
      <4> QED  BY <1>0, <4>1, <4>3 DEF TypeOK
    <3>2. CASE ~ctx[w]
      BY <1>0, <1>9, <3>2 DEF PollFails, TypeOK
    <3> QED  BY <3>1, <3>2
  <2>3. pc' \in [Loops -> {"idle", "entry", "polling", "backoff", "batch", "dispatch",
                           "delete", "returned", "crashed"}]
    <3>1. pc' = [pc EXCEPT ![w] = "backoff"] \/ pc' = [pc EXCEPT ![w] = "returned"]
      BY <1>9 DEF PollFails
    <3> QED  BY <1>0, <3>1 DEF TypeOK
  <2>4. UNCHANGED <<ctx, got, at, snap, pos, errs, poll, bootVars, crashes, history>>
    BY <1>9 DEF PollFails
  <2> QED  BY <1>0, <2>1, <2>2, <2>3, <2>4 DEF TypeOK
<1>10. ASSUME NEW w \in Loops, NextMessage(w) PROVE TypeOK'
  <2>1. EventOf[InHand(w).msg] \in Names
    BY <1>0, <1>10, HandFacts, EventsAssumption DEF NextMessage
  <2>2. subs[EventOf[InHand(w).msg]] \in Seq(Handlers)
    BY <1>0, <2>1 DEF TypeOK
  <2>3. snap' \in [Loops -> Seq(Handlers)] /\ pos' \in [Loops -> Nat \ {0}]
    BY <1>0, <1>10, <2>2 DEF NextMessage, TypeOK
  <2>4. errs' \in [Loops -> BOOLEAN]
    BY <1>0, <1>10 DEF NextMessage, TypeOK
  <2>5. ran' \in [Loops -> SUBSET Handlers]
    BY <1>0, <1>10 DEF NextMessage, TypeOK
  <2>6. pc' \in [Loops -> {"idle", "entry", "polling", "backoff", "batch", "dispatch",
                           "delete", "returned", "crashed"}]
    BY <1>0, <1>10 DEF NextMessage, TypeOK
  <2>7. UNCHANGED <<ctx, got, at, poll, failures, queueVars, bootVars, crashes,
                    cleared, settles, excused>>
    BY <1>10 DEF NextMessage
  <2> QED  BY <1>0, <2>3, <2>4, <2>5, <2>6, <2>7 DEF TypeOK
<1>11. ASSUME NEW w \in Loops, AbandonBatch(w) PROVE TypeOK'
  BY <1>0, <1>11, LeaveBatchType DEF AbandonBatch, TypeOK
<1>12. ASSUME NEW w \in Loops, BatchDone(w) PROVE TypeOK'
  <2>1. 0 \in 0..BatchSize /\ 0 \in 0..MaxFailures
    BY BoundsAssumption
  <2>2. poll' \in [Loops -> Polls]
    <3>1. poll' = [poll EXCEPT ![w] = ZeroPoll]
      BY <1>12 DEF BatchDone
    <3>2. ZeroPoll \in Polls
      BY <2>1 DEF ZeroPoll, Polls
    <3> QED  BY <1>0, <3>1, <3>2 DEF TypeOK, Polls
  <2>3. got' \in [Loops -> Seq(Delivery)] /\ at' \in [Loops -> Nat \ {0}]
    BY <1>0, <1>12, LeaveBatchType DEF BatchDone
  <2>4. failures' \in [Loops -> 0..MaxFailures]
    <3>1. failures' = [failures EXCEPT ![w] = 0]
      BY <1>12 DEF BatchDone
    <3> QED  BY <1>0, <2>1, <3>1 DEF TypeOK
  <2>5. pc' \in [Loops -> {"idle", "entry", "polling", "backoff", "batch", "dispatch",
                           "delete", "returned", "crashed"}]
    <3>1. pc' = [pc EXCEPT ![w] = "entry"]
      BY <1>12 DEF BatchDone
    <3> QED  BY <1>0, <3>1 DEF TypeOK
  <2>6. UNCHANGED <<ctx, snap, pos, errs, queueVars, bootVars, crashes, history>>
    BY <1>12 DEF BatchDone
  <2> QED  BY <1>0, <2>2, <2>3, <2>4, <2>5, <2>6 DEF TypeOK, Polls
<1>13. ASSUME NEW w \in Loops, NEW err \in BOOLEAN, HandlerReturns(w, err) PROVE TypeOK'
  <2>1. snap[w] \in Seq(Handlers) /\ pos[w] \in Nat \ {0} /\ pos[w] <= Len(snap[w])
    BY <1>0, <1>13 DEF HandlerReturns, TypeOK
  <2>2. snap[w][pos[w]] \in Handlers
    BY <2>1
  <2>3. /\ errs' = [errs EXCEPT ![w] = errs[w] \/ err]
        /\ ran' = [ran EXCEPT ![w] = IF err THEN ran[w] ELSE ran[w] \cup {snap[w][pos[w]]}]
        /\ pos' = [pos EXCEPT ![w] = pos[w] + 1]
        /\ UNCHANGED <<ctx, pc, got, at, snap, poll, failures,
                       queueVars, bootVars, crashes, cleared, settles, excused>>
    BY <1>13 DEF HandlerReturns, Collect
  <2>4. errs' \in [Loops -> BOOLEAN]
    BY <1>0, <2>3 DEF TypeOK
  <2>5. ran' \in [Loops -> SUBSET Handlers]
    BY <1>0, <2>2, <2>3 DEF TypeOK
  <2>6. pos' \in [Loops -> Nat \ {0}]
    <3>1. pos[w] + 1 \in Nat \ {0}
      BY <2>1
    <3> QED  BY <1>0, <2>3, <3>1 DEF TypeOK
  <2> QED  BY <1>0, <2>3, <2>4, <2>5, <2>6 DEF TypeOK
<1>14. ASSUME NEW w \in Loops, DispatchFails(w) PROVE TypeOK'
  <2>1. poll' \in [Loops -> Polls]
    <3>1. poll' = [poll EXCEPT ![w].Failed = poll[w].Failed + 1] /\ pc[w] = "dispatch"
      BY <1>14 DEF DispatchFails
    <3>2. poll[w].Failed + 1 \in 0..BatchSize
      BY <3>1, PollRoom
    <3> QED  BY <1>0, <3>1, <3>2, PollSet
  <2>2. at' \in [Loops -> Nat \ {0}]
    BY <1>0, <1>14 DEF DispatchFails, TypeOK
  <2>3. pc' \in [Loops -> {"idle", "entry", "polling", "backoff", "batch", "dispatch",
                           "delete", "returned", "crashed"}]
    BY <1>0, <1>14 DEF DispatchFails, TypeOK
  <2>4. LeaveDispatch(w) /\ UNCHANGED <<ctx, got, failures, queueVars, bootVars, crashes,
                                        cleared, settles, excused>>
    BY <1>14 DEF DispatchFails
  <2> QED  BY <1>0, <2>1, <2>2, <2>3, <2>4, LeaveDispatchType DEF TypeOK, Polls
<1>15. ASSUME NEW w \in Loops, DispatchSucceeds(w) PROVE TypeOK'
  <2>1. poll' \in [Loops -> Polls]
    <3>1. poll' = [poll EXCEPT ![w].Handled = poll[w].Handled + 1] /\ pc[w] = "dispatch"
      BY <1>15 DEF DispatchSucceeds
    <3>2. poll[w].Handled + 1 \in 0..BatchSize
      BY <3>1, PollRoom
    <3> QED  BY <1>0, <3>1, <3>2, PollSet
  <2>2. InHand(w).msg \in Msgs
    BY <1>0, <1>15, HandFacts DEF DispatchSucceeds, IInv, Locals
  <2>3. cleared' \subseteq Msgs /\ settles' \in [Msgs -> Nat]
    <3>1. /\ settles' = [settles EXCEPT ![InHand(w).msg] = settles[InHand(w).msg] + 1]
          /\ cleared' \subseteq cleared \cup {InHand(w).msg}
      BY <1>15 DEF DispatchSucceeds
    <3>2. settles \in [Msgs -> Nat] /\ cleared \subseteq Msgs
      BY <1>0 DEF TypeOK
    <3> QED  BY <2>2, <3>1, <3>2
  <2>4. pc' \in [Loops -> {"idle", "entry", "polling", "backoff", "batch", "dispatch",
                           "delete", "returned", "crashed"}]
    BY <1>0, <1>15 DEF DispatchSucceeds, TypeOK
  <2>5. LeaveDispatch(w) /\ UNCHANGED <<ctx, got, at, failures, queueVars, bootVars, crashes,
                                        excused>>
    BY <1>15 DEF DispatchSucceeds
  <2> QED  BY <1>0, <2>1, <2>3, <2>4, <2>5, LeaveDispatchType DEF TypeOK, Polls
<1>16. ASSUME NEW w \in Loops, NEW ok \in BOOLEAN, NEW removed \in BOOLEAN,
              DeleteReturns(w, ok, removed)
       PROVE  TypeOK'
  <2>1. poll' \in [Loops -> Polls]
    <3>1. /\ poll' = [poll EXCEPT ![w].Undeleted =
                        IF ok THEN poll[w].Undeleted ELSE poll[w].Undeleted + 1]
          /\ pc[w] = "delete"
      BY <1>16 DEF DeleteReturns
    <3>2. poll[w].Undeleted \in 0..BatchSize /\ poll[w].Undeleted + 1 \in 0..BatchSize
      BY <3>1, PollRoom
    <3>3. (IF ok THEN poll[w].Undeleted ELSE poll[w].Undeleted + 1) \in 0..BatchSize
      BY <3>2
    <3> QED  BY <1>0, <3>1, <3>3, PollSet
  <2>2. InHand(w).msg \in Msgs
    BY <1>0, <1>16, HandFacts DEF DeleteReturns, IInv, Locals
  <2>3. /\ at' \in [Loops -> Nat \ {0}]
        /\ pc' \in [Loops -> {"idle", "entry", "polling", "backoff", "batch", "dispatch",
                              "delete", "returned", "crashed"}]
    BY <1>0, <1>16 DEF DeleteReturns, TypeOK
  <2>4. excused' \subseteq Msgs
    BY <1>0, <1>16, <2>2 DEF DeleteReturns, TypeOK
  <2>5. queue' \in [Msgs -> {"unsent", "visible", "inflight", "deleted", "parked"}]
    BY <1>0, <1>16 DEF DeleteReturns, TypeOK
  <2>6. UNCHANGED <<receipt, ctx, got, snap, pos, errs, failures,
                    bootVars, crashes, ran, cleared, settles>>
    BY <1>16 DEF DeleteReturns
  <2> QED  BY <1>0, <2>1, <2>3, <2>4, <2>5, <2>6 DEF TypeOK, Polls
<1>17. CASE UNCHANGED vars
  BY <1>0, <1>17 DEF vars, TypeOK
<1> QED
  BY <1>1, <1>2, <1>3, <1>4, <1>5, <1>6, <1>7, <1>8, <1>9, <1>10, <1>11, <1>12, <1>13,
     <1>14, <1>15, <1>16, <1>17 DEF Next, Consume, Receive

-----------------------------------------------------------------------------
(* The inductive invariant                                                 *)

LEMMA InitIInv == Init => IInv
<1> SUFFICES ASSUME Init PROVE IInv
  OBVIOUS
<1>1. TypeOK
  BY InitType
<1>2. Len(<<>>) = 0
  OBVIOUS
<1>3. \A w \in Loops : at[w]..Len(got[w]) = {}
  BY <1>2 DEF Init
<1>4. \A w \in Loops : pc[w] = "idle" /\ got[w] = <<>> /\ at[w] = 1 /\ poll[w] = ZeroPoll
  BY DEF Init
<1>5. Locals
  BY <1>4 DEF Locals, Busy
<1>6. Counts
  BY <1>4 DEF Counts, PollAccounts, Busy, ZeroPoll
<1>7. HeldCurrent /\ HeldApart
  BY <1>3 DEF HeldCurrent, HeldApart
<1>8. Receipts /\ SettledGone /\ NoLoss
  BY DEF Init, Receipts, SettledGone, NoLoss
<1>9. Passing
  BY <1>4 DEF Init, Passing
<1> QED  BY <1>1, <1>5, <1>6, <1>7, <1>8, <1>9 DEF IInv

\* Nothing a delivery depends on changes.
LEMMA HeldFrame ==
    ASSUME IInv, UNCHANGED <<queue, receipt, got, at>>, excused \subseteq excused'
    PROVE  HeldCurrent' /\ HeldApart' /\ Receipts'
BY DEF IInv, HeldCurrent, HeldApart, Receipts, Fresh

\* Steps of a loop, or of its host, outside a batch.
LEMMA OutsideStep ==
    ASSUME IInv, NEW w \in Loops,
           \/ StartReceive(w) \/ EnterDead(w) \/ Enter(w)
           \/ BackoffElapses(w) \/ BackoffCancelled(w) \/ Shutdown(w)
    PROVE  IInv'
<1> USE DEF queueVars, loopVars, bootVars, history
<1>1. TypeOK'
  BY StepType DEF Next, Consume, Receive
<1>2. UNCHANGED <<queue, receipt, got, at, snap, pos, errs, poll, subs, boot,
                  ran, cleared, settles, excused>>
  BY DEF StartReceive, EnterDead, Enter, BackoffElapses, BackoffCancelled, Shutdown
<1>3. HeldCurrent' /\ HeldApart' /\ Receipts'
  BY <1>2, HeldFrame
<1>4. /\ \A v \in Loops : v # w => pc'[v] = pc[v] /\ ctx'[v] = ctx[v]
      /\ \/ pc'[w] = pc[w] /\ ctx' = [ctx EXCEPT ![w] = FALSE]
         \/ /\ pc[w] \notin Busy /\ pc'[w] \in {"entry", "polling", "returned"}
            /\ pc[w] # "returned"
            /\ pc'[w] = "returned" => ~ctx[w]
            /\ ctx' = ctx
  BY DEF StartReceive, EnterDead, Enter, BackoffElapses, BackoffCancelled, Shutdown, IInv,
         TypeOK, Busy
<1>5. receiving' = TRUE \/ (receiving' = receiving /\ pc[w] # "idle")
                        \/ (receiving' = receiving /\ pc' = pc)
  BY DEF StartReceive, EnterDead, Enter, BackoffElapses, BackoffCancelled, Shutdown
<1>6. Locals'
  BY <1>2, <1>4, <1>5 DEF IInv, Locals, Busy
<1>7. Counts'
  <2>1. \A v \in Loops : pc[v] = "returned" \/ pc[v] \in Busy => pc'[v] = pc[v]
    BY <1>4 DEF Busy
  <2>2. \A v \in Loops : ~ctx[v] => ~ctx'[v]
    BY <1>4 DEF IInv, TypeOK
  <2>3. \A v \in Loops : pc'[v] = "returned" => pc[v] = "returned" \/ (poll[v] = ZeroPoll /\ ~ctx'[v])
    BY <1>4, <2>2 DEF IInv, Counts, Busy
  <2>4. \A v \in Loops : pc'[v] \in Busy => pc[v] = pc'[v]
    BY <1>4 DEF Busy
  <2>5. \A v \in Loops : pc'[v] \notin Busy \cup {"returned"} => poll[v] = ZeroPoll
    BY <1>4, <2>1 DEF IInv, Counts, Busy
  <2>6. PollAccounts'
    BY <1>2, <2>2, <2>3, <2>4 DEF IInv, Counts, PollAccounts, ZeroPoll, Busy
  <2> QED  BY <1>2, <2>2, <2>3, <2>4, <2>5, <2>6 DEF IInv, Counts, Busy
<1>8. \A v \in Loops : (pc[v] = "delete" <=> pc'[v] = "delete") /\ (pc[v] = "dispatch" <=> pc'[v] = "dispatch")
  BY <1>4 DEF Busy
<1>9. SettledGone'
  BY <1>2, <1>8 DEF IInv, SettledGone, InHand, Fresh
<1>10. Passing' /\ NoLoss'
  BY <1>2, <1>8 DEF IInv, Passing, NoLoss, InHand, BootHandlers
<1> QED  BY <1>1, <1>3, <1>6, <1>7, <1>9, <1>10 DEF IInv

\* What follows for the deliveries in hand when a loop lets go of its batch.
LEMMA LetGo ==
    ASSUME IInv, NEW w \in Loops, LeaveBatch(w), UNCHANGED <<queue, receipt>>,
           excused \subseteq excused'
    PROVE  /\ HeldCurrent' /\ HeldApart' /\ Receipts'
           /\ got'[w] = <<>> /\ at'[w] = 1
           /\ \A v \in Loops : v # w => got'[v] = got[v] /\ at'[v] = at[v]
<1>1. /\ got'[w] = <<>> /\ at'[w] = 1
      /\ \A v \in Loops : v # w => got'[v] = got[v] /\ at'[v] = at[v]
  BY DEF LeaveBatch, IInv, TypeOK
<1>2. at'[w]..Len(got'[w]) = {}
  <2>1. Len(<<>>) = 0
    OBVIOUS
  <2> QED  BY <1>1, <2>1
<1>3. HeldCurrent'
  BY <1>1, <1>2 DEF IInv, HeldCurrent, Fresh
<1>4. HeldApart'
  <2>1. \A v \in Loops : \A i \in at'[v]..Len(got'[v]) :
          i \in at[v]..Len(got[v]) /\ got'[v][i] = got[v][i]
    BY <1>1, <1>2
  <2> QED  BY <2>1 DEF IInv, HeldApart
<1> QED  BY <1>1, <1>3, <1>4 DEF IInv, Receipts

LEMMA LeaveStep ==
    ASSUME IInv, NEW w \in Loops, AbandonBatch(w) \/ BatchDone(w)
    PROVE  IInv'
<1> USE DEF queueVars, loopVars, bootVars, history
<1>1. TypeOK'
  BY StepType DEF Next, Consume, Receive
<1>2. /\ pc[w] = "batch" /\ LeaveBatch(w)
      /\ UNCHANGED <<queue, receipt, ctx, snap, pos, errs, subs, boot, receiving,
                     ran, cleared, settles, excused>>
      /\ \/ pc'[w] = "entry" /\ poll'[w] = ZeroPoll
         \/ pc'[w] = "returned" /\ ~ctx[w] /\ poll' = poll /\ at[w] <= Len(got[w])
      /\ \A v \in Loops : v # w => pc'[v] = pc[v] /\ poll'[v] = poll[v]
  BY DEF AbandonBatch, BatchDone, IInv, TypeOK
<1>3. /\ HeldCurrent' /\ HeldApart' /\ Receipts'
      /\ got'[w] = <<>> /\ at'[w] = 1
      /\ \A v \in Loops : v # w => got'[v] = got[v] /\ at'[v] = at[v]
  BY <1>2, LetGo
<1>4. Locals'
  BY <1>2, <1>3 DEF IInv, Locals, Busy
<1>5. Counts'
  <2>1. at[w] \in Nat /\ Len(got[w]) \in Nat
    BY DEF IInv, TypeOK
  <2>2. pc'[w] = "returned" => poll[w].Handled + poll[w].Failed <= poll[w].Received
    BY <1>2, <2>1 DEF IInv, Counts, PollAccounts, Busy
  <2>3. PollAccounts'
    BY <1>2, <1>3, <2>2 DEF IInv, Counts, PollAccounts, ZeroPoll, Busy
  <2> QED  BY <1>2, <2>3 DEF IInv, Counts, Busy
<1>6. SettledGone'
  BY <1>2, <1>3 DEF IInv, SettledGone, InHand, Fresh
<1>7. Passing' /\ NoLoss'
  BY <1>2, <1>3 DEF IInv, Passing, NoLoss, InHand, BootHandlers
<1> QED  BY <1>1, <1>3, <1>4, <1>5, <1>6, <1>7 DEF IInv

\* A crash between the handlers and the delete excuses the message in hand.
LEMMA CrashStep ==
    ASSUME IInv, NEW w \in Loops, Crash(w)
    PROVE  IInv'
<1> USE DEF queueVars, loopVars, bootVars, history
<1>1. TypeOK'
  BY StepType DEF Next, Consume
<1>2. /\ LeaveBatch(w) /\ LeaveDispatch(w) /\ pc[w] # "idle"
      /\ UNCHANGED <<queue, receipt, ctx, subs, boot, receiving, cleared, settles>>
      /\ pc'[w] = "crashed" /\ poll'[w] = ZeroPoll
      /\ excused' = IF pc[w] = "delete" THEN excused \cup {InHand(w).msg} ELSE excused
      /\ \A v \in Loops : v # w => pc'[v] = pc[v] /\ poll'[v] = poll[v]
  BY DEF Crash, IInv, TypeOK
<1>3. \A v \in Loops : v # w => snap'[v] = snap[v] /\ pos'[v] = pos[v] /\ errs'[v] = errs[v]
                               /\ ran'[v] = ran[v]
  BY <1>2 DEF LeaveDispatch, IInv, TypeOK
<1>4. /\ HeldCurrent' /\ HeldApart' /\ Receipts'
      /\ got'[w] = <<>> /\ at'[w] = 1
      /\ \A v \in Loops : v # w => got'[v] = got[v] /\ at'[v] = at[v]
  BY <1>2, LetGo
<1>5. Locals'
  BY <1>2, <1>4 DEF IInv, Locals, Busy
<1>6. Counts'
  <2>1. /\ poll'[w].Handled = 0 /\ poll'[w].Failed = 0 /\ poll'[w].Undeleted = 0
        /\ poll'[w].Received = 0
    BY <1>2 DEF ZeroPoll
  <2>2. PollAccounts'
    <3> SUFFICES ASSUME NEW v \in Loops
                 PROVE  LET p == poll'[v]
                            seen == p.Handled + p.Failed
                        IN /\ p.Undeleted <= p.Handled
                           /\ pc'[v] \in Busy =>
                                 /\ p.Received = Len(got'[v])
                                 /\ seen = IF pc'[v] = "delete" THEN at'[v] ELSE at'[v] - 1
                           /\ pc'[v] = "returned" =>
                                 seen <= p.Received /\ (seen < p.Received => ~ctx'[v])
      BY DEF PollAccounts, Busy
    <3>1. CASE v = w
      BY <1>2, <2>1, <3>1 DEF Busy
    <3>2. CASE v # w
      BY <1>2, <1>4, <3>2 DEF IInv, Counts, PollAccounts
    <3> QED  BY <3>1, <3>2
  <2> QED  BY <1>2, <2>2 DEF IInv, Counts, Busy
<1>7. SettledGone'
  BY <1>2, <1>4 DEF IInv, SettledGone, InHand, Fresh
<1>8. Passing' /\ NoLoss'
  BY <1>2, <1>3, <1>4 DEF IInv, Passing, NoLoss, InHand, BootHandlers
<1> QED  BY <1>1, <1>4, <1>5, <1>6, <1>7, <1>8 DEF IInv

\* What a lease leaves true of the deliveries already in hand: a visible
\* message in hand was excused before it was leased again.
LEMMA LeaseHeld ==
    ASSUME IInv, NEW S \in SUBSET Visible, Lease(S), UNCHANGED excused
    PROVE  /\ \A m \in Msgs : receipt[m] <= receipt'[m]
           /\ \A m \in S : m \in Msgs /\ queue[m] = "visible" /\ receipt'[m] = receipt[m] + 1
                                      /\ queue'[m] = "inflight"
           /\ \A m \in Msgs \ S : queue'[m] = queue[m] /\ receipt'[m] = receipt[m]
           /\ \A v \in Loops : \A i \in at[v]..Len(got[v]) :
                /\ got[v][i].receipt <= receipt[got[v][i].msg]
                /\ got[v][i].receipt <= receipt'[got[v][i].msg]
                /\ \/ /\ queue'[got[v][i].msg] = "inflight"
                      /\ receipt'[got[v][i].msg] = got[v][i].receipt
                   \/ got[v][i].msg \in excused
           /\ Receipts'
<1>1. /\ \A m \in Msgs : receipt[m] <= receipt'[m]
      /\ \A m \in S : m \in Msgs /\ queue[m] = "visible" /\ receipt'[m] = receipt[m] + 1
                                 /\ queue'[m] = "inflight"
      /\ \A m \in Msgs \ S : queue'[m] = queue[m] /\ receipt'[m] = receipt[m]
      /\ Receipts'
      /\ receipt' \in [Msgs -> 0..MaxReceives]
  BY LeaseType DEF IInv, Visible
<1>2. ASSUME NEW v \in Loops, NEW i \in at[v]..Len(got[v])
      PROVE  /\ got[v][i].receipt <= receipt[got[v][i].msg]
             /\ got[v][i].receipt <= receipt'[got[v][i].msg]
             /\ (queue'[got[v][i].msg] = "inflight" /\ receipt'[got[v][i].msg] = got[v][i].receipt)
                \/ got[v][i].msg \in excused
  <2>1. got[v][i].msg \in Msgs /\ got[v][i].receipt \in 1..MaxReceives
    BY HeldFacts DEF IInv
  <2>2. /\ got[v][i].receipt <= receipt[got[v][i].msg]
        /\ Fresh(got[v][i]) \/ got[v][i].msg \in excused
    BY DEF IInv, HeldCurrent
  <2>3. receipt[got[v][i].msg] <= receipt'[got[v][i].msg]
    BY <1>1, <2>1
  <2>4. receipt[got[v][i].msg] \in Nat /\ receipt'[got[v][i].msg] \in Nat
    BY <1>1, <2>1 DEF IInv, TypeOK
  <2>5. got[v][i].receipt \in Nat
    BY <2>1
  <2> QED  BY <1>1, <2>1, <2>2, <2>3, <2>4, <2>5 DEF Fresh
<1> QED  BY <1>1, <1>2

LEMMA PollFailsStep ==
    ASSUME IInv, NEW w \in Loops, NEW S \in SUBSET Visible, PollFails(w, S),
           Cardinality(S) <= BatchSize
    PROVE  IInv'
<1> USE DEF queueVars, loopVars, bootVars, history
<1>1. TypeOK'
  BY StepType DEF Next, Consume, Receive
<1>2. /\ pc[w] = "polling" /\ Lease(S)
      /\ UNCHANGED <<ctx, got, at, snap, pos, errs, poll, subs, receiving, boot,
                     ran, cleared, settles, excused>>
      /\ pc'[w] = "backoff" \/ (pc'[w] = "returned" /\ ~ctx[w])
      /\ \A v \in Loops : v # w => pc'[v] = pc[v]
  BY DEF PollFails, IInv, TypeOK
<1>3. /\ \A m \in S : m \in Msgs /\ queue[m] = "visible" /\ receipt'[m] = receipt[m] + 1
                                 /\ queue'[m] = "inflight"
      /\ \A m \in Msgs \ S : queue'[m] = queue[m] /\ receipt'[m] = receipt[m]
      /\ Receipts'
  BY <1>2, LeaseHeld
<1>4. HeldCurrent'
  <2>1. \A v \in Loops : \A i \in at[v]..Len(got[v]) :
          /\ got[v][i].receipt <= receipt'[got[v][i].msg]
          /\ \/ /\ queue'[got[v][i].msg] = "inflight"
                /\ receipt'[got[v][i].msg] = got[v][i].receipt
             \/ got[v][i].msg \in excused
    BY <1>2, LeaseHeld
  <2> QED  BY <1>2, <2>1 DEF HeldCurrent, Fresh
<1>5. HeldApart'
  BY <1>2 DEF IInv, HeldApart
<1>6. Locals'
  BY <1>2 DEF IInv, Locals, Busy
<1>7. Counts'
  <2>1. poll[w].Handled = 0 /\ poll[w].Failed = 0 /\ poll[w].Undeleted = 0 /\ poll[w].Received = 0
    BY <1>2 DEF IInv, Counts, ZeroPoll, Busy
  <2>2. PollAccounts'
    BY <1>2, <2>1 DEF IInv, Counts, PollAccounts, Busy
  <2> QED  BY <1>2, <2>2 DEF IInv, Counts, Busy
<1>8. SettledGone'
  <2> SUFFICES ASSUME NEW m \in Msgs, m \notin excused
               PROVE  /\ settles[m] <= 1
                      /\ settles[m] = 1 =>
                           \/ queue'[m] = "deleted"
                           \/ \E v \in Loops : /\ pc'[v] = "delete"
                                               /\ InHand(v).msg = m
                                               /\ queue'[m] = "inflight"
                                               /\ receipt'[m] = InHand(v).receipt
    BY <1>2 DEF SettledGone, InHand, Fresh
  <2>1. settles[m] <= 1
    BY DEF IInv, SettledGone
  <2>2. CASE settles[m] = 1 /\ queue[m] = "deleted"
    BY <1>3, <2>1, <2>2
  <2>3. CASE settles[m] = 1 /\ queue[m] # "deleted"
    <3>1. PICK v \in Loops : pc[v] = "delete" /\ InHand(v).msg = m /\ Fresh(InHand(v))
      BY <2>3 DEF IInv, SettledGone
    <3>2. queue'[m] = queue[m] /\ receipt'[m] = receipt[m]
      BY <1>3, <3>1 DEF Fresh
    <3> QED  BY <1>2, <2>1, <3>1, <3>2 DEF Fresh
  <2> QED  BY <2>1, <2>2, <2>3
<1>9. Passing' /\ NoLoss'
  <2>1. \A v \in Loops : /\ pc'[v] = "dispatch" => pc[v] = "dispatch"
                         /\ pc'[v] = "delete" => pc[v] = "delete"
    BY <1>2
  <2>2. \A m \in Msgs : queue'[m] = "deleted" => queue[m] = "deleted"
    BY <1>3
  <2> QED  BY <1>2, <2>1, <2>2 DEF IInv, Passing, NoLoss, InHand, BootHandlers
<1> QED  BY <1>1, <1>3, <1>4, <1>5, <1>6, <1>7, <1>8, <1>9 DEF IInv

\* The deliveries of a new poll: distinct, and under receipts not seen before.
LEMMA PollSucceedsStep ==
    ASSUME IInv, NEW w \in Loops, NEW b \in Batches, PollSucceeds(w, b)
    PROVE  IInv'
<1> USE DEF queueVars, loopVars, bootVars, history
<1>1. TypeOK'
  BY StepType DEF Next, Consume, Receive
<1>2. /\ pc[w] = "polling" /\ Lease(Elems(b))
      /\ UNCHANGED <<ctx, snap, pos, errs, subs, receiving, boot, ran, cleared, settles, excused>>
      /\ pc'[w] = "batch" /\ at'[w] = 1
      /\ got'[w] = [i \in DOMAIN b |-> [msg |-> b[i], receipt |-> receipt[b[i]] + 1]]
      /\ \A v \in Loops : v # w => /\ pc'[v] = pc[v] /\ got'[v] = got[v] /\ at'[v] = at[v]
                                   /\ poll'[v] = poll[v]
      /\ poll' = [poll EXCEPT ![w].Received = Len(b)]
  BY DEF PollSucceeds, IInv, TypeOK
<1>3. /\ b \in Seq(Msgs) /\ DOMAIN b = 1..Len(b) /\ Len(b) \in Nat
      /\ \A i \in DOMAIN b : b[i] \in Msgs /\ queue[b[i]] = "visible"
      /\ \A i, j \in DOMAIN b : i # j => b[i] # b[j]
  BY BatchFacts, BoundsAssumption DEF IInv
<1>4. Elems(b) \in SUBSET Visible
  BY <1>3 DEF Elems, Visible
<1>5. /\ \A m \in Elems(b) : m \in Msgs /\ queue[m] = "visible" /\ receipt'[m] = receipt[m] + 1
                                        /\ queue'[m] = "inflight"
      /\ \A m \in Msgs \ Elems(b) : queue'[m] = queue[m] /\ receipt'[m] = receipt[m]
      /\ Receipts'
  BY <1>2, <1>4, LeaseHeld
<1>6. /\ Len(got'[w]) = Len(b)
      /\ \A i \in 1..Len(b) : /\ got'[w][i].msg = b[i]
                              /\ got'[w][i].receipt = receipt[b[i]] + 1
                              /\ b[i] \in Msgs
                              /\ receipt'[b[i]] = receipt[b[i]] + 1
                              /\ queue'[b[i]] = "inflight"
                              /\ receipt[b[i]] \in Nat
  <2>1. got'[w] = [i \in 1..Len(b) |-> [msg |-> b[i], receipt |-> receipt[b[i]] + 1]]
    BY <1>2, <1>3
  <2>2. Len(got'[w]) = Len(b)
    BY <1>3, <2>1
  <2>3. \A i \in 1..Len(b) : b[i] \in Elems(b) /\ b[i] \in Msgs
    BY <1>3 DEF Elems
  <2>4. \A m \in Msgs : receipt[m] \in Nat
    BY DEF IInv, TypeOK
  <2> QED  BY <1>5, <2>1, <2>2, <2>3, <2>4
<1>7. \A v \in Loops : \A i \in at[v]..Len(got[v]) :
        /\ got[v][i].receipt <= receipt[got[v][i].msg]
        /\ got[v][i].receipt <= receipt'[got[v][i].msg]
        /\ \/ /\ queue'[got[v][i].msg] = "inflight"
              /\ receipt'[got[v][i].msg] = got[v][i].receipt
           \/ got[v][i].msg \in excused
  BY <1>2, <1>4, LeaseHeld
<1>8. HeldCurrent'
  <2> SUFFICES ASSUME NEW v \in Loops, NEW i \in at'[v]..Len(got'[v])
               PROVE  /\ got'[v][i].receipt <= receipt'[got'[v][i].msg]
                      /\ \/ /\ queue'[got'[v][i].msg] = "inflight"
                            /\ receipt'[got'[v][i].msg] = got'[v][i].receipt
                         \/ got'[v][i].msg \in excused'
    BY DEF HeldCurrent, Fresh
  <2>1. CASE v = w
    BY <1>2, <1>3, <1>6, <2>1
  <2>2. CASE v # w
    BY <1>2, <1>7, <2>2
  <2> QED  BY <2>1, <2>2
<1>9. HeldApart'
  <2> SUFFICES ASSUME NEW u \in Loops, NEW v \in Loops, NEW i \in at'[u]..Len(got'[u]),
                      NEW j \in at'[v]..Len(got'[v]), u # v \/ i # j
               PROVE  got'[u][i] # got'[v][j]
    BY DEF HeldApart
  <2>1. ASSUME NEW q \in Loops, q # w, NEW k \in at[q]..Len(got[q]), NEW l \in 1..Len(b)
        PROVE  got[q][k] # got'[w][l]
    <3>1. got[q][k].msg = b[l] => got[q][k].receipt <= receipt[b[l]]
      BY <1>7, <2>1
    <3> got[q][k].receipt \in 1..MaxReceives
      BY <2>1, HeldFacts DEF IInv
    <3>2. got[q][k].receipt \in Nat
      OBVIOUS
    <3>3. CASE got[q][k].msg # b[l]
      BY <1>6, <3>3
    <3>4. CASE got[q][k].msg = b[l]
      BY <1>6, <3>1, <3>2, <3>4
    <3> QED  BY <3>3, <3>4
  <2>2. CASE u = w /\ v = w
    BY <1>2, <1>3, <1>6, <2>2
  <2>3. CASE u = w /\ v # w
    <3>1. i \in 1..Len(b) /\ j \in at[v]..Len(got[v]) /\ got'[v] = got[v]
      BY <1>2, <1>6, <2>3
    <3>2. got[v][j] # got'[w][i]
      BY <2>1, <2>3, <3>1
    <3> QED  BY <2>3, <3>1, <3>2
  <2>4. CASE u # w /\ v = w
    <3>1. j \in 1..Len(b) /\ i \in at[u]..Len(got[u]) /\ got'[u] = got[u]
      BY <1>2, <1>6, <2>4
    <3>2. got[u][i] # got'[w][j]
      BY <2>1, <2>4, <3>1
    <3> QED  BY <2>4, <3>1, <3>2
  <2>5. CASE u # w /\ v # w
    BY <1>2, <2>5 DEF IInv, HeldApart
  <2> QED  BY <2>2, <2>3, <2>4, <2>5
<1>10. Locals'
  BY <1>2, <1>3, <1>6 DEF IInv, Locals, Busy
<1>11. Counts'
  <2>1. poll[w].Handled = 0 /\ poll[w].Failed = 0 /\ poll[w].Undeleted = 0
    BY <1>2 DEF IInv, Counts, ZeroPoll, Busy
  <2>2. poll[w] \in [Received : 0..BatchSize, Handled : 0..BatchSize,
                     Failed : 0..BatchSize, Undeleted : 0..BatchSize]
    BY DEF IInv, TypeOK
  <2>3. /\ poll'[w].Handled = 0 /\ poll'[w].Failed = 0 /\ poll'[w].Undeleted = 0
        /\ poll'[w].Received = Len(b)
    BY <1>2, <2>1, <2>2 DEF IInv, TypeOK
  <2>4. PollAccounts'
    <3> SUFFICES ASSUME NEW v \in Loops
                 PROVE  LET p == poll'[v]
                            seen == p.Handled + p.Failed
                        IN /\ p.Undeleted <= p.Handled
                           /\ pc'[v] \in Busy =>
                                 /\ p.Received = Len(got'[v])
                                 /\ seen = IF pc'[v] = "delete" THEN at'[v] ELSE at'[v] - 1
                           /\ pc'[v] = "returned" =>
                                 seen <= p.Received /\ (seen < p.Received => ~ctx'[v])
      BY DEF PollAccounts, Busy
    <3>1. CASE v = w
      BY <1>2, <1>6, <2>3, <3>1
    <3>2. CASE v # w
      BY <1>2, <3>2 DEF IInv, Counts, PollAccounts
    <3> QED  BY <3>1, <3>2
  <2> QED  BY <1>2, <2>4 DEF IInv, Counts, Busy
<1>12. SettledGone'
  <2> SUFFICES ASSUME NEW m \in Msgs, m \notin excused
               PROVE  /\ settles[m] <= 1
                      /\ settles[m] = 1 =>
                           \/ queue'[m] = "deleted"
                           \/ \E v \in Loops : /\ pc'[v] = "delete"
                                               /\ got'[v][at'[v]].msg = m
                                               /\ queue'[m] = "inflight"
                                               /\ receipt'[m] = got'[v][at'[v]].receipt
    BY <1>2 DEF SettledGone, InHand, Fresh
  <2>1. settles[m] <= 1
    BY DEF IInv, SettledGone
  <2>2. CASE settles[m] = 1 /\ queue[m] = "deleted"
    BY <1>5, <2>1, <2>2
  <2>3. CASE settles[m] = 1 /\ queue[m] # "deleted"
    <3>1. PICK v \in Loops : pc[v] = "delete" /\ InHand(v).msg = m /\ Fresh(InHand(v))
      BY <2>3 DEF IInv, SettledGone
    <3>2. queue'[m] = queue[m] /\ receipt'[m] = receipt[m] /\ v # w
      BY <1>2, <1>5, <3>1 DEF Fresh
    <3> QED  BY <1>2, <2>1, <3>1, <3>2 DEF Fresh, InHand
  <2> QED  BY <2>1, <2>2, <2>3
<1>13. Passing' /\ NoLoss'
  <2>1. \A v \in Loops : pc'[v] \in {"dispatch", "delete"} =>
                            v # w /\ pc[v] = pc'[v] /\ got'[v] = got[v] /\ at'[v] = at[v]
    BY <1>2
  <2>2. \A m \in Msgs : queue'[m] = "deleted" => queue[m] = "deleted"
    BY <1>5
  <2> QED  BY <1>2, <2>1, <2>2 DEF IInv, Passing, NoLoss, InHand, BootHandlers
<1> QED  BY <1>1, <1>5, <1>8, <1>9, <1>10, <1>11, <1>12, <1>13 DEF IInv

-----------------------------------------------------------------------------
(* The steps of the program and the queue                                  *)

\* A handler subscribed once a loop receives is not one of boot's.
LEMMA SubscribeStep ==
    ASSUME IInv, NEW n \in Names, NEW h \in Handlers, Subscribe(n, h)
    PROVE  IInv'
<1> USE DEF queueVars, loopVars, bootVars, history
<1>1. TypeOK'
  BY StepType DEF Next, Consume
<1>2. /\ UNCHANGED <<queue, receipt, ctx, pc, got, at, snap, pos, errs, poll, receiving,
                     ran, cleared, settles, excused>>
      /\ boot' = IF receiving THEN boot ELSE boot \cup {<<n, h>>}
      /\ subs' = [subs EXCEPT ![n] = Append(@, h)]
  BY DEF Subscribe
<1>3. HeldCurrent' /\ HeldApart' /\ Receipts'
  BY <1>2, HeldFrame
<1>4. Locals' /\ Counts' /\ SettledGone' /\ NoLoss'
  BY <1>2 DEF IInv, Locals, Counts, PollAccounts, SettledGone, NoLoss, InHand, Fresh
<1>5. Passing'
  <2>1. subs[n] \in Seq(Handlers)
    BY DEF IInv, TypeOK
  <2>2. Elems(subs[n]) \subseteq Elems(subs'[n]) /\ h \in Elems(subs'[n])
    BY <1>2, <2>1, ElemsAppend DEF IInv, TypeOK
  <2>3. \A k \in Names : k # n => subs'[k] = subs[k]
    BY <1>2 DEF IInv, TypeOK
  <2>4. \A k \in Names, g \in Handlers : <<k, g>> \in boot' => g \in Elems(subs'[k])
    <3> SUFFICES ASSUME NEW k \in Names, NEW g \in Handlers, <<k, g>> \in boot'
                 PROVE  g \in Elems(subs'[k])
      OBVIOUS
    <3>1. CASE <<k, g>> \in boot
      BY <2>2, <2>3, <3>1 DEF IInv, Passing
    <3>2. CASE <<k, g>> \notin boot
      <4>1. k = n /\ g = h
        BY <1>2, <3>2
      <4> QED  BY <2>2, <4>1
    <3> QED  BY <3>1, <3>2
  <2>5. \A v \in Loops : pc[v] = "dispatch" => boot' = boot
    BY <1>2 DEF IInv, Locals
  <2>6. \A v \in Loops :
          /\ pc'[v] = "dispatch" =>
               /\ {g \in Handlers : <<EventOf[InHand(v).msg], g>> \in boot'} \subseteq Elems(snap'[v])
               /\ ~errs'[v] => \A i \in DOMAIN snap'[v] : i < pos'[v] => snap'[v][i] \in ran'[v]
          /\ pc'[v] = "delete" => InHand(v).msg \in cleared'
    BY <1>2, <2>5 DEF IInv, Passing, BootHandlers
  <2> QED  BY <1>2, <2>4, <2>6 DEF Passing, InHand, BootHandlers, Elems
<1> QED  BY <1>1, <1>3, <1>4, <1>5 DEF IInv

LEMMA PublishStep ==
    ASSUME IInv, NEW m \in Msgs, Publish(m)
    PROVE  IInv'
<1> USE DEF queueVars, loopVars, bootVars, history
<1>1. TypeOK'
  BY StepType DEF Next, Consume
<1>2. /\ UNCHANGED <<receipt, ctx, pc, got, at, snap, pos, errs, poll, receiving, boot, subs,
                     ran, cleared, settles, excused>>
      /\ queue[m] = "unsent" /\ queue'[m] = "visible"
      /\ \A k \in Msgs : k # m => queue'[k] = queue[k]
  BY DEF Publish, IInv, TypeOK
<1>3. receipt[m] = 0 /\ 0 < MaxReceives
  BY <1>2, BoundsAssumption DEF IInv, Receipts
<1>4. Receipts'
  BY <1>2, <1>3 DEF IInv, Receipts
<1>5. HeldCurrent'
  <2>1. \A v \in Loops : \A i \in at[v]..Len(got[v]) :
          /\ got[v][i].receipt <= receipt[got[v][i].msg]
          /\ Fresh(got[v][i]) => /\ queue'[got[v][i].msg] = "inflight"
                                 /\ receipt[got[v][i].msg] = got[v][i].receipt
          /\ Fresh(got[v][i]) \/ got[v][i].msg \in excused
    BY <1>2, HeldFacts DEF IInv, HeldCurrent, Fresh
  <2> QED  BY <1>2, <2>1 DEF HeldCurrent, Fresh
<1>6. HeldApart' /\ Locals' /\ Counts' /\ Passing'
  BY <1>2 DEF IInv, HeldApart, Locals, Counts, PollAccounts, Passing, InHand, BootHandlers
<1>7. SettledGone'
  BY <1>2 DEF IInv, SettledGone, InHand, Fresh
<1>8. NoLoss'
  BY <1>2 DEF IInv, NoLoss
<1> QED  BY <1>1, <1>4, <1>5, <1>6, <1>7, <1>8 DEF IInv

\* A lease that runs out under a loop's hands excuses the message.
LEMMA ExpireStep ==
    ASSUME IInv, NEW m \in Msgs, Expire(m)
    PROVE  IInv'
<1> USE DEF queueVars, loopVars, bootVars, history
<1>1. TypeOK'
  BY StepType DEF Next, Consume
<1>2. /\ UNCHANGED <<receipt, ctx, pc, got, at, snap, pos, errs, poll, receiving, boot, subs,
                     ran, cleared, settles>>
      /\ queue[m] = "inflight"
      /\ queue'[m] \in {"visible", "parked"}
      /\ queue'[m] = "visible" => receipt[m] < MaxReceives
      /\ \A k \in Msgs : k # m => queue'[k] = queue[k]
      /\ excused \subseteq excused'
      /\ (\E w \in Loops : [msg |-> m, receipt |-> receipt[m]] \in Held(w)) => m \in excused'
  BY DEF Expire, IInv, TypeOK
<1>3. Receipts'
  BY <1>2 DEF IInv, Receipts
<1>4. ASSUME NEW v \in Loops, NEW i \in at[v]..Len(got[v])
      PROVE  /\ got[v][i].msg \in Msgs
             /\ got[v][i].receipt <= receipt[got[v][i].msg]
             /\ (queue'[got[v][i].msg] = "inflight" /\ receipt[got[v][i].msg] = got[v][i].receipt)
                \/ got[v][i].msg \in excused'
  <2>1. /\ got[v][i].msg \in Msgs
        /\ got[v][i] = [msg |-> got[v][i].msg, receipt |-> got[v][i].receipt]
    BY HeldFacts DEF IInv
  <2>2. /\ got[v][i].receipt <= receipt[got[v][i].msg]
        /\ Fresh(got[v][i]) \/ got[v][i].msg \in excused
    BY DEF IInv, HeldCurrent
  <2>3. CASE got[v][i].msg # m
    BY <1>2, <2>1, <2>2, <2>3 DEF Fresh
  <2>4. CASE got[v][i].msg = m /\ Fresh(got[v][i])
    <3>1. got[v][i] = [msg |-> m, receipt |-> receipt[m]]
      BY <2>1, <2>4 DEF Fresh
    <3>2. got[v][i] \in Held(v)
      BY DEF Held
    <3> QED  BY <1>2, <2>1, <2>2, <2>4, <3>1, <3>2
  <2> QED  BY <1>2, <2>1, <2>2, <2>3, <2>4
<1>5. HeldCurrent'
  BY <1>2, <1>4 DEF HeldCurrent, Fresh
<1>6. HeldApart' /\ Locals' /\ Counts' /\ Passing'
  BY <1>2 DEF IInv, HeldApart, Locals, Counts, PollAccounts, Passing, InHand, BootHandlers
<1>7. SettledGone'
  <2> SUFFICES ASSUME NEW k \in Msgs, k \notin excused'
               PROVE  /\ settles[k] <= 1
                      /\ settles[k] = 1 =>
                           \/ queue'[k] = "deleted"
                           \/ \E v \in Loops : /\ pc[v] = "delete"
                                               /\ InHand(v).msg = k
                                               /\ queue'[k] = "inflight"
                                               /\ receipt[k] = InHand(v).receipt
    BY <1>2 DEF SettledGone, InHand, Fresh
  <2>1. k \notin excused
    BY <1>2
  <2>2. settles[k] <= 1
    BY <2>1 DEF IInv, SettledGone
  <2>3. CASE queue[k] = "deleted"
    BY <1>2, <2>2, <2>3
  <2>4. CASE settles[k] = 1 /\ queue[k] # "deleted"
    <3>1. PICK v \in Loops : pc[v] = "delete" /\ InHand(v).msg = k /\ Fresh(InHand(v))
      BY <2>1, <2>4 DEF IInv, SettledGone
    <3>2. at[v] \in at[v]..Len(got[v])
      BY <3>1, HandFacts DEF IInv, Locals
    <3>3. queue'[k] = "inflight" /\ receipt[k] = InHand(v).receipt
      BY <1>4, <3>1, <3>2 DEF InHand
    <3> QED  BY <2>2, <3>1, <3>3
  <2> QED  BY <2>2, <2>3, <2>4
<1>8. NoLoss'
  BY <1>2 DEF IInv, NoLoss
<1> QED  BY <1>1, <1>3, <1>5, <1>6, <1>7, <1>8 DEF IInv

-----------------------------------------------------------------------------
(* The steps of a delivery                                                 *)

\* Dispatch's copy has every handler of boot.
LEMMA NextMessageStep ==
    ASSUME IInv, NEW w \in Loops, NextMessage(w)
    PROVE  IInv'
<1> USE DEF queueVars, loopVars, bootVars, history
<1>1. TypeOK'
  BY StepType DEF Next, Consume, Receive
<1>2. /\ UNCHANGED <<queue, receipt, ctx, got, at, poll, receiving, boot, subs,
                     cleared, settles, excused>>
      /\ pc[w] = "batch" /\ at[w] <= Len(got[w])
      /\ pc'[w] = "dispatch" /\ pos'[w] = 1
      /\ snap'[w] = subs[EventOf[InHand(w).msg]]
      /\ \A v \in Loops : v # w => /\ pc'[v] = pc[v] /\ snap'[v] = snap[v] /\ pos'[v] = pos[v]
                                   /\ errs'[v] = errs[v] /\ ran'[v] = ran[v]
  BY DEF NextMessage, IInv, TypeOK
<1>3. HeldCurrent' /\ HeldApart' /\ Receipts'
  BY <1>2, HeldFrame
<1>4. Locals'
  BY <1>2 DEF IInv, Locals, Busy
<1>5. Counts'
  BY <1>2 DEF IInv, Counts, PollAccounts, Busy
<1>6. SettledGone'
  <2>1. \A v \in Loops : pc[v] = "delete" => pc'[v] = "delete" /\ v # w
    BY <1>2
  <2>2. \A v \in Loops : InHand(v)' = InHand(v) /\ (Fresh(InHand(v)) => Fresh(InHand(v))')
    BY <1>2 DEF InHand, Fresh
  <2> QED  BY <1>2, <2>1, <2>2 DEF IInv, SettledGone
<1>7. NoLoss'
  BY <1>2 DEF IInv, NoLoss
<1>8. Passing'
  <2>1. InHand(w).msg \in Msgs
    BY <1>2, HandFacts DEF IInv
  <2>2. EventOf[InHand(w).msg] \in Names
    BY <2>1, EventsAssumption
  <2>3. BootHandlers(InHand(w).msg) \subseteq Elems(snap'[w])
    BY <1>2, <2>2 DEF IInv, Passing, BootHandlers
  <2>4. subs[EventOf[InHand(w).msg]] \in Seq(Handlers)
    BY <2>2 DEF IInv, TypeOK
  <2>5. \A i \in DOMAIN snap'[w] : ~ (i < pos'[w])
    BY <1>2, <2>4
  <2>6. \A v \in Loops :
          /\ pc'[v] = "dispatch" =>
               /\ BootHandlers(InHand(v).msg) \subseteq Elems(snap'[v])
               /\ ~errs'[v] => \A i \in DOMAIN snap'[v] : i < pos'[v] => snap'[v][i] \in ran'[v]
          /\ pc'[v] = "delete" => InHand(v).msg \in cleared
    <3> SUFFICES ASSUME NEW v \in Loops
                 PROVE  /\ pc'[v] = "dispatch" =>
                             /\ BootHandlers(InHand(v).msg) \subseteq Elems(snap'[v])
                             /\ ~errs'[v] => \A i \in DOMAIN snap'[v] :
                                                i < pos'[v] => snap'[v][i] \in ran'[v]
                        /\ pc'[v] = "delete" => InHand(v).msg \in cleared
      OBVIOUS
    <3>1. CASE v = w
      BY <1>2, <2>3, <2>5, <3>1
    <3>2. CASE v # w
      BY <1>2, <3>2 DEF IInv, Passing
    <3> QED  BY <3>1, <3>2
  <2> QED  BY <1>2, <2>6 DEF IInv, Passing, InHand, BootHandlers
<1> QED  BY <1>1, <1>3, <1>4, <1>5, <1>6, <1>7, <1>8 DEF IInv

LEMMA HandlerStep ==
    ASSUME IInv, NEW w \in Loops, NEW err \in BOOLEAN, HandlerReturns(w, err)
    PROVE  IInv'
<1> USE DEF queueVars, loopVars, bootVars, history
<1>1. TypeOK'
  BY StepType DEF Next, Consume, Receive
<1>2. /\ UNCHANGED <<queue, receipt, ctx, pc, got, at, poll, snap, receiving, boot, subs,
                     cleared, settles, excused>>
      /\ pc[w] = "dispatch" /\ pos[w] <= Len(snap[w])
      /\ pos'[w] = pos[w] + 1
      /\ ran'[w] = IF err THEN ran[w] ELSE ran[w] \cup {snap[w][pos[w]]}
      /\ \A v \in Loops : v # w => pos'[v] = pos[v] /\ errs'[v] = errs[v] /\ ran'[v] = ran[v]
  BY DEF HandlerReturns, IInv, TypeOK
<1>3. errs'[w] = (errs[w] \/ err)
  BY DEF HandlerReturns, Collect, IInv, TypeOK
<1>4. HeldCurrent' /\ HeldApart' /\ Receipts'
  BY <1>2, HeldFrame
<1>5. Locals' /\ Counts' /\ SettledGone' /\ NoLoss'
  BY <1>2 DEF IInv, Locals, Counts, PollAccounts, SettledGone, NoLoss, InHand, Fresh
<1>6. Passing'
  <2>1. ASSUME ~errs'[w], NEW i \in DOMAIN snap[w], i < pos'[w]
        PROVE  snap[w][i] \in ran'[w]
    <3>1. ~errs[w] /\ ~err
      BY <1>3, <2>1
    <3>2. i \in Nat /\ pos[w] \in Nat
      BY DEF IInv, TypeOK
    <3>3. CASE i < pos[w]
      BY <1>2, <3>1, <3>3 DEF IInv, Passing
    <3>4. CASE i = pos[w]
      BY <1>2, <3>1, <3>4
    <3> QED  BY <1>2, <2>1, <3>2, <3>3, <3>4
  <2>2. \A v \in Loops :
          /\ pc[v] = "dispatch" =>
               /\ BootHandlers(InHand(v).msg) \subseteq Elems(snap[v])
               /\ ~errs'[v] => \A i \in DOMAIN snap[v] : i < pos'[v] => snap[v][i] \in ran'[v]
          /\ pc[v] = "delete" => InHand(v).msg \in cleared
    BY <1>2, <2>1 DEF IInv, Passing
  <2> QED  BY <1>2, <2>2 DEF IInv, Passing, InHand, BootHandlers
<1> QED  BY <1>1, <1>4, <1>5, <1>6 DEF IInv

\* A message whose lease still runs, or that nothing excuses, is in one hand only.
LEMMA OnlyHand ==
    ASSUME IInv, NEW v \in Loops, NEW w \in Loops,
           NEW i \in at[v]..Len(got[v]), NEW j \in at[w]..Len(got[w]),
           got[v][i].msg = got[w][j].msg, v # w \/ i # j
    PROVE  got[v][i].msg \in excused
<1>1. /\ got[v][i] = [msg |-> got[v][i].msg, receipt |-> got[v][i].receipt]
      /\ got[w][j] = [msg |-> got[w][j].msg, receipt |-> got[w][j].receipt]
  BY HeldFacts DEF IInv
<1>2. got[v][i] # got[w][j]
  BY DEF IInv, HeldApart
<1>3. /\ Fresh(got[v][i]) \/ got[v][i].msg \in excused
      /\ Fresh(got[w][j]) \/ got[w][j].msg \in excused
  BY DEF IInv, HeldCurrent
<1> QED  BY <1>1, <1>2, <1>3 DEF Fresh

\* The deliveries in hand when a loop has finished with one of them.
LEMMA MoveOn ==
    ASSUME IInv, NEW w \in Loops, at[w] <= Len(got[w]), UNCHANGED got,
           at' = [at EXCEPT ![w] = @ + 1]
    PROVE  /\ \A v \in Loops : at'[v]..Len(got[v]) \subseteq at[v]..Len(got[v])
           /\ at'[w]..Len(got[w]) = (at[w]..Len(got[w])) \ {at[w]}
           /\ at'[w] = at[w] + 1 /\ at'[w] <= Len(got[w]) + 1
           /\ \A v \in Loops : v # w => at'[v] = at[v]
           /\ HeldApart'
<1>1. at[w] \in Nat /\ Len(got[w]) \in Nat /\ at'[w] = at[w] + 1
      /\ \A v \in Loops : v # w => at'[v] = at[v]
  BY DEF IInv, TypeOK
<1>2. at'[w]..Len(got[w]) = (at[w]..Len(got[w])) \ {at[w]}
  BY <1>1
<1>3. \A v \in Loops : at'[v]..Len(got[v]) \subseteq at[v]..Len(got[v])
  BY <1>1, <1>2
<1>4. HeldApart'
  BY <1>3 DEF IInv, HeldApart
<1> QED  BY <1>1, <1>2, <1>3, <1>4

LEMMA DispatchFailsStep ==
    ASSUME IInv, NEW w \in Loops, DispatchFails(w)
    PROVE  IInv'
<1> USE DEF queueVars, loopVars, bootVars, history
<1>1. TypeOK'
  BY StepType DEF Next, Consume, Receive
<1>2. /\ UNCHANGED <<queue, receipt, ctx, got, receiving, boot, subs,
                     cleared, settles, excused>>
      /\ pc[w] = "dispatch" /\ pc'[w] = "batch"
      /\ at[w] <= Len(got[w])
      /\ at' = [at EXCEPT ![w] = @ + 1]
      /\ poll' = [poll EXCEPT ![w].Failed = @ + 1]
      /\ LeaveDispatch(w)
      /\ \A v \in Loops : v # w => pc'[v] = pc[v] /\ poll'[v] = poll[v]
  BY DEF DispatchFails, IInv, TypeOK, Locals
<1>3. \A v \in Loops : v # w => snap'[v] = snap[v] /\ pos'[v] = pos[v] /\ errs'[v] = errs[v]
                               /\ ran'[v] = ran[v]
  BY <1>2 DEF LeaveDispatch, IInv, TypeOK
<1>4. /\ \A v \in Loops : at'[v]..Len(got[v]) \subseteq at[v]..Len(got[v])
      /\ at'[w] = at[w] + 1 /\ at'[w] <= Len(got[w]) + 1
      /\ \A v \in Loops : v # w => at'[v] = at[v]
      /\ HeldApart'
  BY <1>2, MoveOn
<1>5. HeldCurrent' /\ Receipts'
  BY <1>2, <1>4 DEF IInv, HeldCurrent, Receipts, Fresh
<1>6. Locals'
  BY <1>2, <1>4 DEF IInv, Locals, Busy
<1>7. Counts'
  <2>1. poll[w] \in [Received : 0..BatchSize, Handled : 0..BatchSize,
                     Failed : 0..BatchSize, Undeleted : 0..BatchSize]
    BY DEF IInv, TypeOK
  <2>2. /\ poll'[w].Handled = poll[w].Handled /\ poll'[w].Undeleted = poll[w].Undeleted
        /\ poll'[w].Received = poll[w].Received /\ poll'[w].Failed = poll[w].Failed + 1
    BY <1>2, <2>1 DEF IInv, TypeOK
  <2>3. /\ poll[w].Handled + poll[w].Failed = at[w] - 1 /\ poll[w].Received = Len(got[w])
        /\ poll[w].Undeleted <= poll[w].Handled
    BY <1>2 DEF IInv, Counts, PollAccounts, Busy
  <2>4. /\ poll[w].Handled \in Nat /\ poll[w].Failed \in Nat
        /\ poll[w].Undeleted \in Nat /\ at[w] \in Nat
    BY <2>1 DEF IInv, TypeOK
  <2>5. poll'[w].Handled + poll'[w].Failed = at'[w] - 1
    <3>1. \A h, f, n \in Nat : h + f = n - 1 => h + (f + 1) = (n + 1) - 1
      OBVIOUS
    <3>2. poll[w].Handled + (poll[w].Failed + 1) = (at[w] + 1) - 1
      BY <2>3, <2>4, <3>1
    <3> QED  BY <1>4, <2>2, <3>2
  <2>6. PollAccounts'
    <3> SUFFICES ASSUME NEW v \in Loops
                 PROVE  LET p == poll'[v]
                            seen == p.Handled + p.Failed
                        IN /\ p.Undeleted <= p.Handled
                           /\ pc'[v] \in Busy =>
                                 /\ p.Received = Len(got'[v])
                                 /\ seen = IF pc'[v] = "delete" THEN at'[v] ELSE at'[v] - 1
                           /\ pc'[v] = "returned" =>
                                 seen <= p.Received /\ (seen < p.Received => ~ctx'[v])
      BY DEF PollAccounts, Busy
    <3>1. CASE v = w
      BY <1>2, <2>2, <2>3, <2>5, <3>1
    <3>2. CASE v # w
      BY <1>2, <1>4, <3>2 DEF IInv, Counts, PollAccounts
    <3> QED  BY <3>1, <3>2
  <2> QED  BY <1>2, <2>6 DEF IInv, Counts, Busy
<1>8. SettledGone'
  BY <1>2, <1>4 DEF IInv, SettledGone, InHand, Fresh
<1>9. Passing' /\ NoLoss'
  BY <1>2, <1>3, <1>4 DEF IInv, Passing, NoLoss, InHand, BootHandlers
<1> QED  BY <1>1, <1>4, <1>5, <1>6, <1>7, <1>8, <1>9 DEF IInv

\* Nil from Dispatch: every handler of boot passed, and no delivery of an
\* unexcused message was settled before.
LEMMA DispatchSucceedsStep ==
    ASSUME IInv, NEW w \in Loops, DispatchSucceeds(w)
    PROVE  IInv'
<1> USE DEF queueVars, loopVars, bootVars, history
<1> DEFINE m == InHand(w).msg
<1>1. TypeOK'
  BY StepType DEF Next, Consume, Receive
<1>2. /\ UNCHANGED <<queue, receipt, ctx, got, at, receiving, boot, subs, excused>>
      /\ pc[w] = "dispatch" /\ pc'[w] = "delete"
      /\ pos[w] > Len(snap[w]) /\ ~errs[w]
      /\ at[w] <= Len(got[w])
      /\ poll' = [poll EXCEPT ![w].Handled = @ + 1]
      /\ settles' = [settles EXCEPT ![m] = @ + 1]
      /\ cleared' = IF BootHandlers(m) \subseteq ran[w] THEN cleared \cup {m} ELSE cleared
      /\ LeaveDispatch(w)
      /\ \A v \in Loops : v # w => pc'[v] = pc[v] /\ poll'[v] = poll[v]
  BY DEF DispatchSucceeds, IInv, TypeOK, Locals
<1>3. \A v \in Loops : v # w => snap'[v] = snap[v] /\ pos'[v] = pos[v] /\ errs'[v] = errs[v]
                               /\ ran'[v] = ran[v]
  BY <1>2 DEF LeaveDispatch, IInv, TypeOK
<1>4. /\ m \in Msgs /\ at[w] \in at[w]..Len(got[w])
      /\ settles'[m] = settles[m] + 1
      /\ settles[m] \in Nat
      /\ \A k \in Msgs : k # m => settles'[k] = settles[k]
  BY <1>2, HandFacts DEF IInv, TypeOK
<1>5. HeldCurrent' /\ HeldApart' /\ Receipts'
  BY <1>2, HeldFrame
<1>6. Locals'
  BY <1>2 DEF IInv, Locals, Busy
<1>7. Counts'
  <2>1. poll[w] \in [Received : 0..BatchSize, Handled : 0..BatchSize,
                     Failed : 0..BatchSize, Undeleted : 0..BatchSize]
    BY DEF IInv, TypeOK
  <2>2. /\ poll'[w].Handled = poll[w].Handled + 1 /\ poll'[w].Undeleted = poll[w].Undeleted
        /\ poll'[w].Received = poll[w].Received /\ poll'[w].Failed = poll[w].Failed
    BY <1>2, <2>1 DEF IInv, TypeOK
  <2>3. /\ poll[w].Handled + poll[w].Failed = at[w] - 1 /\ poll[w].Received = Len(got[w])
        /\ poll[w].Undeleted <= poll[w].Handled
    BY <1>2 DEF IInv, Counts, PollAccounts, Busy
  <2>4. /\ poll[w].Handled \in Nat /\ poll[w].Failed \in Nat
        /\ poll[w].Undeleted \in Nat /\ at[w] \in Nat
    BY <2>1 DEF IInv, TypeOK
  <2>5. /\ poll'[w].Handled + poll'[w].Failed = at[w]
        /\ poll'[w].Undeleted < poll'[w].Handled
        /\ poll'[w].Undeleted <= poll'[w].Handled
    <3>1. \A h, f, u, n \in Nat :
            h + f = n - 1 /\ u <= h => (h + 1) + f = n /\ u < h + 1 /\ u <= h + 1
      OBVIOUS
    <3>2. /\ (poll[w].Handled + 1) + poll[w].Failed = at[w]
          /\ poll[w].Undeleted < poll[w].Handled + 1
          /\ poll[w].Undeleted <= poll[w].Handled + 1
      <4>1. PICK h \in Nat, f \in Nat, u \in Nat, n \in Nat :
                h = poll[w].Handled /\ f = poll[w].Failed /\ u = poll[w].Undeleted /\ n = at[w]
        BY <2>4
      <4>2. h + f = n - 1 /\ u <= h
        BY <2>3, <4>1
      <4> QED  BY <3>1, <4>1, <4>2
    <3> QED  BY <2>2, <3>2
  <2>6. PollAccounts'
    <3> SUFFICES ASSUME NEW v \in Loops
                 PROVE  LET p == poll'[v]
                            seen == p.Handled + p.Failed
                        IN /\ p.Undeleted <= p.Handled
                           /\ pc'[v] \in Busy =>
                                 /\ p.Received = Len(got'[v])
                                 /\ seen = IF pc'[v] = "delete" THEN at'[v] ELSE at'[v] - 1
                           /\ pc'[v] = "returned" =>
                                 seen <= p.Received /\ (seen < p.Received => ~ctx'[v])
      BY DEF PollAccounts, Busy
    <3>1. CASE v = w
      BY <1>2, <2>2, <2>3, <2>5, <3>1
    <3>2. CASE v # w
      BY <1>2, <3>2 DEF IInv, Counts, PollAccounts
    <3> QED  BY <3>1, <3>2
  <2> QED  BY <1>2, <2>5, <2>6 DEF IInv, Counts, Busy
<1>8. m \in cleared'
  <2>1. \A i \in DOMAIN snap[w] : i < pos[w]
    BY <1>2 DEF IInv, TypeOK
  <2>2. Elems(snap[w]) \subseteq ran[w]
    BY <1>2, <2>1 DEF IInv, Passing, Elems
  <2>3. BootHandlers(m) \subseteq Elems(snap[w])
    BY <1>2 DEF IInv, Passing
  <2> QED  BY <1>2, <2>2, <2>3
<1>9. SettledGone'
  <2> SUFFICES ASSUME NEW k \in Msgs, k \notin excused
               PROVE  /\ settles'[k] <= 1
                      /\ settles'[k] = 1 =>
                           \/ queue[k] = "deleted"
                           \/ \E v \in Loops : /\ pc'[v] = "delete"
                                               /\ InHand(v).msg = k
                                               /\ Fresh(InHand(v))
    BY <1>2 DEF SettledGone, InHand, Fresh
  <2>1. CASE k # m
    BY <1>2, <1>4, <2>1 DEF IInv, SettledGone
  <2>2. CASE k = m
    <3>1. Fresh(InHand(w))
      BY <1>4, <2>2 DEF IInv, HeldCurrent, InHand
    <3>2. ~ \E v \in Loops : pc[v] = "delete" /\ InHand(v).msg = m
      <4> SUFFICES ASSUME NEW v \in Loops, pc[v] = "delete", InHand(v).msg = m
                   PROVE  FALSE
        OBVIOUS
      <4>1. v # w /\ at[v] \in at[v]..Len(got[v])
        BY <1>2, HandFacts DEF IInv, Locals
      <4> QED  BY <1>4, <2>2, <4>1, OnlyHand DEF InHand
    <3>3. settles[m] <= 1 /\ settles[m] # 1
      BY <1>4, <2>2, <3>1, <3>2 DEF IInv, SettledGone, Fresh
    <3> QED  BY <1>2, <1>4, <2>2, <3>1, <3>3
  <2> QED  BY <2>1, <2>2
<1>10. Passing' /\ NoLoss'
  <2>1. cleared \subseteq cleared'
    BY <1>2
  <2>2. NoLoss'
    BY <1>2, <2>1 DEF IInv, NoLoss
  <2>3. \A v \in Loops :
          /\ pc'[v] = "dispatch" =>
               /\ BootHandlers(InHand(v).msg) \subseteq Elems(snap'[v])
               /\ ~errs'[v] => \A i \in DOMAIN snap'[v] : i < pos'[v] => snap'[v][i] \in ran'[v]
          /\ pc'[v] = "delete" => InHand(v).msg \in cleared'
    <3> SUFFICES ASSUME NEW v \in Loops
                 PROVE  /\ pc'[v] = "dispatch" =>
                             /\ BootHandlers(InHand(v).msg) \subseteq Elems(snap'[v])
                             /\ ~errs'[v] => \A i \in DOMAIN snap'[v] :
                                                i < pos'[v] => snap'[v][i] \in ran'[v]
                        /\ pc'[v] = "delete" => InHand(v).msg \in cleared'
      OBVIOUS
    <3>1. CASE v = w
      BY <1>2, <1>8, <3>1
    <3>2. CASE v # w
      BY <1>2, <1>3, <2>1, <3>2 DEF IInv, Passing
    <3> QED  BY <3>1, <3>2
  <2> QED  BY <1>2, <2>2, <2>3 DEF IInv, Passing, InHand, BootHandlers
<1> QED  BY <1>1, <1>5, <1>6, <1>7, <1>9, <1>10 DEF IInv

\* A delete that may remove a message other than under its lease, or that
\* reports a failure, only concerns an excused message.
LEMMA DeleteReturnsStep ==
    ASSUME IInv, NEW w \in Loops, NEW ok \in BOOLEAN, NEW removed \in BOOLEAN,
           DeleteReturns(w, ok, removed)
    PROVE  IInv'
<1> USE DEF queueVars, loopVars, bootVars, history
<1> DEFINE m == InHand(w).msg
<1>1. TypeOK'
  BY StepType DEF Next, Consume, Receive
<1>2. at[w] <= Len(got[w]) /\ pc[w] = "delete" /\ m \in cleared
  BY DEF DeleteReturns, IInv, Locals, Passing
<1>3. m \in Msgs /\ at[w] \in at[w]..Len(got[w])
  BY <1>2, HandFacts DEF IInv
<1>4. /\ UNCHANGED <<receipt, ctx, got, snap, pos, errs, receiving, boot, subs,
                     ran, cleared, settles>>
      /\ pc'[w] = "batch"
      /\ at' = [at EXCEPT ![w] = @ + 1]
      /\ poll' = [poll EXCEPT ![w].Undeleted = IF ok THEN @ ELSE @ + 1]
      /\ \A v \in Loops : v # w => pc'[v] = pc[v] /\ poll'[v] = poll[v]
  BY DEF DeleteReturns, IInv, TypeOK
<1>5. /\ \A k \in Msgs : k # m => queue'[k] = queue[k]
      /\ queue'[m] = queue[m] \/ (queue'[m] = "deleted" /\ queue[m] \in {"visible", "inflight"})
      /\ ok /\ Fresh(InHand(w)) => queue'[m] = "deleted"
      /\ excused' = IF ok THEN excused ELSE excused \cup {m}
  BY <1>3 DEF DeleteReturns, Fresh, IInv, TypeOK
<1>6. /\ \A v \in Loops : at'[v]..Len(got[v]) \subseteq at[v]..Len(got[v])
      /\ at'[w]..Len(got[w]) = (at[w]..Len(got[w])) \ {at[w]}
      /\ at'[w] = at[w] + 1 /\ at'[w] <= Len(got[w]) + 1
      /\ \A v \in Loops : v # w => at'[v] = at[v]
      /\ HeldApart'
  BY <1>2, <1>4, MoveOn
<1>7. HeldCurrent'
  <2> SUFFICES ASSUME NEW v \in Loops, NEW i \in at'[v]..Len(got[v])
               PROVE  /\ got[v][i].receipt <= receipt[got[v][i].msg]
                      /\ \/ /\ queue'[got[v][i].msg] = "inflight"
                            /\ receipt[got[v][i].msg] = got[v][i].receipt
                         \/ got[v][i].msg \in excused'
    BY <1>4 DEF HeldCurrent, Fresh
  <2>1. i \in at[v]..Len(got[v]) /\ (v # w \/ i # at[w])
    BY <1>6
  <2>2. /\ got[v][i].receipt <= receipt[got[v][i].msg]
        /\ Fresh(got[v][i]) \/ got[v][i].msg \in excused
    BY <2>1 DEF IInv, HeldCurrent
  <2>3. got[v][i].msg \in Msgs
    BY <2>1, HeldFacts DEF IInv
  <2>4. CASE got[v][i].msg = m
    <3>1. got[v][i].msg \in excused
      BY <1>3, <2>1, <2>4, OnlyHand DEF InHand
    <3> QED  BY <1>5, <2>2, <3>1
  <2>5. CASE got[v][i].msg # m
    BY <1>5, <2>2, <2>3, <2>5 DEF Fresh
  <2> QED  BY <2>4, <2>5
<1>8. Receipts'
  BY <1>4, <1>5 DEF IInv, Receipts
<1>9. Locals'
  BY <1>2, <1>4, <1>6 DEF IInv, Locals, Busy
<1>10. Counts'
  <2>1. poll[w] \in [Received : 0..BatchSize, Handled : 0..BatchSize,
                     Failed : 0..BatchSize, Undeleted : 0..BatchSize]
    BY DEF IInv, TypeOK
  <2>2. /\ poll'[w].Handled = poll[w].Handled /\ poll'[w].Failed = poll[w].Failed
        /\ poll'[w].Received = poll[w].Received
        /\ poll'[w].Undeleted \in {poll[w].Undeleted, poll[w].Undeleted + 1}
    BY <1>4, <2>1 DEF IInv, TypeOK
  <2>3. /\ poll[w].Handled + poll[w].Failed = at[w] /\ poll[w].Received = Len(got[w])
        /\ poll[w].Undeleted < poll[w].Handled
    BY <1>2 DEF IInv, Counts, PollAccounts, Busy
  <2>4. at[w] \in Nat
    BY DEF IInv, TypeOK
  <2>5. poll'[w].Handled + poll'[w].Failed = at'[w] - 1
    BY <1>6, <2>1, <2>2, <2>3, <2>4, BoundsAssumption
  <2>6. poll'[w].Undeleted <= poll'[w].Handled
    BY <2>1, <2>2, <2>3, BoundsAssumption
  <2>7. PollAccounts'
    <3> SUFFICES ASSUME NEW v \in Loops
                 PROVE  LET p == poll'[v]
                            seen == p.Handled + p.Failed
                        IN /\ p.Undeleted <= p.Handled
                           /\ pc'[v] \in Busy =>
                                 /\ p.Received = Len(got'[v])
                                 /\ seen = IF pc'[v] = "delete" THEN at'[v] ELSE at'[v] - 1
                           /\ pc'[v] = "returned" =>
                                 seen <= p.Received /\ (seen < p.Received => ~ctx'[v])
      BY DEF PollAccounts, Busy
    <3>1. CASE v = w
      BY <1>4, <2>2, <2>3, <2>5, <2>6, <3>1
    <3>2. CASE v # w
      BY <1>4, <1>6, <3>2 DEF IInv, Counts, PollAccounts
    <3> QED  BY <3>1, <3>2
  <2> QED  BY <1>4, <2>7 DEF IInv, Counts, Busy
<1>11. SettledGone'
  <2> SUFFICES ASSUME NEW k \in Msgs, k \notin excused'
               PROVE  /\ settles[k] <= 1
                      /\ settles[k] = 1 =>
                           \/ queue'[k] = "deleted"
                           \/ \E v \in Loops : /\ pc'[v] = "delete"
                                               /\ got[v][at'[v]].msg = k
                                               /\ queue'[k] = "inflight"
                                               /\ receipt[k] = got[v][at'[v]].receipt
    BY <1>4 DEF SettledGone, InHand, Fresh
  <2>1. k \notin excused /\ (k = m => ok)
    BY <1>5
  <2>2. settles[k] <= 1
    BY <2>1 DEF IInv, SettledGone
  <2>3. CASE k = m
    <3>1. Fresh(InHand(w))
      BY <1>3, <2>1, <2>3 DEF IInv, HeldCurrent, InHand
    <3> QED  BY <1>5, <2>1, <2>2, <2>3, <3>1
  <2>4. CASE k # m
    <3>1. CASE queue[k] = "deleted"
      BY <1>5, <2>2, <2>4, <3>1
    <3>2. CASE settles[k] = 1 /\ queue[k] # "deleted"
      <4>1. PICK v \in Loops : pc[v] = "delete" /\ InHand(v).msg = k /\ Fresh(InHand(v))
        BY <2>1, <3>2 DEF IInv, SettledGone
      <4>2. v # w
        BY <2>4, <4>1
      <4> QED  BY <1>4, <1>5, <1>6, <2>2, <2>4, <4>1, <4>2 DEF InHand, Fresh
    <3> QED  BY <2>2, <3>1, <3>2
  <2> QED  BY <2>3, <2>4
<1>12. NoLoss'
  BY <1>2, <1>3, <1>4, <1>5 DEF IInv, NoLoss
<1>13. Passing'
  BY <1>4, <1>6 DEF IInv, Passing, InHand, BootHandlers
<1> QED  BY <1>1, <1>6, <1>7, <1>8, <1>9, <1>10, <1>11, <1>12, <1>13 DEF IInv

-----------------------------------------------------------------------------
(* The theorems                                                            *)

LEMMA StepIInv == IInv /\ [Next]_vars => IInv'
<1> SUFFICES ASSUME IInv, [Next]_vars PROVE IInv'
  OBVIOUS
<1>1. CASE UNCHANGED vars
  <2>1. TypeOK'
    BY StepType
  <2>2. /\ UNCHANGED <<queue, receipt, ctx, pc, got, at, snap, pos, errs, poll, subs, boot,
                       receiving, ran, cleared, settles, excused>>
    BY <1>1 DEF vars, queueVars, loopVars, bootVars, history
  <2>3. HeldCurrent' /\ HeldApart' /\ Receipts'
    BY <2>2, HeldFrame
  <2>4. Locals' /\ Counts' /\ SettledGone' /\ NoLoss'
    BY <2>2 DEF IInv, Locals, Counts, PollAccounts, SettledGone, NoLoss, InHand, Fresh
  <2>5. Passing'
    BY <2>2 DEF IInv, Passing, InHand, BootHandlers
  <2> QED  BY <2>1, <2>3, <2>4, <2>5 DEF IInv
<1>2. ASSUME NEW n \in Names, NEW h \in Handlers, Subscribe(n, h) PROVE IInv'
  BY <1>2, SubscribeStep
<1>3. ASSUME NEW m \in Msgs, Publish(m) \/ Expire(m) PROVE IInv'
  BY <1>3, PublishStep, ExpireStep
<1>4. ASSUME NEW w \in Loops, StartReceive(w) \/ Shutdown(w) \/ Crash(w) PROVE IInv'
  BY <1>4, OutsideStep, CrashStep
<1>5. ASSUME NEW w \in Loops, Receive(w) PROVE IInv'
  <2>1. CASE EnterDead(w) \/ Enter(w) \/ BackoffElapses(w) \/ BackoffCancelled(w)
    BY <2>1, OutsideStep
  <2>2. ASSUME NEW b \in Batches, PollSucceeds(w, b) PROVE IInv'
    BY <2>2, PollSucceedsStep
  <2>3. ASSUME NEW S \in SUBSET Visible, Cardinality(S) <= BatchSize, PollFails(w, S)
        PROVE  IInv'
    BY <2>3, PollFailsStep
  <2>4. CASE NextMessage(w)
    BY <2>4, NextMessageStep
  <2>5. CASE AbandonBatch(w) \/ BatchDone(w)
    BY <2>5, LeaveStep
  <2>6. ASSUME NEW err \in BOOLEAN, HandlerReturns(w, err) PROVE IInv'
    BY <2>6, HandlerStep
  <2>7. CASE DispatchFails(w)
    BY <2>7, DispatchFailsStep
  <2>8. CASE DispatchSucceeds(w)
    BY <2>8, DispatchSucceedsStep
  <2>9. ASSUME NEW ok \in BOOLEAN, NEW removed \in BOOLEAN, DeleteReturns(w, ok, removed)
        PROVE  IInv'
    BY <2>9, DeleteReturnsStep
  <2> QED  BY <1>5, <2>1, <2>2, <2>3, <2>4, <2>5, <2>6, <2>7, <2>8, <2>9 DEF Receive
<1> QED  BY <1>1, <1>2, <1>3, <1>4, <1>5 DEF Next, Consume

\* The strengthening holds in every reachable state.
THEOREM Inductive == Spec => []IInv
<1> QED  BY InitIInv, StepIInv, PTL DEF Spec

\* Every variable keeps its type: no loop runs past its batch, no receipt past
\* the redrive policy, no counter past the batch size.
THEOREM TypeCorrect == Spec => []TypeOK
<1>1. IInv => TypeOK
  BY DEF IInv
<1> QED  BY <1>1, Inductive, PTL

\* A deleted message has passed every handler subscribed before the program
\* received, in one delivery of it (Dispatch's joined error, handle's early
\* return), for any number of loops, messages and handlers.
THEOREM NoLossEver == Spec => []NoLoss
<1>1. IInv => NoLoss
  BY DEF IInv
<1> QED  BY <1>1, Inductive, PTL

\* The Poll that ReceiveOnce returns adds up (ReceiveOnce, handle).
THEOREM PollAddsUp == Spec => []PollAccounts
<1>1. IInv => PollAccounts
  BY DEF IInv, Counts
<1> QED  BY <1>1, Inductive, PTL

\* A message is worked twice only when its lease ran out in a loop's hands, its
\* delete was reported failed or its worker died before the delete.
THEOREM DuplicatesExcused == Spec => []NoNeedlessDuplicate
<1>1. IInv => NoNeedlessDuplicate
  <2> SUFFICES ASSUME IInv, NEW m \in Msgs, m \notin excused
               PROVE  /\ settles[m] <= 1
                      /\ \A v, w \in Loops :
                            /\ v # w
                            /\ pc[v] = "dispatch" /\ InHand(v).msg = m
                            /\ pc[w] = "dispatch" /\ InHand(w).msg = m
                            => FALSE
    BY DEF NoNeedlessDuplicate
  <2>1. settles[m] <= 1
    BY DEF IInv, SettledGone
  <2>2. ASSUME NEW v \in Loops, NEW w \in Loops, v # w,
               pc[v] = "dispatch", InHand(v).msg = m,
               pc[w] = "dispatch", InHand(w).msg = m
        PROVE  FALSE
    <3>1. at[v] \in at[v]..Len(got[v]) /\ at[w] \in at[w]..Len(got[w])
      BY <2>2, HandFacts DEF IInv, Locals
    <3> QED  BY <2>2, <3>1, OnlyHand DEF InHand
  <2> QED  BY <2>1, <2>2
<1> QED  BY <1>1, Inductive, PTL

-----------------------------------------------------------------------------
(* The refinement of AtLeastOnce                                           *)

\* A step that moves no message past a state AtLeastOnce tells apart.
LEMMA Stutter ==
    ASSUME cleared' = cleared,
           \A m \in Msgs : /\ queue'[m] = "unsent" <=> queue[m] = "unsent"
                           /\ queue'[m] = "deleted" <=> queue[m] = "deleted"
                           /\ queue'[m] = "parked" <=> queue[m] = "parked"
    PROVE  UNCHANGED Promise!vars
BY DEF Promise!vars

\* The queue's steps: a message is accepted, or parked.
LEMMA QueueRefines ==
    ASSUME IInv, NEW m \in Msgs, Publish(m) \/ Expire(m)
    PROVE  Promise!Next \/ UNCHANGED Promise!vars
<1>1. CASE Publish(m)
  <2>1. /\ cleared' = cleared /\ queue[m] = "unsent" /\ queue'[m] = "visible"
        /\ \A k \in Msgs : k # m => queue'[k] = queue[k]
    BY <1>1 DEF Publish, IInv, TypeOK, history
  <2>2. Promise!Accept(m)
    BY <2>1 DEF Promise!Accept
  <2> QED  BY <2>2 DEF Promise!Next
<1>2. CASE Expire(m)
  <2>1. /\ cleared' = cleared /\ queue[m] = "inflight" /\ queue'[m] \in {"visible", "parked"}
        /\ \A k \in Msgs : k # m => queue'[k] = queue[k]
    BY <1>2 DEF Expire, IInv, TypeOK
  <2>2. CASE queue'[m] = "visible"
    BY <2>1, <2>2, Stutter
  <2>3. CASE queue'[m] = "parked"
    <3>1. Promise!Park(m)
      BY <2>1, <2>3 DEF Promise!Park
    <3> QED  BY <3>1 DEF Promise!Next
  <2> QED  BY <2>1, <2>2, <2>3
<1> QED  BY <1>1, <1>2

\* A delivery that passed every handler works the message.
LEMMA WorkRefines ==
    ASSUME IInv, NEW w \in Loops, DispatchSucceeds(w)
    PROVE  Promise!Next \/ UNCHANGED Promise!vars
<1> DEFINE m == InHand(w).msg
<1>1. /\ queue' = queue /\ at[w] <= Len(got[w])
      /\ cleared' = cleared \/ cleared' = cleared \cup {m}
  BY DEF DispatchSucceeds, IInv, Locals, queueVars
<1>2. m \in Msgs /\ InHand(w).receipt \in 1..MaxReceives /\ at[w] \in at[w]..Len(got[w])
  BY <1>1, HandFacts DEF IInv
<1>3. InHand(w).receipt <= receipt[m]
  BY <1>2 DEF IInv, HeldCurrent, InHand
<1>4. receipt[m] # 0
  BY <1>2, <1>3
<1>5. queue[m] # "unsent"
  BY <1>2, <1>4 DEF IInv, Receipts
<1>6. CASE cleared' = cleared
  BY <1>1, <1>6, Stutter
<1>7. CASE cleared' = cleared \cup {m}
  <2>1. Promise!Work(m)
    BY <1>1, <1>2, <1>5, <1>7 DEF Promise!Work
  <2> QED  BY <1>2, <2>1 DEF Promise!Next
<1> QED  BY <1>1, <1>6, <1>7

\* A delete retires a message that was worked and is not parked.
LEMMA DeleteRefines ==
    ASSUME IInv, NEW w \in Loops, NEW ok \in BOOLEAN, NEW removed \in BOOLEAN,
           DeleteReturns(w, ok, removed)
    PROVE  Promise!Next \/ UNCHANGED Promise!vars
<1> DEFINE m == InHand(w).msg
<1>1. at[w] <= Len(got[w]) /\ m \in cleared /\ cleared' = cleared
  BY DEF DeleteReturns, IInv, Locals, Passing
<1>2. m \in Msgs
  BY <1>1, HandFacts DEF IInv
<1>3. /\ \A k \in Msgs : k # m => queue'[k] = queue[k]
      /\ queue'[m] = queue[m] \/ (queue'[m] = "deleted" /\ queue[m] \in {"visible", "inflight"})
  BY <1>2 DEF DeleteReturns, IInv, TypeOK
<1>4. CASE queue'[m] = queue[m]
  BY <1>1, <1>3, <1>4, Stutter
<1>5. CASE queue'[m] = "deleted" /\ queue[m] \in {"visible", "inflight"}
  <2>1. PICK S \in SUBSET Msgs : S = {m}
    BY <1>2
  <2>2. Promise!Retire(S)
    BY <1>1, <1>2, <1>3, <1>5, <2>1 DEF Promise!Retire
  <2> QED  BY <2>2 DEF Promise!Next
<1> QED  BY <1>3, <1>4, <1>5

\* Every other step of a loop is a stutter: a lease is none of the promise's business.
LEMMA LoopStutters ==
    ASSUME IInv, NEW w \in Loops,
           \/ StartReceive(w) \/ Shutdown(w) \/ Crash(w) \/ EnterDead(w) \/ Enter(w)
           \/ BackoffElapses(w) \/ BackoffCancelled(w) \/ NextMessage(w)
           \/ AbandonBatch(w) \/ BatchDone(w) \/ DispatchFails(w)
           \/ \E err \in BOOLEAN : HandlerReturns(w, err)
           \/ \E b \in Batches : PollSucceeds(w, b)
           \/ \E S \in SUBSET Visible : PollFails(w, S)
    PROVE  UNCHANGED Promise!vars
<1> USE DEF queueVars, history
<1>1. CASE \/ StartReceive(w) \/ Shutdown(w) \/ Crash(w) \/ EnterDead(w) \/ Enter(w)
           \/ BackoffElapses(w) \/ BackoffCancelled(w) \/ NextMessage(w)
           \/ AbandonBatch(w) \/ BatchDone(w) \/ DispatchFails(w)
           \/ \E err \in BOOLEAN : HandlerReturns(w, err)
  <2>1. queue' = queue /\ cleared' = cleared
    BY <1>1 DEF StartReceive, Shutdown, Crash, EnterDead, Enter, BackoffElapses,
       BackoffCancelled, NextMessage, AbandonBatch, BatchDone, DispatchFails, HandlerReturns
  <2> QED  BY <2>1, Stutter
<1>2. ASSUME NEW S \in SUBSET Visible, Lease(S), cleared' = cleared
      PROVE  UNCHANGED Promise!vars
  BY <1>2, LeaseType, Stutter DEF IInv
<1>3. ASSUME NEW b \in Batches, PollSucceeds(w, b) PROVE UNCHANGED Promise!vars
  <2>1. Elems(b) \in SUBSET Visible
    BY BatchFacts DEF Elems, Visible, IInv
  <2> QED  BY <1>2, <1>3, <2>1 DEF PollSucceeds
<1>4. ASSUME NEW S \in SUBSET Visible, PollFails(w, S) PROVE UNCHANGED Promise!vars
  BY <1>2, <1>4 DEF PollFails
<1> QED  BY <1>1, <1>3, <1>4

\* Every step of the worker is a step of the promise, or none.
LEMMA StepRefines ==
    ASSUME IInv, [Next]_vars
    PROVE  Promise!Next \/ UNCHANGED Promise!vars
<1>1. CASE UNCHANGED vars
  BY <1>1, Stutter DEF vars, queueVars, history
<1>2. ASSUME NEW n \in Names, NEW h \in Handlers, Subscribe(n, h)
      PROVE  UNCHANGED Promise!vars
  BY <1>2, Stutter DEF Subscribe, queueVars, history
<1>3. ASSUME NEW w \in Loops, Receive(w) PROVE Promise!Next \/ UNCHANGED Promise!vars
  <2>1. CASE DispatchSucceeds(w)
    BY <2>1, WorkRefines
  <2>2. ASSUME NEW ok \in BOOLEAN, NEW removed \in BOOLEAN, DeleteReturns(w, ok, removed)
        PROVE  Promise!Next \/ UNCHANGED Promise!vars
    BY <2>2, DeleteRefines
  <2>3. ASSUME ~DispatchSucceeds(w),
               ~ \E ok, removed \in BOOLEAN : DeleteReturns(w, ok, removed)
        PROVE  UNCHANGED Promise!vars
    BY <1>3, <2>3, LoopStutters DEF Receive
  <2> QED  BY <2>1, <2>2, <2>3
<1> QED  BY <1>1, <1>2, <1>3, QueueRefines, LoopStutters DEF Next, Consume

\* The sink implements AtLeastOnce: what it deletes it has worked, whatever
\* crashes, expired leases and failed calls come between.
THEOREM ImplementsAtLeastOnce == Spec => RefinesAtLeastOnce
<1>1. Init => Promise!Init
  BY DEF Init, Promise!Init
<1>2. IInv /\ [Next]_vars => [Promise!Next]_Promise!vars
  BY StepRefines
<1> QED  BY <1>1, <1>2, Inductive, PTL DEF Spec, RefinesAtLeastOnce, Promise!Spec

-----------------------------------------------------------------------------
(* The path                                                                *)

\* What the queue holds is what the outbox has sent, an event once unless the
\* outbox sent it again; and the outbox does no more than it promised.
Handed ==
    /\ committed \subseteq Events
    /\ sent \subseteq committed
    /\ published \subseteq sent
    /\ resent \subseteq lost
    /\ \A m \in Msgs : queue[m] # "unsent" => Carries[m] \in sent
    /\ \A e \in sent : \E m \in Msgs : m \in Copies(e)
    /\ \A e \in Events : e \notin resent => \A k, m \in Copies(e) : k = m

\* Behind the outbox the worker is what it was.
THEOREM PathRunsWorker == PathSpec => Spec
<1>1. PathInit => Init
  BY DEF PathInit
<1>2. [PathNext]_pathVars => [Next]_vars
  BY DEF PathNext, pathVars, Emitted, Relayed, Settled, Consumed, Next
<1> QED  BY <1>1, <1>2, PTL DEF PathSpec, Spec

\* Only a publish makes a message of an unsent one.
LEMMA ConsumeKeeps ==
    ASSUME IInv, Consume
    PROVE  \A m \in Msgs : queue'[m] = "unsent" <=> queue[m] = "unsent"
<1>0. \A b \in Batches : Elems(b) \in SUBSET Visible
  BY BatchFacts DEF Elems, Visible, IInv
<1> USE DEF queueVars, IInv, TypeOK
<1>1. ASSUME NEW n \in Names, NEW h \in Handlers, Subscribe(n, h) PROVE queue' = queue
  BY <1>1 DEF Subscribe
<1>2. ASSUME NEW m \in Msgs, Expire(m)
      PROVE  \A k \in Msgs : queue'[k] = "unsent" <=> queue[k] = "unsent"
  BY <1>2 DEF Expire
<1>3. ASSUME NEW w \in Loops, StartReceive(w) \/ Shutdown(w) \/ Crash(w) PROVE queue' = queue
  BY <1>3 DEF StartReceive, Shutdown, Crash
<1>4. ASSUME NEW S \in SUBSET Visible, Lease(S)
      PROVE  \A k \in Msgs : queue'[k] = "unsent" <=> queue[k] = "unsent"
  BY <1>4 DEF Lease, Visible
<1>5. ASSUME NEW w \in Loops, Receive(w)
      PROVE  \A k \in Msgs : queue'[k] = "unsent" <=> queue[k] = "unsent"
  <2>1. CASE \/ EnterDead(w) \/ Enter(w) \/ BackoffElapses(w) \/ BackoffCancelled(w)
             \/ NextMessage(w) \/ AbandonBatch(w) \/ BatchDone(w) \/ DispatchFails(w)
             \/ DispatchSucceeds(w) \/ \E err \in BOOLEAN : HandlerReturns(w, err)
    <3>1. queue' = queue
      BY <2>1 DEF EnterDead, Enter, BackoffElapses, BackoffCancelled, NextMessage,
         AbandonBatch, BatchDone, DispatchFails, DispatchSucceeds, HandlerReturns
    <3> QED  BY <3>1
  <2>2. ASSUME NEW b \in Batches, PollSucceeds(w, b)
        PROVE  \A k \in Msgs : queue'[k] = "unsent" <=> queue[k] = "unsent"
    BY <1>0, <1>4, <2>2 DEF PollSucceeds
  <2>3. ASSUME NEW S \in SUBSET Visible, PollFails(w, S)
        PROVE  \A k \in Msgs : queue'[k] = "unsent" <=> queue[k] = "unsent"
    BY <1>4, <2>3 DEF PollFails
  <2>4. ASSUME NEW ok \in BOOLEAN, NEW removed \in BOOLEAN, DeleteReturns(w, ok, removed)
        PROVE  \A k \in Msgs : queue'[k] = "unsent" <=> queue[k] = "unsent"
    BY <2>4 DEF DeleteReturns
  <2> QED  BY <1>5, <2>1, <2>2, <2>3, <2>4 DEF Receive
<1> QED  BY <1>1, <1>2, <1>3, <1>5 DEF Consume

LEMMA InitHanded == PathInit => Handed
BY DEF PathInit, Init, Table!Init, Handed, Copies

LEMMA StepHanded ==
    ASSUME IInv, Handed, [PathNext]_pathVars
    PROVE  Handed'
<1> USE CarriesAssumption
<1>1. ASSUME UNCHANGED queue, UNCHANGED <<committed, sent, resent>>,
             published' \subseteq sent, resent \subseteq lost'
      PROVE  Handed'
  BY <1>1 DEF Handed, Copies
<1>2. CASE UNCHANGED pathVars
  BY <1>1, <1>2 DEF pathVars, tableVars, vars, queueVars, Handed
<1>3. ASSUME NEW e \in Events, Emitted(e) PROVE Handed'
  <2>1. queue' = queue /\ committed' = committed \cup {e} /\ UNCHANGED <<sent, resent, lost, published>>
    BY <1>3 DEF Emitted, Table!Commit, vars, queueVars
  <2> QED  BY <2>1 DEF Handed, Copies
<1>4. ASSUME NEW S \in SUBSET Events, Settled(S) PROVE Handed'
  BY <1>1, <1>4 DEF Settled, Table!Lose, Table!Mark, vars, queueVars, Handed
<1>5. ASSUME Consumed PROVE Handed'
  <2>1. \A m \in Msgs : queue'[m] = "unsent" <=> queue[m] = "unsent"
    BY <1>5, ConsumeKeeps DEF Consumed
  <2>2. \A e \in Events : Copies(e)' = Copies(e)
    BY <2>1 DEF Copies
  <2> QED  BY <1>5, <2>1, <2>2 DEF Consumed, tableVars, Handed
<1>6. ASSUME NEW m \in Msgs, Relayed(m) PROVE Handed'
  <2> DEFINE e == Carries[m]
  <2>1. PICK S \in SUBSET Events : Table!Send(e, S) /\ Publish(m)
    BY <1>6 DEF Relayed
  <2>2. /\ e \in Events /\ e \in committed
        /\ e \in sent => e \in lost
        /\ sent' = sent \cup {e}
        /\ resent' = IF e \in sent THEN resent \cup {e} ELSE resent
        /\ lost' = lost \cup S
        /\ UNCHANGED <<committed, published>>
    BY <2>1 DEF Table!Send
  <2>3. /\ queue[m] = "unsent" /\ queue'[m] = "visible"
        /\ \A k \in Msgs : k # m => queue'[k] = queue[k]
    BY <2>1 DEF Publish, IInv, TypeOK
  <2>4. Copies(e)' = Copies(e) \cup {m} /\ \A f \in Events : f # e => Copies(f)' = Copies(f)
    BY <2>3 DEF Copies
  <2>5. e \notin sent => Copies(e) = {}
    BY DEF Handed, Copies
  <2>6. \A f \in Events : f \notin resent' => \A j, k \in Copies(f)' : j = k
    <3> SUFFICES ASSUME NEW f \in Events, f \notin resent', NEW j \in Copies(f)', NEW k \in Copies(f)'
                 PROVE  j = k
      OBVIOUS
    <3>1. f \notin resent
      BY <2>2
    <3>2. CASE f # e
      BY <2>4, <3>1, <3>2 DEF Handed
    <3>3. CASE f = e
      <4>1. e \notin sent
        BY <2>2, <3>3
      <4> QED  BY <2>4, <2>5, <3>3, <4>1
    <3> QED  BY <3>2, <3>3
  <2>7. \A f \in sent' : \E k \in Msgs : k \in Copies(f)'
    BY <2>2, <2>4 DEF Handed
  <2>8. \A k \in Msgs : queue'[k] # "unsent" => Carries[k] \in sent'
    BY <2>2, <2>3 DEF Handed
  <2>9. /\ committed' \subseteq Events /\ sent' \subseteq committed'
        /\ published' \subseteq sent' /\ resent' \subseteq lost'
    BY <2>2 DEF Handed
  <2> QED  BY <2>6, <2>7, <2>8, <2>9 DEF Handed
<1> QED  BY <1>2, <1>3, <1>4, <1>5, <1>6 DEF PathNext

\* The queue holds what the outbox sent, and the worker's invariant holds.
THEOREM PathInductive == PathSpec => [](IInv /\ Handed)
<1>1. PathSpec => []IInv
  BY PathRunsWorker, Inductive, PTL
<1>2. IInv /\ Handed /\ [PathNext]_pathVars => Handed'
  BY StepHanded
<1> QED  BY <1>1, <1>2, InitHanded, PTL DEF PathSpec

\* A message in a handler's hands was sent.
LEMMA HandSent ==
    ASSUME IInv, NEW w \in Loops, pc[w] \in {"dispatch", "delete"}
    PROVE  InHand(w).msg \in Msgs /\ queue[InHand(w).msg] # "unsent"
<1>1. at[w] <= Len(got[w])
  BY DEF IInv, Locals
<1>2. /\ InHand(w).msg \in Msgs /\ InHand(w).receipt \in 1..MaxReceives
      /\ at[w] \in at[w]..Len(got[w])
  BY <1>1, HandFacts DEF IInv
<1>3. InHand(w).receipt <= receipt[InHand(w).msg]
  BY <1>2 DEF IInv, HeldCurrent, InHand
<1>4. receipt[InHand(w).msg] # 0
  BY <1>2, <1>3
<1> QED  BY <1>2, <1>4 DEF IInv, Receipts

\* No handler runs for an event whose transaction did not commit.
THEOREM NoPhantomHandledEver == PathSpec => []NoPhantomHandled
<1>1. IInv /\ Handed => NoPhantomHandled
  BY HandSent DEF Handed, NoPhantomHandled
<1> QED  BY <1>1, PathInductive, PTL

\* What is marked published was handled, is in the queue, or was parked.
THEOREM NoneLostEver == PathSpec => []NoneLost
<1>1. IInv /\ Handed => NoneLost
  <2> SUFFICES ASSUME IInv, Handed, NEW e \in published
               PROVE  \E m \in Copies(e) :
                          m \in cleared \/ queue[m] \in {"visible", "inflight", "parked"}
    BY DEF NoneLost
  <2>1. PICK m \in Msgs : m \in Copies(e)
    BY DEF Handed
  <2>2. queue[m] \in {"visible", "inflight", "deleted", "parked"}
    BY <2>1 DEF Copies, IInv, TypeOK
  <2>3. queue[m] = "deleted" => m \in cleared
    BY DEF IInv, NoLoss
  <2> QED  BY <2>1, <2>2, <2>3
<1> QED  BY <1>1, PathInductive, PTL

\* An event is handled twice only when the outbox lost a transaction that had
\* sent it, or the worker could not help it.
THEOREM HandledOnceEver == PathSpec => []HandledOnce
<1>1. Handed /\ NoNeedlessDuplicate => HandledOnce
  <2> SUFFICES ASSUME Handed, NoNeedlessDuplicate, NEW e \in Events, e \notin lost,
                      \A m \in Copies(e) : m \notin excused,
                      NEW k \in Copies(e), NEW m \in Copies(e)
               PROVE  /\ settles[m] <= 1
                      /\ k # m => settles[k] = 0 \/ settles[m] = 0
                      /\ \A v, w \in Loops :
                            /\ v # w
                            /\ pc[v] = "dispatch" /\ InHand(v).msg = k
                            /\ pc[w] = "dispatch" /\ InHand(w).msg = m
                            => FALSE
    BY DEF HandledOnce
  <2>1. k = m
    BY DEF Handed
  <2>2. m \in Msgs /\ m \notin excused
    BY DEF Copies
  <2> QED  BY <2>1, <2>2 DEF NoNeedlessDuplicate
<1> QED  BY <1>1, PathInductive, PathRunsWorker, DuplicatesExcused, PTL

-----------------------------------------------------------------------------
(* The promise, end to end                                                 *)

Worked  == {Carries[m] : m \in cleared}
Retired == {e \in published : \A m \in Copies(e) : queue[m] = "deleted"}
Parked  == {Carries[m] : m \in {k \in Msgs : queue[k] = "parked"}}

\* An event whose messages are all deleted was worked, and is not parked.
OnlyWorkedRetired == Retired \subseteq Worked \ Parked

LEMMA RetiredWorked == IInv /\ Handed => OnlyWorkedRetired
<1> SUFFICES ASSUME IInv, Handed, NEW e \in Retired
             PROVE  e \in Worked /\ e \notin Parked
  BY DEF OnlyWorkedRetired
<1>1. PICK m \in Msgs : m \in Copies(e)
  BY DEF Handed, Retired
<1>2. Carries[m] = e /\ m \in cleared
  BY <1>1 DEF Copies, Retired, IInv, NoLoss
<1>3. ASSUME NEW k \in Msgs, queue[k] = "parked", Carries[k] = e PROVE FALSE
  BY <1>3 DEF Copies, Retired
<1> QED  BY <1>2, <1>3 DEF Worked, Parked

\* A step that may retire events and does nothing else the promise can tell.
LEMMA RetireLifts ==
    ASSUME IInv, Handed, IInv', Handed', OnlyWorkedRetired',
           committed' = committed, Worked' = Worked, Parked' = Parked,
           Retired \subseteq Retired'
    PROVE  EndToEnd!Next
<1>1. PICK S \in SUBSET Events : S = Retired'
  BY DEF Retired, Handed
<1>2. EndToEnd!Retire(S)
  BY <1>1 DEF EndToEnd!Retire, OnlyWorkedRetired, Worked, Retired, Parked
<1> QED  BY <1>2 DEF EndToEnd!Next

LEMMA ConsumedLifts ==
    ASSUME IInv, Handed, IInv', Handed', OnlyWorkedRetired', Consumed
    PROVE  EndToEnd!Next \/ UNCHANGED EndToEnd!vars
<1> USE CarriesAssumption
<1>1. UNCHANGED <<committed, sent, resent, lost, published>>
  BY DEF Consumed, tableVars
<1>2. \A m \in Msgs : queue'[m] = "unsent" <=> queue[m] = "unsent"
  BY ConsumeKeeps DEF Consumed
<1>3. \A e \in Events : Copies(e)' = Copies(e)
  BY <1>2 DEF Copies
<1>4. published \subseteq Events
  BY DEF Handed
<1>5. ASSUME \A m \in Msgs : queue'[m] = "deleted" <=> queue[m] = "deleted"
      PROVE  Retired' = Retired
  BY <1>1, <1>3, <1>4, <1>5 DEF Retired, Copies
<1>6. ASSUME \A m \in Msgs : queue'[m] = "parked" <=> queue[m] = "parked"
      PROVE  Parked' = Parked
  BY <1>6 DEF Parked
<1>7. Promise!Next \/ UNCHANGED Promise!vars
  BY StepRefines DEF Consumed, Next
<1>8. CASE UNCHANGED Promise!vars
  <2>1. Worked' = Worked /\ Retired' = Retired /\ Parked' = Parked
    BY <1>5, <1>6, <1>8 DEF Promise!vars, Worked
  <2> QED  BY <1>1, <2>1 DEF EndToEnd!vars, Worked, Retired, Parked
<1>9. ASSUME NEW m \in Msgs, Promise!Accept(m) PROVE FALSE
  BY <1>2, <1>9 DEF Promise!Accept
<1>10. ASSUME NEW m \in Msgs, Promise!Work(m) PROVE EndToEnd!Next
  <2>1. /\ queue[m] # "unsent" /\ cleared' = cleared \cup {m}
        /\ Retired' = Retired /\ Parked' = Parked
    BY <1>5, <1>6, <1>10 DEF Promise!Work
  <2>2. Worked' = Worked \cup {Carries[m]} /\ Carries[m] \in committed /\ Carries[m] \in Events
    BY <2>1 DEF Worked, Handed
  <2>3. EndToEnd!Work(Carries[m])
    BY <1>1, <2>1, <2>2 DEF EndToEnd!Work, Worked, Retired, Parked
  <2> QED  BY <2>2, <2>3 DEF EndToEnd!Next
<1>11. ASSUME NEW m \in Msgs, Promise!Park(m) PROVE EndToEnd!Next
  <2>1. /\ queue[m] # "unsent" /\ queue[m] # "deleted" /\ cleared' = cleared
        /\ \A k \in Msgs : queue'[k] = "parked" <=> queue[k] = "parked" \/ k = m
        /\ Retired' = Retired
    BY <1>5, <1>11 DEF Promise!Park
  <2>2. Parked' = Parked \cup {Carries[m]}
    BY <2>1 DEF Parked
  <2>3. Carries[m] \in committed /\ Carries[m] \in Events /\ Carries[m] \notin Retired
    BY <2>1 DEF Handed, Retired, Copies
  <2>4. EndToEnd!Park(Carries[m])
    BY <1>1, <2>1, <2>2, <2>3 DEF EndToEnd!Park, Worked, Retired, Parked
  <2> QED  BY <2>3, <2>4 DEF EndToEnd!Next
<1>12. ASSUME NEW S \in SUBSET Msgs, Promise!Retire(S) PROVE EndToEnd!Next
  <2>1. /\ cleared' = cleared /\ Parked' = Parked
        /\ \A m \in Msgs : queue[m] = "deleted" => queue'[m] = "deleted"
    BY <1>6, <1>12 DEF Promise!Retire
  <2>2. Retired \subseteq Retired'
    BY <1>1, <1>3, <1>4, <2>1 DEF Retired, Copies
  <2> QED  BY <1>1, <2>1, <2>2, RetireLifts DEF Worked
<1> QED  BY <1>7, <1>8, <1>9, <1>10, <1>11, <1>12 DEF Promise!Next

LEMMA RelayedLifts ==
    ASSUME IInv, Handed, NEW m \in Msgs, Relayed(m)
    PROVE  UNCHANGED EndToEnd!vars
<1> USE CarriesAssumption
<1>1. /\ Carries[m] \notin published /\ UNCHANGED <<committed, published, cleared>>
      /\ queue[m] = "unsent" /\ queue'[m] = "visible"
      /\ \A k \in Msgs : k # m => queue'[k] = queue[k]
  BY DEF Relayed, Table!Send, Publish, IInv, TypeOK, history
<1>2. Parked' = Parked
  BY <1>1 DEF Parked
<1>3. Retired' = Retired
  BY <1>1 DEF Retired, Copies
<1> QED  BY <1>1, <1>2, <1>3 DEF EndToEnd!vars, Retired, Parked

\* The outbox and the worker together implement AtLeastOnce for events: one
\* whose row is marked and whose messages are gone was carried through every
\* handler, and only a message given up by the redrive policy parks one.
THEOREM PathImplementsAtLeastOnce == PathSpec => PathRefinesAtLeastOnce
<1>1. PathInit => EndToEnd!Init
  BY DEF PathInit, Init, Table!Init, EndToEnd!Init
<1>2. IInv' /\ Handed' => OnlyWorkedRetired'
  BY RetiredWorked, PTL
<1>3. IInv /\ Handed /\ IInv' /\ Handed' /\ [PathNext]_pathVars => [EndToEnd!Next]_EndToEnd!vars
  <2> SUFFICES ASSUME IInv, Handed, IInv', Handed', [PathNext]_pathVars
               PROVE  EndToEnd!Next \/ UNCHANGED EndToEnd!vars
    OBVIOUS
  <2>1. OnlyWorkedRetired'
    BY <1>2
  <2>2. CASE UNCHANGED pathVars
    BY <2>2 DEF pathVars, tableVars, vars, queueVars, history, EndToEnd!vars, Copies
  <2>3. ASSUME NEW e \in Events, Emitted(e) PROVE EndToEnd!Next
    <3>1. EndToEnd!Accept(e)
      BY <2>3 DEF Emitted, Table!Commit, vars, queueVars, history, EndToEnd!Accept, Copies
    <3> QED  BY <3>1 DEF EndToEnd!Next
  <2>4. ASSUME NEW S \in SUBSET Events, Settled(S) PROVE EndToEnd!Next
    <3>1. /\ UNCHANGED <<committed, queue, cleared>> /\ published \subseteq published'
      BY <2>4 DEF Settled, Table!Lose, Table!Mark, vars, queueVars, history
    <3> QED  BY <2>1, <3>1, RetireLifts DEF Worked, Retired, Parked, Copies
  <2> QED  BY <2>1, <2>2, <2>3, <2>4, ConsumedLifts, RelayedLifts DEF PathNext
<1> QED  BY <1>1, <1>3, PathInductive, PTL DEF PathSpec, PathRefinesAtLeastOnce, EndToEnd!Spec
=============================================================================
