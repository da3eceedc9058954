---------------------------- MODULE OutboxProofs ----------------------------
(***************************************************************************)
(* Outbox for any events, relays, batch and bound on faults: no phantom,   *)
(* no needless duplicate, and every step a step of AtLeastOnce and of      *)
(* OutboxPromise.                                                          *)
(***************************************************************************)
EXTENDS Outbox, TLAPS

\* A relay's rows: distinct, committed, not marked, and no other relay's.
RowsApart ==
    /\ \A r \in Relays : \A i, j \in DOMAIN rows[r] : i # j => rows[r][i] # rows[r][j]
    /\ \A r \in Relays, e \in Events : e \in Locked(r) => row[e] = "committed" /\ e \notin marked
    /\ \A q, r \in Relays, e \in Events : q # r => ~(e \in Locked(q) /\ e \in Locked(r))

\* Where a relay is and how far through its rows.
Progress ==
    \A r \in Relays :
        /\ pc[r] \in {"publish", "mark"} => moved[r] + 1 <= Len(rows[r])
        /\ pc[r] = "commit" => moved[r] = Len(rows[r])
        /\ pc[r] \notin InTx => moved[r] = 0

\* A row exists for others exactly when its transaction let it.
RowWithTx ==
    \A e \in Events :
        /\ row[e] = "committed" => tx[e] \in {"none", "committed"}
        /\ row[e] = "pending" => tx[e] = "open"

\* What was sent was committed, what is marked was sent, and what was sent is
\* accounted for: marked, excused, or in the hands of the relay that sent it.
SentAccounted ==
    /\ \A e \in Elems(sent) :
         /\ row[e] = "committed"
         /\ e \in marked \cup excused \/ \E r \in Relays : e \in PublishedIn(r)
    /\ \A r \in Relays : PublishedIn(r) \subseteq Elems(sent)
    /\ marked \subseteq Elems(sent)

IInv ==
    /\ TypeOK
    /\ RowsApart
    /\ Progress
    /\ RowWithTx
    /\ SentAccounted
    /\ NoNeedlessDuplicate

-----------------------------------------------------------------------------
(* Sequences of rows                                                       *)

\* Append adds one element.
LEMMA ElemsAppend ==
    ASSUME NEW S, NEW s \in Seq(S), NEW e \in S
    PROVE  /\ Append(s, e) \in Seq(S)
           /\ Elems(Append(s, e)) = Elems(s) \cup {e}
<1>1. /\ Append(s, e) \in Seq(S)
      /\ Len(Append(s, e)) = Len(s) + 1
      /\ \A i \in 1..Len(s) : Append(s, e)[i] = s[i]
      /\ Append(s, e)[Len(s) + 1] = e
  OBVIOUS
<1>2. /\ DOMAIN Append(s, e) = 1..(Len(s) + 1)
      /\ DOMAIN s = 1..Len(s)
      /\ Len(s) \in Nat
  BY <1>1
<1>3. ASSUME NEW x \in Elems(Append(s, e)) PROVE x \in Elems(s) \cup {e}
  <2>1. PICK i \in 1..(Len(s) + 1) : x = Append(s, e)[i]
    BY <1>2, <1>3 DEF Elems
  <2> QED  BY <2>1, <1>1, <1>2 DEF Elems
<1>4. ASSUME NEW x \in Elems(s) \cup {e} PROVE x \in Elems(Append(s, e))
  <2>1. CASE x = e
    BY <2>1, <1>1, <1>2 DEF Elems
  <2>2. CASE x \in Elems(s)
    <3>1. PICK i \in 1..Len(s) : x = s[i]
      BY <2>2, <1>2 DEF Elems
    <3> QED  BY <3>1, <1>1, <1>2 DEF Elems
  <2> QED  BY <1>4, <2>1, <2>2
<1> QED  BY <1>1, <1>3, <1>4

\* The elements of a sequence over S are in S.
LEMMA ElemsIn ==
    ASSUME NEW S, NEW s \in Seq(S)
    PROVE  Elems(s) \subseteq S
BY DEF Elems

\* What relayBatch selects: distinct rows of W.
LEMMA OldestFacts ==
    ASSUME TypeOK, NEW W, W \subseteq Events, NEW s \in Oldest(W)
    PROVE  /\ s \in Seq(Events)
           /\ Elems(s) \subseteq W
           /\ \A i, j \in DOMAIN s : i # j => s[i] # s[j]
<1>1. PICK n \in 0..Batch : s \in [1..n -> W]
  BY DEF Oldest
<1>2. n \in Nat
  BY RelayAssumption
<1>3. s \in Seq(Events) /\ DOMAIN s = 1..n
  BY <1>1, <1>2
<1>4. Elems(s) \subseteq W
  BY <1>1 DEF Elems
<1>5. ASSUME NEW i \in DOMAIN s, NEW j \in DOMAIN s, i # j PROVE s[i] # s[j]
  <2>1. i \in 1..n /\ j \in 1..n
    BY <1>3
  <2>2. i < j \/ j < i
    BY <2>1, <1>2, <1>5
  <2>3. \A a, b \in DOMAIN s : a < b => id[s[a]] < id[s[b]]
    BY DEF Oldest
  <2>4. id[s[i]] \in Nat /\ id[s[j]] \in Nat
    BY <1>1, <2>1 DEF TypeOK
  <2> QED  BY <2>2, <2>3, <2>4
<1> QED  BY <1>3, <1>4, <1>5

-----------------------------------------------------------------------------
(* Type correctness                                                        *)

LEMMA InitType == Init => TypeOK
BY RelayAssumption DEF Init, TypeOK

LEMMA EndTxType ==
    ASSUME TypeOK, NEW r \in Relays,
           NEW next \in {"tick", "select", "returned", "crashed"}, EndTx(r, next)
    PROVE  /\ pc' \in [Relays -> {"tick", "select", "publish", "mark", "commit",
                                  "returned", "crashed"}]
           /\ rows' \in [Relays -> Seq(Events)]
           /\ moved' \in [Relays -> Nat]
           /\ \A q \in Relays :
                moved'[q] + (IF pc'[q] \in {"publish", "mark"} THEN 1 ELSE 0) <= Len(rows'[q])
<1>1. <<>> \in Seq(Events) /\ Len(<<>>) = 0
  OBVIOUS
<1> QED  BY <1>1 DEF TypeOK, EndTx

LEMMA ReachType ==
    ASSUME TypeOK, NEW e \in Events, Reach(e)
    PROVE  sent' \in Seq(Events) /\ again' \subseteq Events
BY ElemsAppend DEF TypeOK, Reach

LEMMA RowInHand ==
    ASSUME TypeOK, NEW r \in Relays, pc[r] \in {"publish", "mark"}
    PROVE  /\ moved[r] + 1 \in DOMAIN rows[r]
           /\ rows[r][moved[r] + 1] \in Events
<1>1. rows[r] \in Seq(Events) /\ moved[r] \in Nat /\ moved[r] + 1 <= Len(rows[r])
  BY DEF TypeOK
<1> QED  BY <1>1

LEMMA PublishedType ==
    ASSUME TypeOK, NEW r \in Relays
    PROVE  PublishedIn(r) \subseteq Elems(rows[r]) /\ Elems(rows[r]) \subseteq Events
<1>1. rows[r] \in Seq(Events) /\ moved[r] \in Nat
  BY DEF TypeOK
<1>2. moved[r] + (IF pc[r] \in {"publish", "mark"} THEN 1 ELSE 0) <= Len(rows[r])
  BY DEF TypeOK
<1>3. 1..(IF pc[r] = "mark" THEN moved[r] + 1 ELSE moved[r]) \subseteq DOMAIN rows[r]
  BY <1>1, <1>2
<1> QED  BY <1>1, <1>3 DEF PublishedIn, Elems

LEMMA StepType == TypeOK /\ [Next]_vars => TypeOK'
<1> SUFFICES ASSUME TypeOK, [Next]_vars PROVE TypeOK'
  OBVIOUS
<1> USE DEF writerVars, relayVars, history
<1>1. ASSUME NEW e \in Events, BeginTx(e) PROVE TypeOK'
  BY <1>1 DEF BeginTx, TypeOK
<1>2. ASSUME NEW e \in Events, Emit(e) PROVE TypeOK'
  BY <1>2 DEF Emit, TypeOK
<1>3. ASSUME NEW e \in Events, CommitTx(e) PROVE TypeOK'
  BY <1>3 DEF CommitTx, TypeOK
<1>4. ASSUME NEW e \in Events, RollbackTx(e) PROVE TypeOK'
  BY <1>4 DEF RollbackTx, TypeOK
<1>5. ASSUME NEW r \in Relays, SelectBatch(r) PROVE TypeOK'
  <2>1. PICK s \in Oldest(Waiting) :
          /\ rows' = [rows EXCEPT ![r] = s]
          /\ pc' = [pc EXCEPT ![r] = IF s = <<>> THEN "commit" ELSE "publish"]
    BY <1>5 DEF SelectBatch
  <2>2. s \in Seq(Events)
    BY OldestFacts DEF Waiting
  <2>3. s # <<>> => Len(s) >= 1
    BY <2>2
  <2>4. Len(s) \in Nat
    BY <2>2
  <2> QED  BY <1>5, <2>1, <2>2, <2>3, <2>4 DEF SelectBatch, TypeOK
<1>6. ASSUME NEW r \in Relays, PublishRow(r) PROVE TypeOK'
  <2>1. rows[r][moved[r] + 1] \in Events
    BY <1>6, RowInHand DEF PublishRow
  <2>2. sent' \in Seq(Events) /\ again' \subseteq Events
    BY <1>6, <2>1, ReachType DEF PublishRow
  <2> QED  BY <1>6, <2>2 DEF PublishRow, TypeOK
<1>7. ASSUME NEW r \in Relays, MarkRow(r) PROVE TypeOK'
  BY <1>7 DEF MarkRow, TypeOK
<1>8. ASSUME NEW r \in Relays, CommitBatch(r) PROVE TypeOK'
  <2>1. Elems(rows[r]) \subseteq Events
    BY PublishedType
  <2> QED  BY <1>8, <2>1, EndTxType DEF CommitBatch, TypeOK
<1>9. ASSUME NEW r \in Relays, CommitReplyLost(r) PROVE TypeOK'
  <2>1. Elems(rows[r]) \subseteq Events
    BY PublishedType
  <2>2. faults' \in 0..MaxFaults
    BY <1>9, RelayAssumption DEF CommitReplyLost, TypeOK
  <2> QED  BY <1>9, <2>1, <2>2, EndTxType DEF CommitReplyLost, TypeOK
<1>10. ASSUME NEW r \in Relays, TxFails(r) PROVE TypeOK'
  <2>1. PublishedIn(r) \subseteq Events
    BY PublishedType
  <2>2. faults' \in 0..MaxFaults
    BY <1>10, RelayAssumption DEF TxFails, TypeOK
  <2> QED  BY <1>10, <2>1, <2>2, EndTxType DEF TxFails, Lose, MarkedAfter, TypeOK
<1>11. ASSUME NEW r \in Relays, PublishReplyLost(r) PROVE TypeOK'
  <2>1. PublishedIn(r) \subseteq Events
    BY PublishedType
  <2>2. faults' \in 0..MaxFaults
    BY <1>11, RelayAssumption DEF PublishReplyLost, TypeOK
  <2>3. rows[r][moved[r] + 1] \in Events
    BY <1>11, RowInHand DEF PublishReplyLost
  <2>4. sent' \in Seq(Events) /\ again' \subseteq Events
    BY <1>11, <2>3, ReachType DEF PublishReplyLost
  <2> QED  BY <1>11, <2>1, <2>2, <2>3, <2>4, EndTxType DEF PublishReplyLost, MarkedAfter, TypeOK
<1>12. ASSUME NEW r \in Relays, PoisonRefused(r) PROVE TypeOK'
  <2>1. PublishedIn(r) \subseteq Events
    BY PublishedType
  <2> QED  BY <1>12, <2>1, EndTxType DEF PoisonRefused, Lose, MarkedAfter, TypeOK
<1>13. ASSUME NEW r \in Relays, Crash(r) PROVE TypeOK'
  <2>1. PublishedIn(r) \subseteq Events
    BY PublishedType
  <2>2. faults' \in 0..MaxFaults
    BY <1>13, RelayAssumption DEF Crash, TypeOK
  <2> QED  BY <1>13, <2>1, <2>2, EndTxType DEF Crash, Lose, MarkedAfter, TypeOK
<1>14. ASSUME NEW r \in Relays, Tick(r) \/ RelayReturns(r) \/ Restart(r) PROVE TypeOK'
  BY <1>14 DEF Tick, RelayReturns, Restart, TypeOK
<1>15. ASSUME NEW r \in Relays, Stop(r) PROVE TypeOK'
  BY <1>15 DEF Stop, TypeOK
<1>16. CASE UNCHANGED vars
  BY <1>16 DEF vars, TypeOK
<1> QED
  BY <1>1, <1>2, <1>3, <1>4, <1>5, <1>6, <1>7, <1>8, <1>9, <1>10, <1>11, <1>12, <1>13,
     <1>14, <1>15, <1>16 DEF Next, Writer, Relay

\* TypeOK is an invariant of the outbox.
THEOREM TypeCorrect == Spec => []TypeOK
<1>1. Init => TypeOK
  BY InitType
<1>2. TypeOK /\ [Next]_vars => TypeOK'
  BY StepType
<1> QED  BY <1>1, <1>2, PTL DEF Spec
-----------------------------------------------------------------------------
(* The inductive invariant                                                 *)

LEMMA InitIInv == Init => IInv
<1> SUFFICES ASSUME Init PROVE IInv
  OBVIOUS
<1>1. TypeOK
  BY InitType
<1>2. Elems(<<>>) = {}
  BY DEF Elems
<1>3. \A r \in Relays : Locked(r) = {} /\ PublishedIn(r) = {}
  BY DEF Init, Locked, InTx, PublishedIn
<1>4. RowsApart /\ Progress
  BY <1>3 DEF Init, RowsApart, Progress, InTx
<1>5. RowWithTx /\ NoNeedlessDuplicate
  BY DEF Init, RowWithTx, NoNeedlessDuplicate
<1>6. SentAccounted
  BY <1>2, <1>3 DEF Init, SentAccounted
<1> QED  BY <1>1, <1>4, <1>5, <1>6 DEF IInv

\* A relay's transaction that ends takes its locks with it, and no other's.
LEMMA EndTxClears ==
    ASSUME TypeOK, Progress, RowsApart, NEW r \in Relays,
           NEW next \in {"tick", "select", "returned", "crashed"}, EndTx(r, next)
    PROVE  /\ Locked(r)' = {} /\ PublishedIn(r)' = {}
           /\ \A q \in Relays : q # r => /\ Locked(q)' = Locked(q)
                                        /\ PublishedIn(q)' = PublishedIn(q)
           /\ \A q \in Relays : \A i, j \in DOMAIN rows'[q] : i # j => rows'[q][i] # rows'[q][j]
           /\ Progress'
<1>1. /\ pc'[r] = next /\ rows'[r] = <<>> /\ moved'[r] = 0
      /\ \A q \in Relays : q # r => pc'[q] = pc[q] /\ rows'[q] = rows[q] /\ moved'[q] = moved[q]
  BY DEF EndTx, TypeOK
<1>2. Locked(r)' = {} /\ PublishedIn(r)' = {}
  BY <1>1 DEF Locked, InTx, PublishedIn
<1>3. ASSUME NEW q \in Relays, q # r
      PROVE  Locked(q)' = Locked(q) /\ PublishedIn(q)' = PublishedIn(q)
  BY <1>1, <1>3 DEF Locked, InTx, PublishedIn
<1>4. DOMAIN <<>> = {}
  OBVIOUS
<1>5. \A q \in Relays : \A i, j \in DOMAIN rows'[q] : i # j => rows'[q][i] # rows'[q][j]
  BY <1>1, <1>4 DEF RowsApart
<1>6. Progress'
  BY <1>1 DEF Progress, InTx
<1> QED  BY <1>2, <1>3, <1>5, <1>6

\* A writer's step: a committed row stays committed, and nothing of the relays
\* changes.
LEMMA WriterStep ==
    ASSUME IInv, NEW e \in Events, Writer(e)
    PROVE  IInv'
<1> USE DEF writerVars, relayVars, history
<1>1. TypeOK'
  BY StepType DEF Next, IInv
<1>2. /\ UNCHANGED <<marked, relayVars, history>>
      /\ \A f \in Events : row[f] = "committed" => row'[f] = "committed"
  BY DEF Writer, BeginTx, Emit, CommitTx, RollbackTx, IInv, TypeOK
<1>3. \A r \in Relays : Locked(r)' = Locked(r) /\ PublishedIn(r)' = PublishedIn(r)
  BY <1>2 DEF Locked, PublishedIn, InTx
<1>4. RowsApart' /\ Progress'
  BY <1>2, <1>3 DEF IInv, RowsApart, Progress, InTx
<1>5. RowWithTx'
  <2>1. ASSUME BeginTx(e) PROVE RowWithTx'
    BY <2>1 DEF BeginTx, IInv, TypeOK, RowWithTx
  <2>2. ASSUME Emit(e) PROVE RowWithTx'
    BY <2>2 DEF Emit, QuerierOf, IInv, TypeOK, RowWithTx
  <2>3. ASSUME CommitTx(e) PROVE RowWithTx'
    BY <2>3 DEF CommitTx, IInv, TypeOK, RowWithTx
  <2>4. ASSUME RollbackTx(e) PROVE RowWithTx'
    BY <2>4 DEF RollbackTx, IInv, TypeOK, RowWithTx
  <2> QED  BY <2>1, <2>2, <2>3, <2>4 DEF Writer
<1>6. Elems(sent) \subseteq Events
  BY ElemsIn DEF IInv, TypeOK
<1>7. SentAccounted' /\ NoNeedlessDuplicate'
  BY <1>2, <1>3, <1>6 DEF IInv, SentAccounted, NoNeedlessDuplicate
<1> QED  BY <1>1, <1>4, <1>5, <1>7 DEF IInv

LEMMA SelectStep ==
    ASSUME IInv, NEW r \in Relays, SelectBatch(r)
    PROVE  IInv'
<1> USE DEF writerVars, relayVars, history
<1>1. TypeOK'
  BY StepType DEF Next, Relay, IInv
<1>2. PICK s \in Oldest(Waiting) :
        /\ rows' = [rows EXCEPT ![r] = s]
        /\ pc' = [pc EXCEPT ![r] = IF s = <<>> THEN "commit" ELSE "publish"]
  BY DEF SelectBatch
<1>3. /\ s \in Seq(Events)
      /\ Elems(s) \subseteq Waiting
      /\ \A i, j \in DOMAIN s : i # j => s[i] # s[j]
  BY OldestFacts DEF Waiting, IInv
<1>4. /\ rows'[r] = s /\ moved'[r] = 0 /\ pc'[r] = (IF s = <<>> THEN "commit" ELSE "publish")
      /\ \A q \in Relays : q # r => pc'[q] = pc[q] /\ rows'[q] = rows[q] /\ moved'[q] = moved[q]
      /\ pc[r] = "select" /\ moved[r] = 0
  BY <1>2 DEF SelectBatch, IInv, TypeOK, Progress, InTx
<1>5. /\ Locked(r)' = Elems(s)
      /\ PublishedIn(r)' = {} /\ PublishedIn(r) = {}
      /\ \A q \in Relays : q # r => Locked(q)' = Locked(q) /\ PublishedIn(q)' = PublishedIn(q)
  BY <1>4 DEF Locked, PublishedIn, InTx
<1>6. \A f \in Elems(s) :
        row[f] = "committed" /\ f \notin marked /\ \A q \in Relays : f \notin Locked(q)
  BY <1>3 DEF Waiting
<1>7. UNCHANGED <<writerVars, marked, history>>
  BY DEF SelectBatch
<1>8. RowsApart'
  <2>1. \A q \in Relays : \A i, j \in DOMAIN rows'[q] : i # j => rows'[q][i] # rows'[q][j]
    BY <1>3, <1>4 DEF IInv, RowsApart
  <2>2. \A q \in Relays, f \in Events : f \in Locked(q)' => row[f] = "committed" /\ f \notin marked
    BY <1>5, <1>6 DEF IInv, RowsApart
  <2>3. \A p, q \in Relays, f \in Events : p # q => ~(f \in Locked(p)' /\ f \in Locked(q)')
    BY <1>5, <1>6 DEF IInv, RowsApart
  <2> QED  BY <1>7, <2>1, <2>2, <2>3 DEF RowsApart
<1>9. Progress'
  <2>1. Len(<<>>) = 0 /\ Len(s) \in Nat /\ (s # <<>> => Len(s) >= 1)
    BY <1>3
  <2> QED  BY <1>4, <2>1 DEF IInv, Progress, InTx
<1>10. SentAccounted' /\ NoNeedlessDuplicate' /\ RowWithTx'
  BY <1>5, <1>7 DEF IInv, SentAccounted, NoNeedlessDuplicate, RowWithTx
<1> QED  BY <1>1, <1>8, <1>9, <1>10 DEF IInv

\* The event a relay is about to publish was never sent, unless a transaction
\* that sent it was lost.
LEMMA FreshInHand ==
    ASSUME IInv, NEW r \in Relays, pc[r] = "publish",
           rows[r][moved[r] + 1] \in Elems(sent)
    PROVE  rows[r][moved[r] + 1] \in excused
<1> DEFINE e == rows[r][moved[r] + 1]
<1>1. moved[r] + 1 \in DOMAIN rows[r] /\ e \in Events
  BY RowInHand DEF IInv
<1>2. e \in Locked(r)
  BY <1>1 DEF Locked, InTx, Elems
<1>3. e \notin marked
  BY <1>1, <1>2 DEF IInv, RowsApart
<1>4. ASSUME NEW q \in Relays, e \in PublishedIn(q) PROVE FALSE
  <2>1. moved[q] \in Nat /\ moved[r] \in Nat
    BY DEF IInv, TypeOK
  <2>2. pc[q] \in InTx
    BY <1>4, <2>1 DEF PublishedIn, IInv, Progress, InTx
  <2>3. e \in Locked(q)
    BY <1>4, <2>2, PublishedType DEF Locked, IInv
  <2>4. q = r
    BY <1>1, <1>2, <2>3 DEF IInv, RowsApart
  <2>5. PICK i \in 1..moved[r] : e = rows[r][i]
    BY <1>4, <2>4 DEF PublishedIn
  <2>6. rows[r] \in Seq(Events) /\ i \in DOMAIN rows[r] /\ i # moved[r] + 1
    BY <1>1, <2>1, <2>5 DEF IInv, TypeOK
  <2> QED  BY <1>1, <2>5, <2>6 DEF IInv, RowsApart
<1> QED  BY <1>3, <1>4 DEF IInv, SentAccounted

\* The sink taking the event in a relay's hand keeps duplicates excused.
LEMMA ReachInHand ==
    ASSUME IInv, NEW r \in Relays, pc[r] = "publish", Reach(rows[r][moved[r] + 1])
    PROVE  /\ Elems(sent)' = Elems(sent) \cup {rows[r][moved[r] + 1]}
           /\ again' \subseteq excused
           /\ rows[r][moved[r] + 1] \in Events
           /\ row[rows[r][moved[r] + 1]] = "committed"
<1> DEFINE e == rows[r][moved[r] + 1]
<1>1. moved[r] + 1 \in DOMAIN rows[r] /\ e \in Events
  BY RowInHand DEF IInv
<1>2. e \in Locked(r)
  BY <1>1 DEF Locked, InTx, Elems
<1>3. row[e] = "committed"
  BY <1>1, <1>2 DEF IInv, RowsApart
<1>4. again' \subseteq excused
  BY FreshInHand DEF Reach, IInv, NoNeedlessDuplicate
<1>5. sent \in Seq(Events)
  BY DEF IInv, TypeOK
<1>6. CASE e \in Elems(sent)
  BY <1>1, <1>3, <1>4, <1>6 DEF Reach
<1>7. CASE e \notin Elems(sent)
  <2>1. sent' = Append(sent, e)
    BY <1>7 DEF Reach
  <2>2. Elems(Append(sent, e)) = Elems(sent) \cup {e}
    BY <1>1, <1>5, ElemsAppend
  <2> QED  BY <1>1, <1>3, <1>4, <2>1, <2>2
<1> QED  BY <1>6, <1>7
LEMMA PublishStep ==
    ASSUME IInv, NEW r \in Relays, PublishRow(r)
    PROVE  IInv'
<1> USE DEF writerVars, relayVars, history
<1> DEFINE e == rows[r][moved[r] + 1]
<1>1. TypeOK'
  BY StepType DEF Next, Relay, IInv
<1>2. pc[r] = "publish" /\ Reach(e)
  BY DEF PublishRow
<1>3. /\ Elems(sent)' = Elems(sent) \cup {e}
      /\ again' \subseteq excused
      /\ row[e] = "committed"
  BY <1>2, ReachInHand
<1>4. /\ pc'[r] = "mark" /\ \A q \in Relays : q # r => pc'[q] = pc[q]
      /\ UNCHANGED <<writerVars, marked, ctx, rows, moved, excused>>
  BY DEF PublishRow, IInv, TypeOK
<1>5. moved[r] \in Nat
  BY DEF IInv, TypeOK
<1>6. /\ \A q \in Relays : Locked(q)' = Locked(q)
      /\ \A q \in Relays : q # r => PublishedIn(q)' = PublishedIn(q)
      /\ PublishedIn(r)' = PublishedIn(r) \cup {e}
  <2>1. \A q \in Relays : Locked(q)' = Locked(q)
    BY <1>2, <1>4 DEF Locked, InTx
  <2>2. \A q \in Relays : q # r => PublishedIn(q)' = PublishedIn(q)
    BY <1>4 DEF PublishedIn
  <2>3. 1..(moved[r] + 1) = 1..moved[r] \cup {moved[r] + 1}
    BY <1>5
  <2>4. PublishedIn(r)' = {rows[r][i] : i \in 1..(moved[r] + 1)}
    BY <1>4 DEF PublishedIn
  <2>5. PublishedIn(r) = {rows[r][i] : i \in 1..moved[r]}
    BY <1>2 DEF PublishedIn
  <2> QED  BY <2>1, <2>2, <2>3, <2>4, <2>5
<1>7. RowsApart' /\ RowWithTx'
  BY <1>4, <1>6 DEF IInv, RowsApart, RowWithTx
<1>8. Progress'
  BY <1>2, <1>4 DEF IInv, Progress, InTx
<1>9. SentAccounted'
  BY <1>3, <1>4, <1>6 DEF IInv, SentAccounted
<1> QED  BY <1>1, <1>3, <1>4, <1>7, <1>8, <1>9 DEF IInv, NoNeedlessDuplicate

LEMMA MarkStep ==
    ASSUME IInv, NEW r \in Relays, MarkRow(r)
    PROVE  IInv'
<1> USE DEF writerVars, relayVars, history
<1>1. TypeOK'
  BY StepType DEF Next, Relay, IInv
<1>2. /\ pc[r] = "mark"
      /\ pc'[r] = (IF moved[r] + 1 < Len(rows[r]) THEN "publish" ELSE "commit")
      /\ moved'[r] = moved[r] + 1
      /\ \A q \in Relays : q # r => pc'[q] = pc[q] /\ moved'[q] = moved[q]
      /\ UNCHANGED <<writerVars, marked, ctx, rows, history>>
  BY DEF MarkRow, IInv, TypeOK
<1>3. moved[r] \in Nat /\ Len(rows[r]) \in Nat /\ moved[r] + 1 <= Len(rows[r])
  BY <1>2 DEF IInv, TypeOK
<1>4. \A q \in Relays : Locked(q)' = Locked(q) /\ PublishedIn(q)' = PublishedIn(q)
  BY <1>2 DEF Locked, PublishedIn, InTx
<1>5. Progress'
  BY <1>2, <1>3 DEF IInv, Progress, InTx
<1> QED
  BY <1>1, <1>2, <1>4, <1>5
     DEF IInv, RowsApart, RowWithTx, SentAccounted, NoNeedlessDuplicate

\* A committed batch: what it marks it had published, and no other relay holds.
LEMMA CommitStep ==
    ASSUME IInv, NEW r \in Relays, CommitBatch(r) \/ CommitReplyLost(r)
    PROVE  IInv'
<1> USE DEF writerVars, relayVars, history
<1>1. TypeOK'
  BY StepType DEF Next, Relay, IInv
<1>2. PICK next \in {"tick", "select", "returned", "crashed"} : EndTx(r, next)
  BY DEF CommitBatch, CommitReplyLost
<1>3. /\ pc[r] = "commit"
      /\ marked' = marked \cup Elems(rows[r])
      /\ UNCHANGED <<writerVars, ctx, history>>
  BY DEF CommitBatch, CommitReplyLost
<1>4. /\ Locked(r)' = {} /\ PublishedIn(r)' = {}
      /\ \A q \in Relays : q # r => Locked(q)' = Locked(q) /\ PublishedIn(q)' = PublishedIn(q)
      /\ \A q \in Relays : \A i, j \in DOMAIN rows'[q] : i # j => rows'[q][i] # rows'[q][j]
      /\ Progress'
  BY <1>2, EndTxClears DEF IInv
<1>5. Locked(r) = Elems(rows[r])
  BY <1>3 DEF Locked, InTx
<1>6. PublishedIn(r) = Elems(rows[r])
  <2>1. rows[r] \in Seq(Events) /\ moved[r] = Len(rows[r])
    BY <1>3 DEF IInv, TypeOK, Progress
  <2>2. DOMAIN rows[r] = 1..moved[r]
    BY <2>1
  <2> QED  BY <1>3, <2>2 DEF PublishedIn, Elems
<1>7. RowsApart'
  BY <1>3, <1>4, <1>5 DEF IInv, RowsApart
<1>8. SentAccounted'
  <2>1. ASSUME NEW e \in Elems(sent)
        PROVE  e \in marked' \cup excused' \/ \E q \in Relays : e \in PublishedIn(q)'
    BY <1>3, <1>4, <1>6, <2>1 DEF IInv, SentAccounted
  <2> QED  BY <1>3, <1>4, <1>6, <2>1 DEF IInv, SentAccounted
<1> QED  BY <1>1, <1>3, <1>4, <1>7, <1>8 DEF IInv, RowWithTx, NoNeedlessDuplicate

\* A lost transaction: everything it had published becomes excused.
LEMMA LoseStep ==
    ASSUME IInv, NEW r \in Relays, TxFails(r) \/ PoisonRefused(r) \/ Crash(r)
    PROVE  IInv'
<1> USE DEF writerVars, relayVars, history
<1>1. TypeOK'
  BY StepType DEF Next, Relay, IInv
<1>2. PICK next \in {"tick", "crashed"} : Lose(r, next)
  BY DEF TxFails, PoisonRefused, Crash
<1>3. /\ EndTx(r, next)
      /\ excused' = excused \cup PublishedIn(r)
      /\ UNCHANGED <<writerVars, marked, ctx, sent, again>>
  BY <1>2 DEF TxFails, PoisonRefused, Crash, Lose, MarkedAfter
<1>4. /\ Locked(r)' = {} /\ PublishedIn(r)' = {}
      /\ \A q \in Relays : q # r => Locked(q)' = Locked(q) /\ PublishedIn(q)' = PublishedIn(q)
      /\ \A q \in Relays : \A i, j \in DOMAIN rows'[q] : i # j => rows'[q][i] # rows'[q][j]
      /\ Progress'
  BY <1>3, EndTxClears DEF IInv
<1>5. RowsApart'
  BY <1>3, <1>4 DEF IInv, RowsApart
<1>6. SentAccounted'
  <2>1. ASSUME NEW e \in Elems(sent)
        PROVE  e \in marked' \cup excused' \/ \E q \in Relays : e \in PublishedIn(q)'
    BY <1>3, <1>4, <2>1 DEF IInv, SentAccounted
  <2> QED  BY <1>3, <1>4, <2>1 DEF IInv, SentAccounted
<1> QED  BY <1>1, <1>3, <1>4, <1>5, <1>6 DEF IInv, RowWithTx, NoNeedlessDuplicate

LEMMA ReplyLostStep ==
    ASSUME IInv, NEW r \in Relays, PublishReplyLost(r)
    PROVE  IInv'
<1> USE DEF writerVars, relayVars, history
<1> DEFINE e == rows[r][moved[r] + 1]
<1>1. TypeOK'
  BY StepType DEF Next, Relay, IInv
<1>2. /\ pc[r] = "publish" /\ Reach(e) /\ EndTx(r, "tick")
      /\ excused' = excused \cup PublishedIn(r) \cup {e}
      /\ UNCHANGED <<writerVars, marked, ctx>>
  BY DEF PublishReplyLost, MarkedAfter
<1>3. /\ Elems(sent)' = Elems(sent) \cup {e}
      /\ again' \subseteq excused
      /\ row[e] = "committed"
  BY <1>2, ReachInHand
<1>4. /\ Locked(r)' = {} /\ PublishedIn(r)' = {}
      /\ \A q \in Relays : q # r => Locked(q)' = Locked(q) /\ PublishedIn(q)' = PublishedIn(q)
      /\ \A q \in Relays : \A i, j \in DOMAIN rows'[q] : i # j => rows'[q][i] # rows'[q][j]
      /\ Progress'
  BY <1>2, EndTxClears DEF IInv
<1>5. RowsApart'
  BY <1>2, <1>4 DEF IInv, RowsApart
<1>6. SentAccounted'
  <2>1. ASSUME NEW f \in Elems(sent)'
        PROVE  f \in marked' \cup excused' \/ \E q \in Relays : f \in PublishedIn(q)'
    BY <1>2, <1>3, <1>4, <2>1 DEF IInv, SentAccounted
  <2> QED  BY <1>2, <1>3, <1>4, <2>1 DEF IInv, SentAccounted
<1> QED  BY <1>1, <1>2, <1>3, <1>4, <1>5, <1>6 DEF IInv, RowWithTx, NoNeedlessDuplicate

\* Steps outside a transaction.
LEMMA IdleStep ==
    ASSUME IInv, NEW r \in Relays, Tick(r) \/ RelayReturns(r) \/ Restart(r) \/ Stop(r)
    PROVE  IInv'
<1> USE DEF writerVars, relayVars, history
<1>1. TypeOK'
  BY StepType DEF Next, Relay, IInv
<1>2. /\ UNCHANGED <<writerVars, marked, rows, moved, history>>
      /\ \A q \in Relays : pc'[q] = pc[q] \/ (pc[q] \notin InTx /\ pc'[q] \notin InTx)
  BY DEF Tick, RelayReturns, Restart, Stop, IInv, TypeOK, InTx
<1>3. \A q \in Relays : Locked(q)' = Locked(q) /\ PublishedIn(q)' = PublishedIn(q)
  BY <1>2 DEF Locked, PublishedIn, InTx
<1>4. Progress'
  BY <1>2 DEF IInv, Progress, InTx
<1> QED
  BY <1>1, <1>2, <1>3, <1>4
     DEF IInv, RowsApart, RowWithTx, SentAccounted, NoNeedlessDuplicate

LEMMA StepIInv == IInv /\ [Next]_vars => IInv'
<1> SUFFICES ASSUME IInv, [Next]_vars PROVE IInv'
  OBVIOUS
<1>1. CASE \E e \in Events : Writer(e)
  BY <1>1, WriterStep
<1>2. CASE \E r \in Relays : Relay(r) \/ RelayReturns(r) \/ Crash(r) \/ Stop(r)
  BY <1>2, SelectStep, PublishStep, MarkStep, CommitStep, LoseStep, ReplyLostStep, IdleStep
     DEF Relay
<1>3. CASE UNCHANGED vars
  BY <1>3 DEF vars, writerVars, relayVars, history, IInv, TypeOK, RowsApart, Locked, InTx,
     Progress, RowWithTx, SentAccounted, PublishedIn, NoNeedlessDuplicate
<1> QED  BY <1>1, <1>2, <1>3 DEF Next

-----------------------------------------------------------------------------
(* What follows from it                                                    *)

\* The strengthening holds in every state.
THEOREM Inductive == Spec => []IInv
<1>1. Init => IInv
  BY InitIInv
<1>2. IInv /\ [Next]_vars => IInv'
  BY StepIInv
<1> QED  BY <1>1, <1>2, PTL DEF Spec

\* No event of an open or rolled back transaction ever reaches the inner sink.
THEOREM NoPhantomEver == Spec => []NoPhantom
<1>1. IInv => NoPhantom
  <2>1. IInv => Elems(sent) \subseteq Events
    BY ElemsIn DEF IInv, TypeOK
  <2> QED  BY <2>1 DEF IInv, SentAccounted, RowWithTx, NoPhantom
<1> QED  BY <1>1, Inductive, PTL

\* An event goes out twice only after a transaction that published it was lost.
THEOREM DuplicatesExcused == Spec => []NoNeedlessDuplicate
<1>1. IInv => NoNeedlessDuplicate
  BY DEF IInv
<1> QED  BY <1>1, Inductive, PTL
-----------------------------------------------------------------------------
(* The refinement                                                          *)

\* The events whose row other transactions see.
Accepted == {e \in Events : row[e] = "committed"}

\* A writer's step commits the row of its event, or of none.
LEMMA WriterAccepts ==
    ASSUME IInv, NEW e \in Events, Writer(e)
    PROVE  Accepted' = Accepted \/ (Accepted' = Accepted \cup {e} /\ e \notin Accepted)
<1> USE DEF writerVars, relayVars, history
<1>1. CASE BeginTx(e)
  BY <1>1 DEF BeginTx, Accepted
<1>2. CASE Emit(e)
  BY <1>2 DEF Emit, Accepted, IInv, TypeOK
<1>3. CASE CommitTx(e)
  BY <1>3 DEF CommitTx, Accepted, IInv, TypeOK, RowWithTx
<1>4. CASE RollbackTx(e)
  BY <1>4 DEF RollbackTx, Accepted, IInv, TypeOK
<1> QED  BY <1>1, <1>2, <1>3, <1>4 DEF Writer

LEMMA WriterRefines ==
    ASSUME IInv, NEW e \in Events, Writer(e)
    PROVE  Promise!Next \/ UNCHANGED Promise!vars
<1> USE DEF writerVars, relayVars, history
<1>1. UNCHANGED <<marked, sent>>
  BY DEF Writer, BeginTx, Emit, CommitTx, RollbackTx
<1>2. CASE Accepted' = Accepted
  BY <1>1, <1>2 DEF Promise!vars, Accepted, Elems
<1>3. CASE Accepted' = Accepted \cup {e} /\ e \notin Accepted
  <2>1. Promise!Accept(e)
    BY <1>1, <1>3 DEF Promise!Accept, Accepted, Elems
  <2> QED  BY <2>1 DEF Promise!Next
<1> QED  BY <1>2, <1>3, WriterAccepts

LEMMA RelayRefines ==
    ASSUME IInv, NEW r \in Relays, Relay(r) \/ RelayReturns(r) \/ Crash(r) \/ Stop(r)
    PROVE  Promise!Next \/ UNCHANGED Promise!vars
<1> USE DEF writerVars, relayVars, history
<1> DEFINE e == rows[r][moved[r] + 1]
<1>1. CASE PublishRow(r) \/ PublishReplyLost(r)
  <2>1. pc[r] = "publish" /\ Reach(e) /\ UNCHANGED <<row, marked>>
    BY <1>1 DEF PublishRow, PublishReplyLost, MarkedAfter
  <2>2. e \in Events /\ row[e] = "committed" /\ Elems(sent)' = Elems(sent) \cup {e}
    BY <2>1, ReachInHand
  <2>3. Promise!Work(e)
    BY <2>1, <2>2 DEF Promise!Work
  <2> QED  BY <2>2, <2>3 DEF Promise!Next
<1>2. CASE CommitBatch(r) \/ CommitReplyLost(r)
  <2>1. /\ pc[r] = "commit"
        /\ marked' = marked \cup Elems(rows[r])
        /\ UNCHANGED <<row, sent>>
    BY <1>2 DEF CommitBatch, CommitReplyLost
  <2>2. rows[r] \in Seq(Events) /\ moved[r] = Len(rows[r])
    BY <2>1 DEF IInv, TypeOK, Progress
  <2>3. DOMAIN rows[r] = 1..moved[r] /\ Elems(rows[r]) \subseteq Events
    BY <2>2, ElemsIn
  <2>4. Elems(rows[r]) \subseteq Elems(sent)
    BY <2>1, <2>3 DEF PublishedIn, Elems, IInv, SentAccounted
  <2>5. Promise!Retire(Elems(rows[r]))
    BY <2>1, <2>4 DEF Promise!Retire, Elems
  <2> QED  BY <2>3, <2>5 DEF Promise!Next
<1>3. CASE UNCHANGED <<row, sent, marked>>
  BY <1>3 DEF Promise!vars, Elems
<1>4. \/ PublishRow(r) \/ PublishReplyLost(r) \/ CommitBatch(r) \/ CommitReplyLost(r)
      \/ UNCHANGED <<row, sent, marked>>
  BY DEF Relay, SelectBatch, MarkRow, TxFails, PoisonRefused, Lose, MarkedAfter, Tick, Restart,
     RelayReturns, Crash, Stop
<1> QED  BY <1>1, <1>2, <1>3, <1>4

\* The outbox implements AtLeastOnce: a row is retired only once the inner sink
\* has its event, whatever fails, crashes or rolls back in between.
THEOREM ImplementsAtLeastOnce == Spec => RefinesAtLeastOnce
<1>1. Init => Promise!Init
  <2>1. Elems(<<>>) = {}
    BY DEF Elems
  <2> QED  BY <2>1 DEF Init, Promise!Init
<1>2. IInv /\ [Next]_vars => [Promise!Next]_Promise!vars
  <2> SUFFICES ASSUME IInv, [Next]_vars
               PROVE  Promise!Next \/ UNCHANGED Promise!vars
    OBVIOUS
  <2>1. CASE UNCHANGED vars
    BY <2>1 DEF vars, writerVars, relayVars, history, Promise!vars, Elems
  <2> QED  BY <2>1, WriterRefines, RelayRefines DEF Next
<1> QED  BY <1>1, <1>2, Inductive, PTL DEF Spec, RefinesAtLeastOnce, Promise!Spec

-----------------------------------------------------------------------------
(* The promise to those who read from the inner sink                       *)

LEMMA WriterKeeps ==
    ASSUME IInv, NEW e \in Events, Writer(e)
    PROVE  Contract!Next \/ UNCHANGED Contract!vars
<1> USE DEF writerVars, relayVars, history
<1>1. UNCHANGED <<marked, sent, again, excused>>
  BY DEF Writer, BeginTx, Emit, CommitTx, RollbackTx
<1>2. CASE Accepted' = Accepted
  BY <1>1, <1>2 DEF Contract!vars, Accepted, Elems
<1>3. CASE Accepted' = Accepted \cup {e} /\ e \notin Accepted
  <2>1. Contract!Commit(e)
    BY <1>1, <1>3 DEF Contract!Commit, Accepted, Elems
  <2> QED  BY <2>1 DEF Contract!Next
<1> QED  BY <1>2, <1>3, WriterAccepts

\* The row in hand is committed, unmarked, and was sent before only by a
\* transaction that was lost.
LEMMA SendKeeps ==
    ASSUME IInv, NEW r \in Relays, PublishRow(r) \/ PublishReplyLost(r)
    PROVE  Contract!Next
<1> USE DEF writerVars, relayVars, history
<1> DEFINE e == rows[r][moved[r] + 1]
           S == IF PublishRow(r) THEN {} ELSE PublishedIn(r) \cup {e}
<1>1. pc[r] = "publish" /\ Reach(e) /\ UNCHANGED <<row, marked>>
  BY DEF PublishRow, PublishReplyLost, MarkedAfter
<1>2. e \in Events /\ row[e] = "committed" /\ Elems(sent)' = Elems(sent) \cup {e}
  BY <1>1, ReachInHand
<1>3. e \notin marked
  <2>1. e \in Locked(r)
    BY <1>1, RowInHand DEF IInv, Locked, InTx, Elems
  <2> QED  BY <1>2, <2>1 DEF IInv, RowsApart
<1>4. e \in Elems(sent) => e \in excused
  BY <1>1, FreshInHand
<1>5. again' = IF e \in Elems(sent) THEN again \cup {e} ELSE again
  BY <1>1 DEF Reach
<1>6. excused' = excused \cup S /\ S \subseteq Elems(sent) \cup {e}
  BY DEF PublishRow, PublishReplyLost, IInv, SentAccounted
<1>7. S \in SUBSET Events
  BY <1>2, PublishedType DEF IInv
<1>8. Contract!Send(e, S)
  BY <1>1, <1>2, <1>3, <1>4, <1>5, <1>6 DEF Contract!Send
<1> QED  BY <1>2, <1>7, <1>8 DEF Contract!Next

\* A lost transaction leaves what it had sent, a committed one marks it.
LEMMA EndKeeps ==
    ASSUME IInv, NEW r \in Relays
    PROVE  /\ TxFails(r) \/ PoisonRefused(r) \/ Crash(r) => Contract!Next
           /\ CommitBatch(r) \/ CommitReplyLost(r) => Contract!Next
<1> USE DEF writerVars, relayVars, history
<1>1. PublishedIn(r) \in SUBSET Elems(sent) /\ PublishedIn(r) \in SUBSET Events
  BY PublishedType DEF IInv, SentAccounted
<1>2. ASSUME TxFails(r) \/ PoisonRefused(r) \/ Crash(r) PROVE Contract!Next
  <2>1. excused' = excused \cup PublishedIn(r) /\ UNCHANGED <<row, sent, again, marked>>
    BY <1>2 DEF TxFails, PoisonRefused, Crash, Lose, MarkedAfter
  <2>2. Contract!Lose(PublishedIn(r))
    BY <1>1, <2>1 DEF Contract!Lose, Elems
  <2> QED  BY <1>1, <2>2 DEF Contract!Next
<1>3. ASSUME CommitBatch(r) \/ CommitReplyLost(r) PROVE Contract!Next
  <2>1. /\ pc[r] = "commit"
        /\ marked' = marked \cup Elems(rows[r])
        /\ UNCHANGED <<row, sent, again, excused>>
    BY <1>3 DEF CommitBatch, CommitReplyLost
  <2>2. PublishedIn(r) = Elems(rows[r])
    <3>1. rows[r] \in Seq(Events) /\ moved[r] = Len(rows[r])
      BY <2>1 DEF IInv, TypeOK, Progress
    <3>2. DOMAIN rows[r] = 1..moved[r]
      BY <3>1
    <3> QED  BY <2>1, <3>2 DEF PublishedIn, Elems
  <2>3. Contract!Mark(PublishedIn(r))
    BY <1>1, <2>1, <2>2 DEF Contract!Mark, Elems
  <2> QED  BY <1>1, <2>3 DEF Contract!Next
<1> QED  BY <1>2, <1>3

\* What leaves the outbox is committed, unmarked, and sent again only when it
\* cannot be helped: for any relays, batches, faults and crashes, the outbox
\* implements OutboxPromise.
THEOREM ImplementsOutboxPromise == Spec => RefinesOutboxPromise
<1>1. Init => Contract!Init
  <2>1. Elems(<<>>) = {}
    BY DEF Elems
  <2> QED  BY <2>1 DEF Init, Contract!Init
<1>2. IInv /\ [Next]_vars => [Contract!Next]_Contract!vars
  <2> SUFFICES ASSUME IInv, [Next]_vars
               PROVE  Contract!Next \/ UNCHANGED Contract!vars
    OBVIOUS
  <2>1. CASE UNCHANGED vars
    BY <2>1 DEF vars, writerVars, relayVars, history, Contract!vars, Elems
  <2>2. ASSUME NEW r \in Relays, Relay(r) \/ RelayReturns(r) \/ Crash(r) \/ Stop(r)
        PROVE  Contract!Next \/ UNCHANGED Contract!vars
    <3>1. CASE SelectBatch(r) \/ MarkRow(r) \/ Tick(r) \/ Restart(r) \/ RelayReturns(r) \/ Stop(r)
      <4>1. UNCHANGED <<row, sent, again, excused, marked>>
        BY <3>1 DEF SelectBatch, MarkRow, Tick, Restart, RelayReturns, Stop,
           writerVars, history
      <4> QED  BY <4>1 DEF Contract!vars, Elems
    <3> QED  BY <2>2, <3>1, SendKeeps, EndKeeps DEF Relay
  <2> QED  BY <2>1, <2>2, WriterKeeps DEF Next
<1> QED  BY <1>1, <1>2, Inductive, PTL DEF Spec, RefinesOutboxPromise, Contract!Spec
=============================================================================
