---------------------------- MODULE PgxTxProofs ----------------------------
(***************************************************************************)
(* PgxTx for any callers, pool, retries and faults: what a call returns    *)
(* agrees with what was committed, a serialization failure is handed out   *)
(* only to a caller that lost to MaxRetries + 1 others, no connection      *)
(* stays behind but with a goroutine that ended inside its closure, the    *)
(* pool is never held by waiting callers alone, and the whole implements   *)
(* TxPromise.                                                              *)
(***************************************************************************)
EXTENDS PgxTx, FiniteSetTheorems, TLAPS

\* Which connections a call holds, by where it is.
Conns(c) ==
    /\ pc[c] \in {"idle", "begin", "decide"} => ~open[c]
    /\ pc[c] = "returned" /\ open[c] => outcome[c] = "exit"
    /\ inner[c] => \/ pc[c] = "inner"
                   \/ pc[c] = "unwind" /\ err[c] = "exit"
                   \/ pc[c] = "returned" /\ outcome[c] = "exit"
    /\ pc[c] = "nest" => c \in Nesting

\* Whether the call's work has been committed, by where it is.
Work(c) ==
    /\ landed[c] <= 1
    /\ landed[c] = 1 => pc[c] \in {"unwind", "decide", "returned"}
    /\ pc[c] \in {"unwind", "decide"} /\ err[c] \in {"conflict"} \cup Leaving => landed[c] = 0
    /\ pc[c] = "unwind" => err[c] # "none"
    /\ pc[c] = "decide" => err[c] \notin Leaving
    /\ pc[c] = "decide" /\ err[c] = "none" => landed[c] = 1
    /\ pc[c] # "returned" => outcome[c] = "none"
    /\ outcome[c] = "nil" => landed[c] = 1
    /\ outcome[c] \in {"conflict"} \cup Leaving => landed[c] = 0

\* Every attempt but the first lost to a commit no earlier attempt lost to.
Losses(c) ==
    /\ snap[c] <= commits
    /\ pc[c] \in {"idle", "begin", "nest", "inner", "body"} => attempt[c] <= commits
    /\ pc[c] \in {"work", "aborted", "commit"} => attempt[c] <= snap[c]
    /\ pc[c] \in {"unwind", "decide"} /\ err[c] = "conflict" =>
          c \in Serializable /\ attempt[c] < commits
    /\ outcome[c] = "conflict" => c \in Serializable
    /\ outcome[c] = "conflict" /\ ctx[c] => MaxRetries < commits

IInv == TypeOK /\ \A c \in Callers : Conns(c) /\ Work(c) /\ Losses(c)

-----------------------------------------------------------------------------
(* The count of commits                                                    *)

LEMMA CommitsNat ==
    ASSUME TypeOK
    PROVE  IsFiniteSet(Landed) /\ commits \in Nat
<1>1. IsFiniteSet(Serializable)
  BY FS_Subset, CallersAssumption
<1>2. Landed \in SUBSET Serializable
  BY DEF Landed
<1>3. IsFiniteSet(Landed)
  BY <1>1, <1>2, FS_Subset
<1> QED
  BY <1>3, FS_CardinalityType DEF commits

\* Commits are never undone.
LEMMA CommitsGrow ==
    ASSUME TypeOK, TypeOK', \A c \in Callers : landed[c] <= landed'[c]
    PROVE  commits \in Nat /\ commits' \in Nat /\ commits <= commits'
<1>1. IsFiniteSet(Landed) /\ commits \in Nat
  BY CommitsNat
<1>2. IsFiniteSet(Serializable)
  BY FS_Subset, CallersAssumption
<1>3. Landed' \in SUBSET Serializable
  BY DEF Landed
<1>4. IsFiniteSet(Landed')
  BY <1>2, <1>3, FS_Subset
<1>5. commits' \in Nat
  BY <1>4, FS_CardinalityType DEF commits
<1>6. Landed \in SUBSET Landed'
  <2> SUFFICES ASSUME NEW c \in Serializable, landed[c] > 0 PROVE landed'[c] > 0
    BY DEF Landed
  <2>1. landed[c] \in Nat /\ landed'[c] \in Nat /\ landed[c] <= landed'[c]
    BY CallersAssumption DEF TypeOK
  <2> QED
    BY <2>1
<1>7. commits <= commits'
  BY <1>4, <1>6, FS_Subset DEF commits
<1> QED
  BY <1>1, <1>5, <1>7

-----------------------------------------------------------------------------
(* Types                                                                   *)

LEMMA InitType == Init => TypeOK
BY BoundsAssumption DEF Init, TypeOK, Errors, Leaving, InTx

LEMMA StepType ==
    ASSUME TypeOK, [Next]_vars
    PROVE  TypeOK'
<1> USE BoundsAssumption DEF TypeOK, Errors, Leaving, InTx
<1>1. CASE UNCHANGED vars
  BY <1>1 DEF vars
<1>2. ASSUME NEW c \in Callers, Cancel(c) PROVE TypeOK'
  BY <1>2 DEF Cancel
<1>3. ASSUME NEW c \in Callers, Call(c) PROVE TypeOK'
  BY <1>3 DEF Call
<1>4. ASSUME NEW c \in Callers, BeginTx(c) PROVE TypeOK'
  BY <1>4 DEF BeginTx
<1>5. ASSUME NEW c \in Callers, NestBegin(c) PROVE TypeOK'
  BY <1>5 DEF NestBegin
<1>6. ASSUME NEW c \in Callers, NestReturns(c) PROVE TypeOK'
  BY <1>6 DEF NestReturns
<1>7. ASSUME NEW c \in Callers, Snapshot(c) PROVE TypeOK'
  BY <1>7, CommitsNat DEF Snapshot
<1>8. ASSUME NEW c \in Callers, StatementRefused(c) PROVE TypeOK'
  BY <1>8 DEF StatementRefused, Fails
<1>9. ASSUME NEW c \in Callers, FReturnsNil(c) PROVE TypeOK'
  BY <1>9 DEF FReturnsNil
<1>10. ASSUME NEW c \in Callers, Commit(c) PROVE TypeOK'
  BY <1>10 DEF Commit, CommitEnds
<1>11. ASSUME NEW c \in Callers, CommitRefused(c) PROVE TypeOK'
  BY <1>11 DEF CommitRefused, CommitEnds, Fails
<1>12. ASSUME NEW c \in Callers, Unwind(c) PROVE TypeOK'
  BY <1>12 DEF Unwind
<1>13. ASSUME NEW c \in Callers, Retry(c) PROVE TypeOK'
  <2>1. attempt[c] + 1 \in 0..MaxRetries
    BY <1>13 DEF Retry, Retriable
  <2> QED
    BY <1>13, <2>1 DEF Retry
<1>14. ASSUME NEW c \in Callers, Return(c) PROVE TypeOK'
  BY <1>14 DEF Return
<1>15. ASSUME NEW c \in Callers, BeginFails(c) PROVE TypeOK'
  <2>1. faults' \in 0..MaxFaults
    BY <1>15 DEF BeginFails, CallFails
  <2> QED
    BY <1>15, <2>1 DEF BeginFails
<1>16. ASSUME NEW c \in Callers, NestBeginFails(c) PROVE TypeOK'
  <2>1. faults' \in 0..MaxFaults
    BY <1>16 DEF NestBeginFails, CallFails
  <2> QED
    BY <1>16, <2>1 DEF NestBeginFails, Fails
<1>17. ASSUME NEW c \in Callers, RefusalSwallowed(c) PROVE TypeOK'
  BY <1>17 DEF RefusalSwallowed
<1>18. ASSUME NEW c \in Callers, NEW e \in {"other"} \cup Leaving, FReturns(c, e) PROVE TypeOK'
  BY <1>18 DEF FReturns, Fails
<1>19. ASSUME NEW c \in Callers, NEW took \in BOOLEAN, CommitUnanswered(c, took) PROVE TypeOK'
  <2>1. faults' \in 0..MaxFaults
    BY <1>19 DEF CommitUnanswered, CallFails
  <2> QED
    BY <1>19, <2>1 DEF CommitUnanswered, Fails, CommitEnds
<1> QED
  BY <1>1, <1>2, <1>3, <1>4, <1>5, <1>6, <1>7, <1>8, <1>9, <1>10, <1>11, <1>12,
     <1>13, <1>14, <1>15, <1>16, <1>17, <1>18, <1>19 DEF Next, Step, Faulty

\* Every variable of the transaction runner keeps its type: above all, no call
\* makes more than MaxRetries + 1 attempts.
THEOREM TypeCorrect == Spec => []TypeOK
<1>1. Init => TypeOK
  BY InitType
<1>2. TypeOK /\ [Next]_vars => TypeOK'
  BY StepType
<1> QED
  BY <1>1, <1>2, PTL DEF Spec
-----------------------------------------------------------------------------
(* The inductive step                                                      *)

\* A caller that does nothing while another moves.
Still(d) ==
    /\ ctx'[d] = ctx[d]
    /\ pc'[d] = pc[d]
    /\ attempt'[d] = attempt[d]
    /\ snap'[d] = snap[d]
    /\ open'[d] = open[d]
    /\ inner'[d] = inner[d]
    /\ err'[d] = err[d]
    /\ outcome'[d] = outcome[d]
    /\ landed'[d] = landed[d]

\* The others' commits take nothing from what is known of it.
LEMMA StillKeeps ==
    ASSUME TypeOK, NEW d \in Callers, Still(d), Conns(d), Work(d), Losses(d),
           commits \in Nat, commits' \in Nat, commits <= commits'
    PROVE  Conns(d)' /\ Work(d)' /\ Losses(d)'
<1>1. attempt[d] \in Nat /\ snap[d] \in Nat
  BY BoundsAssumption DEF TypeOK
<1>2. Conns(d)'
  BY DEF Still, Conns
<1>3. Work(d)'
  BY DEF Still, Work
<1>4. Losses(d)'
  BY <1>1, BoundsAssumption DEF Still, Losses
<1> QED
  BY <1>2, <1>3, <1>4

\* Whatever a caller does, the others stay still and no commit is undone.
LEMMA OneMoves ==
    ASSUME TypeOK, NEW c \in Callers, Cancel(c) \/ Call(c) \/ Step(c) \/ Faulty(c)
    PROVE  /\ \A d \in Callers \ {c} : Still(d)
           /\ \A d \in Callers : landed[d] <= landed'[d]
<1> USE DEF TypeOK, Still, Leaving
<1>1. ASSUME Cancel(c)
      PROVE  (\A d \in Callers \ {c} : Still(d)) /\ \A d \in Callers : landed[d] <= landed'[d]
  BY <1>1 DEF Cancel
<1>2. ASSUME Call(c)
      PROVE  (\A d \in Callers \ {c} : Still(d)) /\ \A d \in Callers : landed[d] <= landed'[d]
  BY <1>2 DEF Call
<1>3. ASSUME BeginTx(c)
      PROVE  (\A d \in Callers \ {c} : Still(d)) /\ \A d \in Callers : landed[d] <= landed'[d]
  BY <1>3 DEF BeginTx
<1>4. ASSUME NestBegin(c)
      PROVE  (\A d \in Callers \ {c} : Still(d)) /\ \A d \in Callers : landed[d] <= landed'[d]
  BY <1>4 DEF NestBegin
<1>5. ASSUME NestReturns(c)
      PROVE  (\A d \in Callers \ {c} : Still(d)) /\ \A d \in Callers : landed[d] <= landed'[d]
  BY <1>5 DEF NestReturns
<1>6. ASSUME Snapshot(c)
      PROVE  (\A d \in Callers \ {c} : Still(d)) /\ \A d \in Callers : landed[d] <= landed'[d]
  BY <1>6 DEF Snapshot
<1>7. ASSUME StatementRefused(c)
      PROVE  (\A d \in Callers \ {c} : Still(d)) /\ \A d \in Callers : landed[d] <= landed'[d]
  BY <1>7 DEF StatementRefused, Conflicts, Fails
<1>8. ASSUME FReturnsNil(c)
      PROVE  (\A d \in Callers \ {c} : Still(d)) /\ \A d \in Callers : landed[d] <= landed'[d]
  BY <1>8 DEF FReturnsNil
<1>9. ASSUME Commit(c)
      PROVE  (\A d \in Callers \ {c} : Still(d)) /\ \A d \in Callers : landed[d] <= landed'[d]
  BY <1>9 DEF Commit, CommitEnds
<1>10. ASSUME CommitRefused(c)
      PROVE  (\A d \in Callers \ {c} : Still(d)) /\ \A d \in Callers : landed[d] <= landed'[d]
  BY <1>10 DEF CommitRefused, CommitEnds, Conflicts, Fails
<1>11. ASSUME Unwind(c)
      PROVE  (\A d \in Callers \ {c} : Still(d)) /\ \A d \in Callers : landed[d] <= landed'[d]
  BY <1>11 DEF Unwind
<1>12. ASSUME Retry(c)
      PROVE  (\A d \in Callers \ {c} : Still(d)) /\ \A d \in Callers : landed[d] <= landed'[d]
  BY <1>12 DEF Retry, Retriable
<1>13. ASSUME Return(c)
      PROVE  (\A d \in Callers \ {c} : Still(d)) /\ \A d \in Callers : landed[d] <= landed'[d]
  BY <1>13 DEF Return, Retriable
<1>14. ASSUME BeginFails(c)
      PROVE  (\A d \in Callers \ {c} : Still(d)) /\ \A d \in Callers : landed[d] <= landed'[d]
  BY <1>14 DEF BeginFails
<1>15. ASSUME NestBeginFails(c)
      PROVE  (\A d \in Callers \ {c} : Still(d)) /\ \A d \in Callers : landed[d] <= landed'[d]
  BY <1>15 DEF NestBeginFails, Fails
<1>16. ASSUME RefusalSwallowed(c)
      PROVE  (\A d \in Callers \ {c} : Still(d)) /\ \A d \in Callers : landed[d] <= landed'[d]
  BY <1>16 DEF RefusalSwallowed
<1>17. ASSUME NEW e \in {"other"} \cup Leaving, FReturns(c, e)
      PROVE  (\A d \in Callers \ {c} : Still(d)) /\ \A d \in Callers : landed[d] <= landed'[d]
  BY <1>17 DEF FReturns, Fails
<1>18. ASSUME NEW took \in BOOLEAN, CommitUnanswered(c, took)
      PROVE  (\A d \in Callers \ {c} : Still(d)) /\ \A d \in Callers : landed[d] <= landed'[d]
  BY <1>18 DEF CommitUnanswered, CommitEnds, Fails
<1> QED
  BY <1>1, <1>2, <1>3, <1>4, <1>5, <1>6, <1>7, <1>8, <1>9,
     <1>10, <1>11, <1>12, <1>13, <1>14, <1>15, <1>16, <1>17, <1>18 DEF Step, Faulty

\* Connections: each action leaves its caller with those its new place allows.
LEMMA StepConns ==
    ASSUME TypeOK, NEW c \in Callers, Cancel(c) \/ Call(c) \/ Step(c) \/ Faulty(c), Conns(c), Work(c)
    PROVE  Conns(c)'
<1> USE DEF TypeOK, Conns, Leaving
<1>1. ASSUME Cancel(c) PROVE Conns(c)'
  BY <1>1 DEF Cancel
<1>2. ASSUME Call(c) PROVE Conns(c)'
  BY <1>2 DEF Call
<1>3. ASSUME BeginTx(c) PROVE Conns(c)'
  BY <1>3 DEF BeginTx
<1>4. ASSUME NestBegin(c) PROVE Conns(c)'
  BY <1>4 DEF NestBegin
<1>5. ASSUME NestReturns(c) PROVE Conns(c)'
  BY <1>5 DEF NestReturns
<1>6. ASSUME Snapshot(c) PROVE Conns(c)'
  BY <1>6 DEF Snapshot
<1>7. ASSUME StatementRefused(c) PROVE Conns(c)'
  BY <1>7 DEF StatementRefused, Conflicts, Fails
<1>8. ASSUME FReturnsNil(c) PROVE Conns(c)'
  BY <1>8 DEF FReturnsNil
<1>9. ASSUME Commit(c) PROVE Conns(c)'
  BY <1>9 DEF Commit, CommitEnds
<1>10. ASSUME CommitRefused(c) PROVE Conns(c)'
  BY <1>10 DEF CommitRefused, CommitEnds, Conflicts, Fails
<1>11. ASSUME Unwind(c) PROVE Conns(c)'
  BY <1>11 DEF Unwind, RollsBack, Work
<1>12. ASSUME Retry(c) PROVE Conns(c)'
  BY <1>12 DEF Retry, Retriable
<1>13. ASSUME Return(c) PROVE Conns(c)'
  BY <1>13 DEF Return, Retriable
<1>14. ASSUME BeginFails(c) PROVE Conns(c)'
  BY <1>14 DEF BeginFails
<1>15. ASSUME NestBeginFails(c) PROVE Conns(c)'
  BY <1>15 DEF NestBeginFails, Fails
<1>16. ASSUME RefusalSwallowed(c) PROVE Conns(c)'
  BY <1>16 DEF RefusalSwallowed
<1>17. ASSUME NEW e \in {"other"} \cup Leaving, FReturns(c, e) PROVE Conns(c)'
  BY <1>17 DEF FReturns, Fails
<1>18. ASSUME NEW took \in BOOLEAN, CommitUnanswered(c, took) PROVE Conns(c)'
  BY <1>18 DEF CommitUnanswered, CommitEnds, Fails
<1> QED
  BY <1>1, <1>2, <1>3, <1>4, <1>5, <1>6, <1>7, <1>8, <1>9,
     <1>10, <1>11, <1>12, <1>13, <1>14, <1>15, <1>16, <1>17, <1>18 DEF Step, Faulty

\* Work: only Commit and an unanswered COMMIT add to landed, and neither can
\* be followed by another attempt.
LEMMA StepWork ==
    ASSUME TypeOK, NEW c \in Callers, Cancel(c) \/ Call(c) \/ Step(c) \/ Faulty(c), Work(c)
    PROVE  Work(c)'
<1> USE DEF TypeOK, Work, Errors, Leaving
<1>1. ASSUME Cancel(c) PROVE Work(c)'
  BY <1>1 DEF Cancel
<1>2. ASSUME Call(c) PROVE Work(c)'
  BY <1>2 DEF Call
<1>3. ASSUME BeginTx(c) PROVE Work(c)'
  BY <1>3 DEF BeginTx
<1>4. ASSUME NestBegin(c) PROVE Work(c)'
  BY <1>4 DEF NestBegin
<1>5. ASSUME NestReturns(c) PROVE Work(c)'
  BY <1>5 DEF NestReturns
<1>6. ASSUME Snapshot(c) PROVE Work(c)'
  BY <1>6 DEF Snapshot
<1>7. ASSUME StatementRefused(c) PROVE Work(c)'
  BY <1>7 DEF StatementRefused, Conflicts, Fails
<1>8. ASSUME FReturnsNil(c) PROVE Work(c)'
  BY <1>8 DEF FReturnsNil
<1>9. ASSUME Commit(c) PROVE Work(c)'
  BY <1>9 DEF Commit, CommitEnds
<1>10. ASSUME CommitRefused(c) PROVE Work(c)'
  BY <1>10 DEF CommitRefused, CommitEnds, Conflicts, Fails
<1>11. ASSUME Unwind(c) PROVE Work(c)'
  BY <1>11 DEF Unwind
<1>12. ASSUME Retry(c) PROVE Work(c)'
  BY <1>12 DEF Retry, Retriable
<1>13. ASSUME Return(c) PROVE Work(c)'
  BY <1>13 DEF Return, Retriable
<1>14. ASSUME BeginFails(c) PROVE Work(c)'
  BY <1>14 DEF BeginFails
<1>15. ASSUME NestBeginFails(c) PROVE Work(c)'
  BY <1>15 DEF NestBeginFails, Fails
<1>16. ASSUME RefusalSwallowed(c) PROVE Work(c)'
  BY <1>16 DEF RefusalSwallowed
<1>17. ASSUME NEW e \in {"other"} \cup Leaving, FReturns(c, e) PROVE Work(c)'
  BY <1>17 DEF FReturns, Fails
<1>18. ASSUME NEW took \in BOOLEAN, CommitUnanswered(c, took) PROVE Work(c)'
  BY <1>18 DEF CommitUnanswered, CommitEnds, Fails
<1> QED
  BY <1>1, <1>2, <1>3, <1>4, <1>5, <1>6, <1>7, <1>8, <1>9,
     <1>10, <1>11, <1>12, <1>13, <1>14, <1>15, <1>16, <1>17, <1>18 DEF Step, Faulty

\* Losses: a new attempt takes its snapshot after the commit the last one lost
\* to, and Return hands out a conflict only when attempt has reached MaxRetries.
LEMMA StepLosses ==
    ASSUME TypeOK, NEW c \in Callers, Cancel(c) \/ Call(c) \/ Step(c) \/ Faulty(c),
           Work(c), Losses(c), commits \in Nat, commits' \in Nat, commits <= commits'
    PROVE  Losses(c)'
<1>0. attempt[c] \in Nat /\ snap[c] \in Nat /\ attempt[c] <= MaxRetries
  BY BoundsAssumption DEF TypeOK
<1> USE <1>0, BoundsAssumption DEF TypeOK, Losses, Leaving
<1>1. ASSUME Cancel(c) PROVE Losses(c)'
  BY <1>1 DEF Cancel
<1>2. ASSUME Call(c) PROVE Losses(c)'
  BY <1>2 DEF Call
<1>3. ASSUME BeginTx(c) PROVE Losses(c)'
  BY <1>3 DEF BeginTx
<1>4. ASSUME NestBegin(c) PROVE Losses(c)'
  BY <1>4 DEF NestBegin
<1>5. ASSUME NestReturns(c) PROVE Losses(c)'
  BY <1>5 DEF NestReturns
<1>6. ASSUME Snapshot(c) PROVE Losses(c)'
  BY <1>6 DEF Snapshot
<1>7. ASSUME StatementRefused(c) PROVE Losses(c)'
  BY <1>7 DEF StatementRefused, Conflicts, Fails
<1>8. ASSUME FReturnsNil(c) PROVE Losses(c)'
  BY <1>8 DEF FReturnsNil
<1>9. ASSUME Commit(c) PROVE Losses(c)'
  BY <1>9 DEF Commit, CommitEnds
<1>10. ASSUME CommitRefused(c) PROVE Losses(c)'
  BY <1>10 DEF CommitRefused, CommitEnds, Conflicts, Fails
<1>11. ASSUME Unwind(c) PROVE Losses(c)'
  BY <1>11 DEF Unwind
<1>12. ASSUME Retry(c) PROVE Losses(c)'
  BY <1>12 DEF Retry, Retriable
<1>13. ASSUME Return(c) PROVE Losses(c)'
  BY <1>13 DEF Return, Retriable, Work
<1>14. ASSUME BeginFails(c) PROVE Losses(c)'
  BY <1>14 DEF BeginFails
<1>15. ASSUME NestBeginFails(c) PROVE Losses(c)'
  BY <1>15 DEF NestBeginFails, Fails
<1>16. ASSUME RefusalSwallowed(c) PROVE Losses(c)'
  BY <1>16 DEF RefusalSwallowed
<1>17. ASSUME NEW e \in {"other"} \cup Leaving, FReturns(c, e) PROVE Losses(c)'
  BY <1>17 DEF FReturns, Fails
<1>18. ASSUME NEW took \in BOOLEAN, CommitUnanswered(c, took) PROVE Losses(c)'
  BY <1>18 DEF CommitUnanswered, CommitEnds, Fails
<1> QED
  BY <1>1, <1>2, <1>3, <1>4, <1>5, <1>6, <1>7, <1>8, <1>9,
     <1>10, <1>11, <1>12, <1>13, <1>14, <1>15, <1>16, <1>17, <1>18 DEF Step, Faulty

\* IInv holds initially and every step preserves it.
THEOREM Inductive == Spec => []IInv
<1>1. Init => IInv
  <2> SUFFICES ASSUME Init PROVE IInv
    OBVIOUS
  <2>1. TypeOK
    BY InitType
  <2>2. commits \in Nat
    BY <2>1, CommitsNat
  <2>3. ASSUME NEW c \in Callers PROVE Conns(c) /\ Work(c) /\ Losses(c)
    BY <2>2 DEF Init, Conns, Work, Losses
  <2> QED
    BY <2>1, <2>3 DEF IInv
<1>2. IInv /\ [Next]_vars => IInv'
  <2> SUFFICES ASSUME IInv, [Next]_vars PROVE IInv'
    OBVIOUS
  <2>1. TypeOK /\ TypeOK'
    BY StepType DEF IInv
  <2>2. CASE \E c \in Callers : Cancel(c) \/ Call(c) \/ Step(c) \/ Faulty(c)
    <3>1. PICK c \in Callers : Cancel(c) \/ Call(c) \/ Step(c) \/ Faulty(c)
      BY <2>2
    <3>2. \A d \in Callers \ {c} : Still(d)
      BY <2>1, <3>1, OneMoves
    <3>3. commits \in Nat /\ commits' \in Nat /\ commits <= commits'
      BY <2>1, <3>1, OneMoves, CommitsGrow
    <3>4. ASSUME NEW d \in Callers PROVE Conns(d)' /\ Work(d)' /\ Losses(d)'
      <4>1. Conns(d) /\ Work(d) /\ Losses(d)
        BY DEF IInv
      <4>2. CASE d = c
        BY <2>1, <3>1, <3>3, <4>1, <4>2, StepConns, StepWork, StepLosses
      <4>3. CASE d # c
        BY <2>1, <3>2, <3>3, <4>1, <4>3, StillKeeps
      <4> QED
        BY <4>2, <4>3
    <3> QED
      BY <2>1, <3>4 DEF IInv
  <2>3. CASE UNCHANGED vars
    BY <2>3 DEF vars, IInv, TypeOK, Conns, Work, Losses, commits, Landed
  <2> QED
    BY <2>2, <2>3 DEF Next
<1> QED
  BY <1>1, <1>2, PTL DEF Spec

-----------------------------------------------------------------------------
(* What follows                                                            *)

\* The work of a call is committed at most once, and what the call returned
\* says whether it was, a COMMIT without an answer excepted.
THEOREM CommittedOnceEver == Spec => []CommittedOnce
<1>1. IInv => CommittedOnce
  BY DEF IInv, Work, CommittedOnce, Leaving
<1> QED
  BY <1>1, Inductive, PTL

\* No call that is over has left a connection in use.
THEOREM ConnsReturnedEver == Spec => []ConnsReturned
<1>1. IInv => ConnsReturned
  BY DEF IInv, Conns, ConnsReturned
<1> QED
  BY <1>1, Inductive, PTL

\* A live call that ends in a serialization failure has seen more than
\* MaxRetries other transactions commit.
THEOREM GivesUpLateEver == Spec => []GivesUpLate
<1>1. IInv => GivesUpLate
  <2> SUFFICES ASSUME IInv, NEW c \in Callers, outcome[c] = "conflict", ctx[c]
               PROVE  Cardinality(Landed \ {c}) > MaxRetries
    BY DEF GivesUpLate
  <2>1. MaxRetries < commits
    BY DEF IInv, Losses
  <2>2. c \notin Landed
    BY DEF IInv, Work, Landed
  <2>3. Landed \ {c} = Landed
    BY <2>2
  <2>4. commits \in Nat
    BY CommitsNat DEF IInv
  <2> QED
    BY <2>1, <2>3, <2>4, BoundsAssumption DEF commits
<1> QED
  BY <1>1, Inductive, PTL

\* With no more serializable callers than attempts, none ends in a
\* serialization failure while its ctx lives.
THEOREM RetriesAreEnough == Spec => []RetriesEnough
<1>1. IInv => RetriesEnough
  <2> SUFFICES ASSUME IInv, Cardinality(Serializable) <= MaxRetries + 1,
                      NEW c \in Callers, ctx[c], outcome[c] = "conflict"
               PROVE  FALSE
    BY DEF RetriesEnough
  <2>1. IsFiniteSet(Landed) /\ commits \in Nat /\ MaxRetries < commits
    BY CommitsNat DEF IInv, Losses
  <2>2. IsFiniteSet(Serializable) /\ Cardinality(Serializable) \in Nat
    BY FS_Subset, FS_CardinalityType, CallersAssumption
  <2>3. Landed \in SUBSET Serializable
    BY DEF Landed
  <2>4. commits <= Cardinality(Serializable)
    BY <2>2, <2>3, FS_Subset DEF commits
  <2>5. commits = Cardinality(Serializable)
    BY <2>1, <2>2, <2>4, BoundsAssumption
  <2>6. Landed = Serializable
    BY <2>2, <2>3, <2>5, FS_Subset DEF commits
  <2>7. c \notin Landed /\ c \in Serializable
    BY DEF IInv, Work, Losses, Landed
  <2> QED
    BY <2>6, <2>7
<1> QED
  BY <1>1, Inductive, PTL

\* While fewer callers nest than there are connections left, the pool is never
\* held by callers alone that wait for it themselves, or never came back.
THEOREM SomeoneGivesBackEver == Spec => []SomeoneGivesBack
<1>1. IInv => SomeoneGivesBack
  <2> DEFINE Held   == {c \in Callers : open[c]}
             Nested == {c \in Callers : inner[c]}
             Kept   == {c \in Callers : outcome[c] = "exit" /\ open[c]}
             Lost   == {c \in Callers : outcome[c] = "exit" /\ inner[c]}
  <2> SUFFICES ASSUME IInv, Spare, InUse >= PoolSize,
                      \A c \in Callers : open[c] \/ inner[c] => pc[c] \in {"nest", "returned"}
               PROVE  FALSE
    BY DEF SomeoneGivesBack
  <2>1. Held \in SUBSET (Nesting \cup Kept)
    <3> SUFFICES ASSUME NEW c \in Callers, open[c], c \notin Nesting PROVE outcome[c] = "exit"
      OBVIOUS
    <3>1. pc[c] = "returned"
      BY DEF IInv, Conns
    <3> QED
      BY <3>1 DEF IInv, Conns
  <2>2. Nested \in SUBSET Lost
    <3> SUFFICES ASSUME NEW c \in Callers, inner[c] PROVE outcome[c] = "exit"
      OBVIOUS
    <3>1. pc[c] \in {"nest", "returned"}
      OBVIOUS
    <3> QED
      BY <3>1 DEF IInv, Conns
  <2>3. IsFiniteSet(Nesting) /\ IsFiniteSet(Kept) /\ IsFiniteSet(Lost)
    <3>1. Nesting \in SUBSET Callers /\ Kept \in SUBSET Callers /\ Lost \in SUBSET Callers
      BY CallersAssumption
    <3> QED
      BY <3>1, FS_Subset, CallersAssumption
  <2>4. Cardinality(Nesting) \in Nat /\ Cardinality(Kept) \in Nat /\ Cardinality(Lost) \in Nat
    BY <2>3, FS_CardinalityType
  <2>5. /\ Cardinality(Held) \in Nat
        /\ Cardinality(Held) <= Cardinality(Nesting) + Cardinality(Kept)
    <3>1. /\ IsFiniteSet(Nesting \cup Kept)
          /\ Cardinality(Nesting \cup Kept)
               = Cardinality(Nesting) + Cardinality(Kept) - Cardinality(Nesting \cap Kept)
      BY <2>3, FS_Union
    <3>2. Nesting \cap Kept \in SUBSET Kept
      OBVIOUS
    <3>3. Cardinality(Nesting \cap Kept) \in Nat
      BY <2>3, <3>2, FS_Subset, FS_CardinalityType
    <3>4. IsFiniteSet(Held) /\ Cardinality(Held) <= Cardinality(Nesting \cup Kept)
      BY <2>1, <3>1, FS_Subset
    <3>5. Cardinality(Held) \in Nat
      BY <3>4, FS_CardinalityType
    <3> HIDE DEF Held, Kept
    <3> QED
      BY <2>4, <3>1, <3>3, <3>4, <3>5
  <2>6. Cardinality(Nested) \in Nat /\ Cardinality(Nested) <= Cardinality(Lost)
    <3>1. IsFiniteSet(Nested) /\ Cardinality(Nested) <= Cardinality(Lost)
      BY <2>2, <2>3, FS_Subset
    <3> QED
      BY <3>1, FS_CardinalityType
  <2>7. Cardinality(Nesting) + (Cardinality(Kept) + Cardinality(Lost)) < PoolSize
    BY DEF Spare, Leaked
  <2>8. Cardinality(Held) + Cardinality(Nested) >= PoolSize
    BY DEF InUse
  <2> HIDE DEF Held, Nested, Kept, Lost
  <2> QED
    BY <2>4, <2>5, <2>6, <2>7, <2>8, BoundsAssumption
<1> QED
  BY <1>1, Inductive, PTL

-----------------------------------------------------------------------------
(* The promise                                                             *)

\* What a call does between its begin and its answer, its COMMIT excepted, is
\* no business of the promise.
LEMMA Unseen ==
    ASSUME TypeOK, NEW c \in Callers, pc[c] # "idle", pc'[c] # "idle",
           \A d \in Callers \ {c} : pc'[d] = pc[d],
           UNCHANGED <<ctx, outcome, landed>>
    PROVE  UNCHANGED Promise!vars
BY DEF Promise!vars

\* An answer is that of the promise when it is truthful.
LEMMA Answered ==
    ASSUME TypeOK, NEW c \in Callers, pc[c] # "idle", pc'[c] # "idle",
           \A d \in Callers \ {c} : pc'[d] = pc[d],
           outcome[c] = "none",
           NEW a \in {"nil", "conflict", "other", "panic", "exit"},
           Promise!Truthful(c, a),
           outcome' = [outcome EXCEPT ![c] = a],
           UNCHANGED <<ctx, landed>>
    PROVE  Promise!Next
<1>1. Promise!Answer(c, a)
  BY DEF Promise!Answer, Promise!Running
<1> QED
  BY <1>1 DEF Promise!Next

\* A COMMIT that takes effect is the one moment the promise allows.
LEMMA Takes ==
    ASSUME TypeOK, NEW c \in Callers, Work(c), pc[c] = "commit", pc'[c] # "idle",
           \A d \in Callers \ {c} : pc'[d] = pc[d],
           landed' = [landed EXCEPT ![c] = @ + 1],
           UNCHANGED <<ctx, outcome>>
    PROVE  Promise!Next
<1>1. landed[c] = 0 /\ outcome[c] = "none"
  BY DEF Work, TypeOK
<1>2. landed' = [landed EXCEPT ![c] = 1]
  BY <1>1 DEF TypeOK
<1>3. Promise!TakeEffect(c)
  BY <1>1, <1>2 DEF Promise!TakeEffect, Promise!Running
<1> QED
  BY <1>3 DEF Promise!Next

\* The errors Return hands out are truthful.
LEMMA ReturnTruthful ==
    ASSUME IInv, NEW c \in Callers, Return(c),
           NEW a, a = IF err[c] = "none" THEN "nil" ELSE err[c]
    PROVE  a \in {"nil", "conflict", "other"} /\ Promise!Truthful(c, a)
<1>1. TypeOK /\ Work(c) /\ Losses(c) /\ pc[c] = "decide" /\ ~Retriable(c)
  BY DEF IInv, Return
<1>2. err[c] \in {"none", "conflict", "other"}
  BY <1>1 DEF TypeOK, Work, Errors, Leaving
<1>3. CASE err[c] = "none"
  BY <1>1, <1>3 DEF Work, Promise!Truthful
<1>4. CASE err[c] = "other"
  BY <1>4 DEF Promise!Truthful
<1>5. CASE err[c] = "conflict"
  <2>1. landed[c] = 0 /\ c \in Serializable /\ attempt[c] < commits
    BY <1>1, <1>5 DEF Work, Losses
  <2>2. attempt[c] \in Nat /\ attempt[c] <= MaxRetries /\ commits \in Nat
    BY <1>1, CommitsNat, BoundsAssumption DEF TypeOK
  <2>3. ctx[c] => attempt[c] = MaxRetries
    BY <1>1, <1>5, <2>1, <2>2, BoundsAssumption DEF Retriable
  <2>4. ctx[c] => Cardinality(Landed) > MaxRetries
    BY <2>1, <2>2, <2>3, BoundsAssumption DEF commits
  <2>5. Promise!Took = Landed
    BY DEF Promise!Took, Landed
  <2>6. a = "conflict"
    BY <1>5
  <2>7. ctx[c] => Promise!Cardinality(Promise!Took) > MaxRetries
    BY <2>4, <2>5 DEF Promise!Cardinality, Cardinality
  <2> QED
    BY <2>1, <2>6, <2>7 DEF Promise!Truthful
<1> QED
  BY <1>2, <1>3, <1>4, <1>5

\* Every step of a caller is a step of the promise, or none.
LEMMA StepRefines ==
    ASSUME IInv, NEW c \in Callers, Cancel(c) \/ Call(c) \/ Step(c) \/ Faulty(c)
    PROVE  Promise!Next \/ UNCHANGED Promise!vars
<1>0. TypeOK /\ Work(c)
  BY DEF IInv
<1> USE <1>0
<1>1. ASSUME Cancel(c) PROVE Promise!Next
  <2>1. Promise!Expire(c)
    BY <1>1 DEF Cancel, TypeOK, Promise!Expire
  <2> QED
    BY <2>1 DEF Promise!Next
<1>2. ASSUME Call(c) PROVE Promise!Next
  <2>1. Promise!Begin(c)
    BY <1>2 DEF Call, TypeOK, Promise!Begin
  <2> QED
    BY <2>1 DEF Promise!Next
<1>3. ASSUME BeginTx(c) \/ NestBegin(c) \/ NestReturns(c) \/ Snapshot(c) \/ FReturnsNil(c) \/ Retry(c)
      PROVE  UNCHANGED Promise!vars
  BY <1>3, Unseen DEF BeginTx, NestBegin, NestReturns, Snapshot, FReturnsNil, Retry, TypeOK
<1>4. ASSUME StatementRefused(c) \/ CommitRefused(c) \/ BeginFails(c)
             \/ NestBeginFails(c) \/ RefusalSwallowed(c)
      PROVE  UNCHANGED Promise!vars
  BY <1>4, Unseen DEF StatementRefused, CommitRefused, BeginFails, NestBeginFails, RefusalSwallowed,
                      Fails, TypeOK
<1>5. ASSUME NEW e \in {"other"} \cup Leaving, FReturns(c, e)
      PROVE  UNCHANGED Promise!vars
  BY <1>5, Unseen DEF FReturns, Fails, TypeOK
<1>6. ASSUME Commit(c) PROVE Promise!Next
  BY <1>6, Takes DEF Commit, TypeOK
<1>7. ASSUME CommitUnanswered(c, TRUE) PROVE Promise!Next
  BY <1>7, Takes DEF CommitUnanswered, Fails, TypeOK
<1>8. ASSUME CommitUnanswered(c, FALSE) PROVE UNCHANGED Promise!vars
  <2>1. landed' = landed
    BY <1>8 DEF CommitUnanswered, TypeOK
  <2> QED
    BY <1>8, <2>1, Unseen DEF CommitUnanswered, Fails, TypeOK
<1>9. ASSUME Unwind(c) PROVE Promise!Next \/ UNCHANGED Promise!vars
  <2>1. pc[c] = "unwind" /\ outcome[c] = "none" /\ pc'[c] # "idle"
    BY <1>9 DEF Unwind, Work, TypeOK
  <2>2. \A d \in Callers \ {c} : pc'[d] = pc[d]
    BY <1>9 DEF Unwind, TypeOK
  <2>3. CASE err[c] \in Leaving
    <3>1. Promise!Truthful(c, err[c])
      BY <2>1, <2>3 DEF Work, Leaving, Promise!Truthful
    <3>2. outcome' = [outcome EXCEPT ![c] = err[c]] /\ UNCHANGED <<ctx, landed>>
      BY <1>9, <2>3 DEF Unwind
    <3> QED
      BY <2>1, <2>2, <2>3, <3>1, <3>2, Answered DEF Leaving
  <2>4. CASE err[c] \notin Leaving
    <3>1. UNCHANGED <<ctx, outcome, landed>>
      BY <1>9, <2>4 DEF Unwind, TypeOK
    <3> QED
      BY <2>1, <2>2, <3>1, Unseen
  <2> QED
    BY <2>3, <2>4
<1>10. ASSUME Return(c) PROVE Promise!Next
  <2> DEFINE a == IF err[c] = "none" THEN "nil" ELSE err[c]
  <2>1. pc[c] = "decide" /\ outcome[c] = "none" /\ pc'[c] # "idle"
    BY <1>10 DEF Return, Work, TypeOK
  <2>2. \A d \in Callers \ {c} : pc'[d] = pc[d]
    BY <1>10 DEF Return, TypeOK
  <2>3. outcome' = [outcome EXCEPT ![c] = a] /\ UNCHANGED <<ctx, landed>>
    BY <1>10 DEF Return
  <2>4. a \in {"nil", "conflict", "other"} /\ Promise!Truthful(c, a)
    BY <1>10, ReturnTruthful
  <2> HIDE DEF a
  <2> QED
    BY <2>1, <2>2, <2>3, <2>4, Answered
<1> QED
  BY <1>1, <1>2, <1>3, <1>4, <1>5, <1>6, <1>7, <1>8, <1>9, <1>10 DEF Step, Faulty

\* TxCtx and TxSerializableCtx keep the promise of TxPromise: whatever is
\* retried, rolled back, panicked or lost, a call's work takes effect at one
\* moment or not at all and the answer does not say otherwise.
THEOREM ImplementsTxPromise == Spec => RefinesTxPromise
<1>1. Init => Promise!Init
  BY DEF Init, Promise!Init
<1>2. IInv /\ [Next]_vars => [Promise!Next]_Promise!vars
  <2> SUFFICES ASSUME IInv, [Next]_vars
               PROVE  Promise!Next \/ UNCHANGED Promise!vars
    OBVIOUS
  <2>1. CASE UNCHANGED vars
    BY <2>1 DEF vars, Promise!vars
  <2> QED
    BY <2>1, StepRefines DEF Next
<1> QED
  BY <1>1, <1>2, Inductive, PTL DEF Spec, RefinesTxPromise, Promise!Spec
=============================================================================
