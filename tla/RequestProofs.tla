--------------------------- MODULE RequestProofs ----------------------------
(***************************************************************************)
(* The pure operators of the HTTP side for any argument: what Only keeps,  *)
(* what the coercers and writers make of an error, and that Bind names     *)
(* every bad input.                                                        *)
(***************************************************************************)
EXTENDS RequestParser, SequenceTheorems, FiniteSetTheorems, WellFoundedInduction, TLAPS

-----------------------------------------------------------------------------
(* Induction.  The induction theorems of the library take an operator; the *)
(* minimum of a non-empty set of naturals does not.                        *)

LEMMA Least ==
    ASSUME NEW T \in SUBSET Nat, T # {}
    PROVE  \E x \in T : \A y \in T : ~(y < x)
<1> DEFINE R == OpToRel(<, Nat)
<1>1. IsWellFoundedOn(R, Nat)
  BY NatLessThanWellFounded
<1>2. \A x, y \in Nat : y < x => <<y, x>> \in R
  BY DEF OpToRel
<1> HIDE DEF R
<1>3. PICK x \in T : \A y \in T : <<y, x>> \notin R
  BY <1>1, WFMin
<1> QED BY <1>2, <1>3

\* What holds at 0 and passes from each number below n to the next holds up to n.
LEMMA UpTo ==
    ASSUME NEW n \in Nat, NEW T, 0 \in T, \A i \in 1 .. n : i - 1 \in T => i \in T
    PROVE  \A i \in 0 .. n : i \in T
<1> SUFFICES ASSUME NEW i \in 0 .. n, i \notin T PROVE FALSE
  OBVIOUS
<1> DEFINE U == {k \in 0 .. n : k \notin T}
<1>1. U \in SUBSET Nat /\ U # {}
  OBVIOUS
<1>2. PICK x \in U : \A y \in U : ~(y < x)
  <2> HIDE DEF U
  <2> QED BY <1>1, Least
<1>3. x # 0 /\ x \in 1 .. n /\ x - 1 \in 0 .. n /\ x - 1 < x
  BY <1>2
<1>4. x - 1 \notin U
  BY <1>2, <1>3
<1> QED BY <1>2, <1>3, <1>4

Steps(g, b, step, m) == \A i \in 0 .. m : g[i] = IF i = 0 THEN b ELSE step[i][g[i - 1]]

LEMMA StepMore ==
    ASSUME NEW n \in Nat, NEW V, NEW b \in V, NEW step \in [1 .. n -> [V -> V]],
           NEW i \in 1 .. n, NEW g \in [0 .. i - 1 -> V], Steps(g, b, step, i - 1)
    PROVE  \E h \in [0 .. i -> V] : Steps(h, b, step, i)
<1> DEFINE h == [k \in 0 .. i |-> IF k = i THEN step[i][g[i - 1]] ELSE g[k]]
<1>1. g[i - 1] \in V /\ step[i][g[i - 1]] \in V
  OBVIOUS
<1>2. h \in [0 .. i -> V]
  BY <1>1
<1>3. ASSUME NEW k \in 0 .. i PROVE h[k] = IF k = 0 THEN b ELSE step[k][h[k - 1]]
  <2>1. CASE k = i
    BY <2>1
  <2>2. CASE k # i
    <3>1. k \in 0 .. i - 1 /\ h[k] = g[k] /\ (k # 0 => h[k - 1] = g[k - 1])
      BY <2>2
    <3> QED BY <3>1 DEF Steps
  <2> QED BY <2>1, <2>2
<1> HIDE DEF h
<1> QED BY <1>2, <1>3 DEF Steps

\* A function on 0 .. n can be defined by what it is at 0 and by a step.
LEMMA Iterates ==
    ASSUME NEW n \in Nat, NEW V, NEW b \in V, NEW step \in [1 .. n -> [V -> V]]
    PROVE  \E g \in [0 .. n -> V] : Steps(g, b, step, n)
<1> DEFINE T == {m \in 0 .. n : \E g \in [0 .. m -> V] : Steps(g, b, step, m)}
<1>1. 0 \in T
  <2> DEFINE g == [i \in 0 .. 0 |-> b]
  <2>1. g \in [0 .. 0 -> V] /\ Steps(g, b, step, 0) /\ 0 \in 0 .. n
    BY DEF Steps
  <2> QED BY <2>1
<1>2. ASSUME NEW i \in 1 .. n, i - 1 \in T PROVE i \in T
  <2>1. i - 1 \in 0 .. n /\ i \in 0 .. n
    OBVIOUS
  <2>2. PICK g \in [0 .. i - 1 -> V] : Steps(g, b, step, i - 1)
    BY <1>2
  <2>3. PICK h \in [0 .. i -> V] : Steps(h, b, step, i)
    BY <2>2, StepMore
  <2> QED BY <2>1, <2>3
<1>3. n \in T
  <2> HIDE DEF T
  <2>1. \A i \in 0 .. n : i \in T
    BY <1>1, <1>2, UpTo
  <2> QED BY <2>1
<1> QED BY <1>3

-----------------------------------------------------------------------------
(* Only *)

Keeps(kept, s, keep) ==
    \A i \in 0 .. Len(s) :
        kept[i] = IF i = 0 THEN <<>>
                  ELSE IF s[i] \in keep THEN Append(kept[i - 1], s[i]) ELSE kept[i - 1]

LEMMA KeepsAt ==
    ASSUME NEW s, Len(s) \in Nat, NEW keep, NEW kept, Keeps(kept, s, keep), NEW i \in 1 .. Len(s)
    PROVE  /\ i \in 0 .. Len(s) /\ i - 1 \in 0 .. Len(s)
           /\ s[i] \in keep => kept[i] = Append(kept[i - 1], s[i])
           /\ s[i] \notin keep => kept[i] = kept[i - 1]
<1>1. i \in 0 .. Len(s) /\ i - 1 \in 0 .. Len(s) /\ i # 0
  OBVIOUS
<1>2. kept[i] = IF i = 0 THEN <<>>
                ELSE IF s[i] \in keep THEN Append(kept[i - 1], s[i]) ELSE kept[i - 1]
  BY <1>1 DEF Keeps
<1>3. CASE s[i] \in keep
  BY <1>1, <1>2, <1>3
<1>4. CASE s[i] \notin keep
  BY <1>1, <1>2, <1>4
<1> QED BY <1>3, <1>4

LEMMA KeepsNone ==
    ASSUME NEW s, Len(s) \in Nat, NEW keep, NEW kept, Keeps(kept, s, keep)
    PROVE  kept[0] = <<>>
<1>1. 0 \in 0 .. Len(s)
  OBVIOUS
<1>2. kept[0] = IF 0 = 0 THEN <<>> ELSE IF s[0] \in keep THEN Append(kept[0 - 1], s[0]) ELSE kept[0 - 1]
  BY <1>1 DEF Keeps
<1> QED BY <1>2

LEMMA KeepsTyped ==
    ASSUME NEW S, NEW s \in Seq(S), NEW keep, NEW kept, Keeps(kept, s, keep)
    PROVE  \A i \in 0 .. Len(s) : kept[i] \in Seq(S)
<1> DEFINE T == {i \in 0 .. Len(s) : kept[i] \in Seq(S)}
<1>1. Len(s) \in Nat /\ \A i \in 1 .. Len(s) : s[i] \in S
  BY LenProperties, ElementOfSeq
<1>2. 0 \in T
  <2>1. kept[0] = <<>>
    BY <1>1, KeepsNone
  <2>2. <<>> \in Seq(S)
    BY EmptySeq
  <2>3. kept[0] \in Seq(S)
    BY <2>1, <2>2, Zenon
  <2>4. 0 \in 0 .. Len(s)
    BY <1>1
  <2> QED BY <2>3, <2>4
<1>3. ASSUME NEW i \in 1 .. Len(s), i - 1 \in T PROVE i \in T
  <2>1. kept[i - 1] \in Seq(S) /\ s[i] \in S
    BY <1>1, <1>3
  <2>2. /\ i \in 0 .. Len(s)
        /\ s[i] \in keep => kept[i] = Append(kept[i - 1], s[i])
        /\ s[i] \notin keep => kept[i] = kept[i - 1]
    BY <1>1, KeepsAt
  <2>3. Append(kept[i - 1], s[i]) \in Seq(S)
    BY <2>1, AppendProperties
  <2> QED BY <2>1, <2>2, <2>3
<1>4. \A i \in 0 .. Len(s) : i \in T
  <2> HIDE DEF T
  <2> QED BY <1>1, <1>2, <1>3, UpTo
<1> QED BY <1>4

\* The recursive function in Only is there, and is what its equation says.
LEMMA OnlyKeeps ==
    ASSUME NEW S, NEW s \in Seq(S), NEW keep
    PROVE  \E kept \in [0 .. Len(s) -> Seq(S)] : Keeps(kept, s, keep) /\ Only(s, keep) = kept[Len(s)]
<1> DEFINE n == Len(s)
           step == [i \in 1 .. n |-> [v \in Seq(S) |-> IF s[i] \in keep THEN Append(v, s[i]) ELSE v]]
           Body(g) == [i \in 0 .. n |-> IF i = 0 THEN <<>>
                                        ELSE IF s[i] \in keep THEN Append(g[i - 1], s[i]) ELSE g[i - 1]]
           kept == CHOOSE g : g = Body(g)
<1>1. n \in Nat /\ \A i \in 1 .. n : s[i] \in S
  BY LenProperties, ElementOfSeq
<1>2. <<>> \in Seq(S)
  BY EmptySeq
<1>3. step \in [1 .. n -> [Seq(S) -> Seq(S)]]
  BY <1>1, AppendProperties
<1>4. PICK g \in [0 .. n -> Seq(S)] : Steps(g, <<>>, step, n)
  <2> HIDE DEF step, n
  <2> QED BY <1>1, <1>2, <1>3, Iterates
<1>5. \A i \in 0 .. n : g[i] = IF i = 0 THEN <<>>
                               ELSE IF s[i] \in keep THEN Append(g[i - 1], s[i]) ELSE g[i - 1]
  <2>1. \A i \in 1 .. n : i - 1 \in 0 .. n /\ g[i - 1] \in Seq(S)
    <3> HIDE DEF step, n
    <3>1. \A i \in 1 .. n : i - 1 \in 0 .. n
      BY <1>1
    <3> QED BY <1>4, <3>1
  <2>2. \A i \in 1 .. n : step[i][g[i - 1]] = IF s[i] \in keep THEN Append(g[i - 1], s[i]) ELSE g[i - 1]
    <3> TAKE i \in 1 .. n
    <3>1. step[i] = [v \in Seq(S) |-> IF s[i] \in keep THEN Append(v, s[i]) ELSE v]
      <4> HIDE DEF n
      <4> QED OBVIOUS
    <3> HIDE DEF step, n
    <3> QED BY <2>1, <3>1
  <2>3. \A i \in 0 .. n : i # 0 => i \in 1 .. n
    BY <1>1
  <2> HIDE DEF step, n
  <2> QED BY <1>4, <2>2, <2>3 DEF Steps
<1>6. g = Body(g)
  <2> HIDE DEF n
  <2> QED BY <1>5
<1>7. kept = Body(kept)
  <2> HIDE DEF Body
  <2> QED BY <1>6
<1>8. Only(s, keep) = kept[n]
  BY DEF Only
<1>9. \A i \in 0 .. n : kept[i] = IF i = 0 THEN <<>>
                                  ELSE IF s[i] \in keep THEN Append(kept[i - 1], s[i]) ELSE kept[i - 1]
  <2> HIDE DEF n, kept
  <2> QED BY <1>7
<1>10. Keeps(kept, s, keep)
  BY <1>9 DEF Keeps
<1>11. \A i \in 0 .. n : kept[i] \in Seq(S)
  <2> HIDE DEF kept
  <2> QED BY <1>10, KeepsTyped
<1>12. kept \in [0 .. n -> Seq(S)]
  <2>1. kept = [i \in 0 .. n |-> kept[i]]
    <3> HIDE DEF n, kept
    <3> QED BY <1>7
  <2> HIDE DEF n, kept
  <2> QED BY <1>11, <2>1
<1> HIDE DEF kept
<1> QED BY <1>8, <1>10, <1>12

\* What Only keeps is decided by the test on the elements, and by nothing else.
LEMMA OnlyAgrees ==
    ASSUME NEW S, NEW s \in Seq(S), NEW keep, NEW hold, \A i \in 1 .. Len(s) : s[i] \in keep <=> s[i] \in hold
    PROVE  Only(s, keep) = Only(s, hold)
<1>1. PICK k \in [0 .. Len(s) -> Seq(S)] : Keeps(k, s, keep) /\ Only(s, keep) = k[Len(s)]
  BY OnlyKeeps
<1>2. PICK h \in [0 .. Len(s) -> Seq(S)] : Keeps(h, s, hold) /\ Only(s, hold) = h[Len(s)]
  BY OnlyKeeps
<1>3. Len(s) \in Nat
  BY LenProperties
<1> DEFINE T == {i \in 0 .. Len(s) : k[i] = h[i]}
<1>4. 0 \in T
  <2>1. k[0] = <<>> /\ h[0] = <<>>
    BY <1>1, <1>2, <1>3, KeepsNone
  <2> QED BY <1>3, <2>1
<1>5. ASSUME NEW i \in 1 .. Len(s), i - 1 \in T PROVE i \in T
  <2>1. k[i - 1] = h[i - 1] /\ (s[i] \in keep <=> s[i] \in hold)
    BY <1>5
  <2>2. /\ i \in 0 .. Len(s)
        /\ s[i] \in keep => k[i] = Append(k[i - 1], s[i])
        /\ s[i] \notin keep => k[i] = k[i - 1]
    BY <1>1, <1>3, KeepsAt
  <2>3. /\ s[i] \in hold => h[i] = Append(h[i - 1], s[i])
        /\ s[i] \notin hold => h[i] = h[i - 1]
    BY <1>2, <1>3, KeepsAt
  <2>4. k[i] = h[i]
    BY <2>1, <2>2, <2>3, Zenon
  <2> QED BY <2>2, <2>4
<1>6. \A i \in 0 .. Len(s) : i \in T
  <2> HIDE DEF T
  <2> QED BY <1>3, <1>4, <1>5, UpTo
<1>7. Len(s) \in T
  BY <1>3, <1>6
<1> QED BY <1>1, <1>2, <1>7

LEMMA OnlyEmpty == ASSUME NEW keep PROVE Only(<<>>, keep) = <<>>
<1> DEFINE e == <<>>
<1>1. e \in Seq({}) /\ Len(e) = 0 /\ Len(e) \in Nat
  BY EmptySeq, LenProperties
<1>2. PICK k \in [0 .. Len(e) -> Seq({})] : Keeps(k, e, keep) /\ Only(e, keep) = k[Len(e)]
  <2> HIDE DEF e
  <2> QED BY <1>1, OnlyKeeps
<1>3. k[0] = <<>>
  <2> HIDE DEF e
  <2> QED BY <1>1, <1>2, KeepsNone
<1> QED BY <1>1, <1>2, <1>3

LEMMA OnlyOfAppend ==
    ASSUME NEW S, NEW s \in Seq(S), NEW x \in S, NEW keep
    PROVE  Only(Append(s, x), keep) = IF x \in keep THEN Append(Only(s, keep), x) ELSE Only(s, keep)
<1> DEFINE t == Append(s, x)
<1>1. /\ t \in Seq(S) /\ Len(t) = Len(s) + 1 /\ Len(s) \in Nat
      /\ t[Len(s) + 1] = x /\ \A i \in 1 .. Len(s) : t[i] = s[i]
  BY AppendProperties, LenProperties
<1> HIDE DEF t
<1>2. PICK k \in [0 .. Len(s) -> Seq(S)] : Keeps(k, s, keep) /\ Only(s, keep) = k[Len(s)]
  BY OnlyKeeps
<1>3. PICK h \in [0 .. Len(t) -> Seq(S)] : Keeps(h, t, keep) /\ Only(t, keep) = h[Len(t)]
  BY <1>1, OnlyKeeps
<1>4. Len(t) \in Nat /\ Len(t) \in 1 .. Len(t) /\ Len(t) - 1 = Len(s)
  BY <1>1
<1> DEFINE T == {i \in 0 .. Len(s) : k[i] = h[i]}
<1>5. 0 \in T
  <2>1. k[0] = <<>> /\ h[0] = <<>>
    BY <1>1, <1>2, <1>3, <1>4, KeepsNone
  <2> QED BY <1>1, <2>1
<1>6. ASSUME NEW i \in 1 .. Len(s), i - 1 \in T PROVE i \in T
  <2>1. k[i - 1] = h[i - 1] /\ s[i] = t[i] /\ i \in 1 .. Len(t)
    BY <1>1, <1>6
  <2>2. /\ i \in 0 .. Len(s)
        /\ s[i] \in keep => k[i] = Append(k[i - 1], s[i])
        /\ s[i] \notin keep => k[i] = k[i - 1]
    BY <1>1, <1>2, KeepsAt
  <2>3. /\ t[i] \in keep => h[i] = Append(h[i - 1], t[i])
        /\ t[i] \notin keep => h[i] = h[i - 1]
    <3>1. Keeps(h, t, keep) /\ Len(t) \in Nat /\ i \in 1 .. Len(t)
      BY <1>3, <1>4, <2>1
    <3> QED BY <3>1, KeepsAt
  <2>4. k[i] = h[i]
    BY <2>1, <2>2, <2>3, Zenon
  <2> QED BY <2>2, <2>4
<1>7. k[Len(s)] = h[Len(s)]
  <2>1. \A i \in 0 .. Len(s) : i \in T
    <3> HIDE DEF T
    <3> QED BY <1>1, <1>5, <1>6, UpTo
  <2> QED BY <1>1, <2>1
<1>8. /\ t[Len(t)] \in keep => h[Len(t)] = Append(h[Len(t) - 1], t[Len(t)])
      /\ t[Len(t)] \notin keep => h[Len(t)] = h[Len(t) - 1]
  BY <1>3, <1>4, KeepsAt
<1>9. t[Len(t)] = x
  BY <1>1
<1>10. /\ x \in keep => h[Len(t)] = Append(h[Len(s)], x)
       /\ x \notin keep => h[Len(t)] = h[Len(s)]
  BY <1>4, <1>8, <1>9
<1>11. /\ x \in keep => Only(t, keep) = Append(Only(s, keep), x)
       /\ x \notin keep => Only(t, keep) = Only(s, keep)
  BY <1>2, <1>3, <1>7, <1>10
<1> QED BY <1>11 DEF t

\* What holds of the empty sequence, and of any sequence with one more element,
\* holds of every sequence.
LEMMA SeqInduction ==
    ASSUME NEW S, NEW T, <<>> \in T, \A s \in Seq(S), x \in S : s \in T => Append(s, x) \in T
    PROVE  \A s \in Seq(S) : s \in T
<1> SUFFICES ASSUME NEW s \in Seq(S) PROVE s \in T
  OBVIOUS
<1> DEFINE U == {i \in 0 .. Len(s) : SubSeq(s, 1, i) \in T}
<1>1. Len(s) \in Nat /\ \A i \in 1 .. Len(s) : s[i] \in S
  BY LenProperties, ElementOfSeq
<1>2. 0 \in U
  <2>1. SubSeq(s, 1, 0) = <<>>
    BY SubSeqEmpty
  <2>2. 0 \in 0 .. Len(s)
    BY <1>1
  <2>3. SubSeq(s, 1, 0) \in T
    BY <2>1, Zenon
  <2> QED BY <2>2, <2>3
<1>3. ASSUME NEW i \in 1 .. Len(s), i - 1 \in U PROVE i \in U
  <2>1. SubSeq(s, 1, i) = SubSeq(s, 1, i - 1) \o <<s[i]>>
    BY <1>1, SubSeqRecursiveSecond
  <2>2. SubSeq(s, 1, i - 1) \in Seq(S) /\ s[i] \in S
    BY <1>1, SubSeqProperties
  <2>3. Append(SubSeq(s, 1, i - 1), s[i]) = SubSeq(s, 1, i - 1) \o <<s[i]>>
    BY <2>2, AppendIsConcat
  <2>4. Append(SubSeq(s, 1, i - 1), s[i]) \in T
    BY <1>3, <2>2
  <2>5. SubSeq(s, 1, i) \in T /\ i \in 0 .. Len(s)
    <3>1. i \in 0 .. Len(s)
      BY <1>1
    <3> QED BY <2>1, <2>3, <2>4, <3>1, Zenon
  <2> QED BY <2>5
<1>4. Len(s) \in U
  <2> HIDE DEF U
  <2>1. \A i \in 0 .. Len(s) : i \in U
    BY <1>1, <1>2, <1>3, UpTo
  <2> QED BY <1>1, <2>1
<1> QED
  <2>1. SubSeq(s, 1, Len(s)) \in T
    BY <1>4
  <2>2. SubSeq(s, 1, Len(s)) = s
    BY SubSeqFull
  <2> QED BY <2>1, <2>2, Zenon

\* o is s without what is not in keep: g says where its elements come from.
Picks(g, s, keep, o) ==
    /\ g \in [1 .. Len(o) -> 1 .. Len(s)]
    /\ \A i, j \in 1 .. Len(o) : i < j => g[i] < g[j]
    /\ \A i \in 1 .. Len(o) : o[i] = s[g[i]] /\ o[i] \in keep
    /\ \A k \in 1 .. Len(s) : s[k] \in keep => \E i \in 1 .. Len(o) : g[i] = k

PickedFrom(s, keep, o) == \E g : Picks(g, s, keep, o)

LEMMA PickMore ==
    ASSUME NEW S, NEW s \in Seq(S), NEW keep, NEW o \in Seq(S), PickedFrom(s, keep, o), NEW x \in S
    PROVE  PickedFrom(Append(s, x), keep, IF x \in keep THEN Append(o, x) ELSE o)
<1> DEFINE t == Append(s, x)
<1>1. /\ Len(t) = Len(s) + 1 /\ Len(s) \in Nat /\ Len(o) \in Nat
      /\ t[Len(s) + 1] = x /\ \A i \in 1 .. Len(s) : t[i] = s[i]
  BY AppendProperties, LenProperties
<1> HIDE DEF t
<1>2. PICK g : Picks(g, s, keep, o)
  BY DEF PickedFrom
<1>3. CASE x \notin keep
  <2>1. g \in [1 .. Len(o) -> 1 .. Len(s)] /\ \A i \in 1 .. Len(o) : g[i] \in 1 .. Len(s)
    BY <1>2 DEF Picks
  <2>2. g \in [1 .. Len(o) -> 1 .. Len(t)]
    <3>1. 1 .. Len(s) \subseteq 1 .. Len(t)
      BY <1>1
    <3> QED BY <2>1, <3>1
  <2>3. \A i \in 1 .. Len(o) : o[i] = t[g[i]] /\ o[i] \in keep
    BY <1>1, <1>2, <2>1 DEF Picks
  <2>4. ASSUME NEW k \in 1 .. Len(t), t[k] \in keep PROVE \E i \in 1 .. Len(o) : g[i] = k
    <3>1. k # Len(s) + 1
      BY <1>1, <1>3, <2>4
    <3>2. k \in 1 .. Len(s) /\ s[k] \in keep
      BY <1>1, <2>4, <3>1
    <3> QED BY <1>2, <3>2 DEF Picks
  <2>5. Picks(g, t, keep, o)
    BY <1>2, <2>2, <2>3, <2>4 DEF Picks
  <2> QED BY <1>3, <2>5 DEF PickedFrom, t
<1>4. CASE x \in keep
  <2> DEFINE u == Append(o, x)
             h == [i \in 1 .. Len(o) + 1 |-> IF i = Len(o) + 1 THEN Len(s) + 1 ELSE g[i]]
  <2>1. Len(u) = Len(o) + 1 /\ u[Len(o) + 1] = x /\ \A i \in 1 .. Len(o) : u[i] = o[i]
    BY AppendProperties
  <2> HIDE DEF u
  <2>2. \A i \in 1 .. Len(o) : h[i] = g[i] /\ g[i] \in 1 .. Len(s)
    BY <1>1, <1>2 DEF Picks
  <2>3. h[Len(o) + 1] = Len(s) + 1
    BY <1>1
  <2>4. h \in [1 .. Len(u) -> 1 .. Len(t)]
    <3>1. ASSUME NEW i \in 1 .. Len(o) + 1 PROVE h[i] \in 1 .. Len(t)
      <4>1. CASE i = Len(o) + 1
        BY <1>1, <2>3, <4>1
      <4>2. CASE i \in 1 .. Len(o)
        <5> HIDE DEF h
        <5> QED BY <1>1, <2>2, <4>2
      <4> QED BY <1>1, <4>1, <4>2
    <3> QED BY <2>1, <3>1
  <2> HIDE DEF h
  <2>5. \A i \in 1 .. Len(u) : i \in 1 .. Len(o) \/ i = Len(o) + 1
    BY <1>1, <2>1
  <2>6. \A i, j \in 1 .. Len(u) : i < j => h[i] < h[j]
    <3> SUFFICES ASSUME NEW i \in 1 .. Len(u), NEW j \in 1 .. Len(u), i < j PROVE h[i] < h[j]
      OBVIOUS
    <3>1. i \in 1 .. Len(o)
      BY <1>1, <2>1
    <3>2. CASE j \in 1 .. Len(o)
      <4>1. g[i] < g[j]
        BY <1>2, <3>1, <3>2 DEF Picks
      <4> QED BY <2>2, <3>1, <3>2, <4>1
    <3>3. CASE j = Len(o) + 1
      <4>1. h[i] \in 1 .. Len(s)
        BY <2>2, <3>1
      <4> QED BY <1>1, <2>3, <3>3, <4>1
    <3> QED BY <2>5, <3>2, <3>3
  <2>7. \A i \in 1 .. Len(u) : u[i] = t[h[i]] /\ u[i] \in keep
    <3>1. u[Len(o) + 1] = t[h[Len(o) + 1]] /\ u[Len(o) + 1] \in keep
      BY <1>1, <1>4, <2>1, <2>3
    <3>2. ASSUME NEW i \in 1 .. Len(o) PROVE u[i] = t[h[i]] /\ u[i] \in keep
      <4>1. o[i] = s[g[i]] /\ o[i] \in keep
        BY <1>2 DEF Picks
      <4>2. t[g[i]] = s[g[i]] /\ h[i] = g[i] /\ u[i] = o[i]
        BY <1>1, <2>1, <2>2
      <4> QED BY <4>1, <4>2
    <3> QED BY <2>5, <3>1, <3>2
  <2>8. ASSUME NEW k \in 1 .. Len(t), t[k] \in keep PROVE \E i \in 1 .. Len(u) : h[i] = k
    <3>1. CASE k \in 1 .. Len(s)
      <4>1. PICK i \in 1 .. Len(o) : g[i] = k
        BY <1>1, <1>2, <2>8, <3>1 DEF Picks
      <4> QED BY <1>1, <2>1, <2>2, <4>1
    <3>2. CASE k = Len(s) + 1
      BY <1>1, <2>1, <2>3, <3>2
    <3> QED BY <1>1, <3>1, <3>2
  <2>9. Picks(h, t, keep, u)
    BY <2>4, <2>6, <2>7, <2>8 DEF Picks
  <2> QED BY <1>4, <2>9 DEF PickedFrom, t, u
<1> QED BY <1>3, <1>4

\* Only keeps the elements of keep, all of them, in order, at the places they come from.
LEMMA OnlyPicks ==
    ASSUME NEW S, NEW s \in Seq(S), NEW keep
    PROVE  Only(s, keep) \in Seq(S) /\ PickedFrom(s, keep, Only(s, keep))
<1> DEFINE T == {r \in Seq(S) : Only(r, keep) \in Seq(S) /\ PickedFrom(r, keep, Only(r, keep))}
<1>1. <<>> \in T
  <2>1. <<>> \in Seq(S) /\ Only(<<>>, keep) = <<>>
    BY EmptySeq, OnlyEmpty
  <2>2. Picks(<<>>, <<>>, keep, <<>>)
    BY DEF Picks
  <2>3. PickedFrom(<<>>, keep, Only(<<>>, keep))
    BY <2>1, <2>2, Zenon DEF PickedFrom
  <2> QED BY <2>1, <2>3, Zenon
<1>2. ASSUME NEW r \in Seq(S), NEW x \in S, r \in T PROVE Append(r, x) \in T
  <2>1. Only(r, keep) \in Seq(S) /\ PickedFrom(r, keep, Only(r, keep))
    BY <1>2, Zenon
  <2>2. Append(r, x) \in Seq(S)
    BY AppendProperties
  <2>3. Only(Append(r, x), keep) = IF x \in keep THEN Append(Only(r, keep), x) ELSE Only(r, keep)
    BY OnlyOfAppend
  <2>4. PickedFrom(Append(r, x), keep, Only(Append(r, x), keep))
    BY <2>1, <2>3, PickMore
  <2>5. Only(Append(r, x), keep) \in Seq(S)
    <3>1. Append(Only(r, keep), x) \in Seq(S)
      BY <2>1, AppendProperties
    <3> QED BY <2>1, <2>3, <3>1
  <2> QED BY <2>2, <2>4, <2>5, Zenon
<1>3. s \in T
  <2> HIDE DEF T
  <2> QED BY <1>1, <1>2, SeqInduction
<1> QED BY <1>3, Zenon

\* A keeping of a keeping keeps what both keep.
LEMMA PicksOfPicks ==
    ASSUME NEW S, NEW s \in Seq(S), NEW o \in Seq(S), NEW u \in Seq(S), NEW A, NEW B,
           PickedFrom(s, A, o), PickedFrom(o, B, u)
    PROVE  PickedFrom(s, A \cap B, u)
<1>1. PICK g : Picks(g, s, A, o)
  BY DEF PickedFrom
<1>2. PICK h : Picks(h, o, B, u)
  BY DEF PickedFrom
<1> DEFINE f == [i \in 1 .. Len(u) |-> g[h[i]]]
<1>3. Len(s) \in Nat /\ Len(o) \in Nat /\ Len(u) \in Nat
  BY LenProperties
<1>4. \A i \in 1 .. Len(u) : h[i] \in 1 .. Len(o) /\ g[h[i]] \in 1 .. Len(s) /\ f[i] = g[h[i]]
  BY <1>1, <1>2 DEF Picks
<1>5. f \in [1 .. Len(u) -> 1 .. Len(s)]
  BY <1>4
<1> HIDE DEF f
<1>6. \A i, j \in 1 .. Len(u) : i < j => f[i] < f[j]
  BY <1>1, <1>2, <1>4 DEF Picks
<1>7. \A i \in 1 .. Len(u) : u[i] = s[f[i]] /\ u[i] \in A \cap B
  <2> SUFFICES ASSUME NEW i \in 1 .. Len(u) PROVE u[i] = s[f[i]] /\ u[i] \in A \cap B
    OBVIOUS
  <2>1. u[i] = o[h[i]] /\ u[i] \in B
    BY <1>2 DEF Picks
  <2>2. h[i] \in 1 .. Len(o) /\ f[i] = g[h[i]]
    BY <1>4
  <2>3. o[h[i]] = s[g[h[i]]] /\ o[h[i]] \in A
    BY <1>1, <2>2 DEF Picks
  <2> QED BY <2>1, <2>2, <2>3
<1>8. ASSUME NEW k \in 1 .. Len(s), s[k] \in A \cap B PROVE \E i \in 1 .. Len(u) : f[i] = k
  <2>1. PICK j \in 1 .. Len(o) : g[j] = k
    BY <1>1, <1>8 DEF Picks
  <2>2. o[j] \in B
    BY <1>1, <1>8, <2>1 DEF Picks
  <2>3. PICK i \in 1 .. Len(u) : h[i] = j
    BY <1>2, <2>2 DEF Picks
  <2> QED BY <1>4, <2>1, <2>3
<1>9. Picks(f, s, A \cap B, u)
  BY <1>5, <1>6, <1>7, <1>8 DEF Picks
<1> QED BY <1>9 DEF PickedFrom

LEMMA OnlyRange ==
    ASSUME NEW S, NEW s \in Seq(S), NEW keep
    PROVE  Range(Only(s, keep)) = Range(s) \cap keep
<1> DEFINE o == Only(s, keep)
<1>1. o \in Seq(S) /\ PickedFrom(s, keep, o)
  BY OnlyPicks
<1> HIDE DEF o
<1>2. PICK g : Picks(g, s, keep, o)
  BY <1>1 DEF PickedFrom
<1>3. Range(o) = {o[i] : i \in 1 .. Len(o)} /\ Range(s) = {s[i] : i \in 1 .. Len(s)}
  BY <1>1, RangeEquality
<1>4. ASSUME NEW x \in Range(o) PROVE x \in Range(s) \cap keep
  <2>1. PICK i \in 1 .. Len(o) : o[i] = x
    BY <1>3
  <2> QED BY <1>2, <1>3, <2>1 DEF Picks
<1>5. ASSUME NEW x \in Range(s) \cap keep PROVE x \in Range(o)
  <2>1. PICK k \in 1 .. Len(s) : s[k] = x
    BY <1>3
  <2> QED BY <1>2, <1>3, <2>1 DEF Picks
<1> QED BY <1>4, <1>5 DEF o

LEMMA RangeEmpty ==
    ASSUME NEW S, NEW s \in Seq(S)
    PROVE  s = <<>> <=> Range(s) = {}
<1>1. Range(s) = {s[i] : i \in 1 .. Len(s)}
  BY RangeEquality
<1>2. s # <<>> => Len(s) \in Nat \ {0}
  BY EmptySeq
<1>3. s = <<>> => Len(s) = 0
  BY EmptySeq
<1>4. s # <<>> => 1 \in 1 .. Len(s)
  BY <1>2
<1>5. s = <<>> => Range(s) = {}
  BY <1>1, <1>3
<1>6. s # <<>> => Range(s) # {}
  BY <1>1, <1>4
<1> QED BY <1>5, <1>6

LEMMA Written ==
    ASSUME NEW n \in Nat, NEW S, NEW f, f \in [1 .. n -> S]
    PROVE  f \in Seq(S) /\ Len(f) = n
<1>1. f \in Seq(S)
  BY SeqDef
<1> QED BY <1>1, LenProperties

\* A sequence of a set's elements has each of them once.
LEMMA SetToSeqIs ==
    ASSUME NEW S, IsFiniteSet(S)
    PROVE  /\ SetToSeq(S) \in Seq(S)
           /\ \A x \in S : \E i \in 1 .. Len(SetToSeq(S)) : SetToSeq(S)[i] = x
           /\ \A i, j \in 1 .. Len(SetToSeq(S)) : SetToSeq(S)[i] = SetToSeq(S)[j] => i = j
<1> DEFINE n == Cardinality(S)
           q == SetToSeq(S)
<1>1. n \in Nat /\ ExistsBijection(1 .. n, S)
  BY FS_CardinalityType
<1>2. \E f \in [1 .. n -> S] : IsInjective(f)
  BY <1>1 DEF ExistsBijection, Bijection, Injection
<1>3. q \in [1 .. n -> S] /\ IsInjective(q)
  BY <1>2, Zenon DEF SetToSeq
<1>4. IsFiniteSet(1 .. n) /\ Cardinality(1 .. n) = n
  BY <1>1, FS_Interval
<1> HIDE DEF q, n
<1>5. q \in Injection(1 .. n, S)
  BY <1>3 DEF Injection
<1>6. q \in Surjection(1 .. n, S)
  BY <1>4, <1>5, FS_Injection DEF n
<1>7. q \in Seq(S) /\ Len(q) = n
  BY <1>1, <1>3, Written
<1>8. \A i, j \in 1 .. n : q[i] = q[j] => i = j
  BY <1>3 DEF IsInjective
<1> QED BY <1>6, <1>7, <1>8 DEF Surjection, q

-----------------------------------------------------------------------------
(* bind *)

NameOf(reason) == <<reason.in, reason.field>>

LEMMA NameOfReason == ASSUME NEW code, NEW in, NEW field PROVE NameOf(Reason(code, in, field)) = <<in, field>>
BY DEF NameOf, Reason

\* A list of reasons that names the inputs of K, and no others.
Tells(rs, K) ==
    /\ rs \in Seq(Range(rs))
    /\ \A i \in 1 .. Len(rs) : NameOf(rs[i]) \in K
    /\ \A k \in K : \E i \in 1 .. Len(rs) : NameOf(rs[i]) = k

NoneTwice(rs) == \A i, j \in 1 .. Len(rs) : NameOf(rs[i]) = NameOf(rs[j]) => i = j

LEMMA TellsNothing == Tells(<<>>, {}) /\ NoneTwice(<<>>)
<1>1. <<>> \in Seq(Range(<<>>)) /\ Len(<<>>) = 0
  BY EmptySeq
<1> QED BY <1>1 DEF Tells, NoneTwice

LEMMA TellsOne == ASSUME NEW x PROVE Tells(<<x>>, {NameOf(x)}) /\ NoneTwice(<<x>>)
<1> DEFINE one == <<x>>
<1>1. one \in Seq({x}) /\ Len(one) = 1 /\ one[1] = x
  OBVIOUS
<1> HIDE DEF one
<1>2. one \in Seq(Range(one))
  BY <1>1, SeqOfRange
<1>3. \A i \in 1 .. Len(one) : i = 1
  BY <1>1
<1>4. 1 \in 1 .. Len(one)
  BY <1>1
<1>5. Tells(one, {NameOf(x)})
  BY <1>1, <1>2, <1>3, <1>4 DEF Tells
<1>6. NoneTwice(one)
  BY <1>3 DEF NoneTwice
<1> QED BY <1>5, <1>6 DEF one

LEMMA TellsConcat ==
    ASSUME NEW a, NEW A, NEW b, NEW B, Tells(a, A), Tells(b, B)
    PROVE  /\ Tells(a \o b, A \cup B)
           /\ NoneTwice(a) /\ NoneTwice(b) /\ A \cap B = {} => NoneTwice(a \o b)
<1> DEFINE S == Range(a) \cup Range(b)
           c == a \o b
<1>1. a \in Seq(S) /\ b \in Seq(S)
  BY SeqMonotonic DEF Tells
<1>2. /\ c \in Seq(S) /\ Len(c) = Len(a) + Len(b)
      /\ \A i \in 1 .. Len(a) + Len(b) : c[i] = IF i <= Len(a) THEN a[i] ELSE b[i - Len(a)]
  <2> HIDE DEF S
  <2> QED BY <1>1, ConcatProperties
<1>3. c \in Seq(Range(c)) /\ Len(a) \in Nat /\ Len(b) \in Nat
  <2> HIDE DEF S, c
  <2> QED BY <1>1, <1>2, SeqOfRange, LenProperties
<1> HIDE DEF S, c
<1>4. \A i \in 1 .. Len(a) : i \in 1 .. Len(c) /\ c[i] = a[i]
  BY <1>2, <1>3
<1>5. ASSUME NEW i \in 1 .. Len(b) PROVE Len(a) + i \in 1 .. Len(c) /\ c[Len(a) + i] = b[i]
  <2>1. /\ Len(a) + i \in 1 .. Len(a) + Len(b)
        /\ ~(Len(a) + i <= Len(a)) /\ (Len(a) + i) - Len(a) = i
    BY <1>3
  <2> QED BY <1>2, <2>1
<1>6. \A i \in 1 .. Len(c) : i \in 1 .. Len(a) \/ (i - Len(a) \in 1 .. Len(b) /\ c[i] = b[i - Len(a)])
  BY <1>2, <1>3
<1>7. ASSUME NEW i \in 1 .. Len(c) PROVE NameOf(c[i]) \in A \cup B
  BY <1>4, <1>6 DEF Tells
<1>8. ASSUME NEW k \in A \cup B PROVE \E i \in 1 .. Len(c) : NameOf(c[i]) = k
  <2>1. CASE k \in A
    BY <1>4, <2>1 DEF Tells
  <2>2. CASE k \in B
    <3>1. PICK i \in 1 .. Len(b) : NameOf(b[i]) = k
      BY <2>2 DEF Tells
    <3> QED BY <1>5, <3>1
  <2> QED BY <2>1, <2>2
<1>9. ASSUME NoneTwice(a), NoneTwice(b), A \cap B = {},
             NEW i \in 1 .. Len(c), NEW j \in 1 .. Len(c), NameOf(c[i]) = NameOf(c[j])
      PROVE  i = j
  <2>1. CASE i \in 1 .. Len(a) /\ j \in 1 .. Len(a)
    BY <1>4, <1>9, <2>1 DEF NoneTwice
  <2>2. CASE i \notin 1 .. Len(a) /\ j \notin 1 .. Len(a)
    <3>1. i - Len(a) = j - Len(a)
      BY <1>6, <1>9, <2>2 DEF NoneTwice
    <3> QED BY <1>3, <3>1
  <2>3. CASE i \in 1 .. Len(a) /\ j \notin 1 .. Len(a)
    BY <1>4, <1>6, <1>9, <2>3 DEF Tells
  <2>4. CASE i \notin 1 .. Len(a) /\ j \in 1 .. Len(a)
    BY <1>4, <1>6, <1>9, <2>4 DEF Tells
  <2> QED BY <2>1, <2>2, <2>3, <2>4
<1> QED BY <1>3, <1>7, <1>8, <1>9 DEF Tells, NoneTwice, c

\* One reason for each of the fields of F in D.
LEMMA TellsFields ==
    ASSUME NEW S, NEW F \in Seq(S), NEW D, NEW bad \in Seq(S), PickedFrom(F, D, bad),
           NEW in, NEW rs, rs \in Seq(Range(rs)), Len(rs) = Len(bad),
           \A i \in 1 .. Len(bad) : NameOf(rs[i]) = <<in, bad[i].key>>
    PROVE  /\ Tells(rs, {<<in, f.key>> : f \in Range(F) \cap D})
           /\ (\A i, j \in 1 .. Len(F) : F[i] \in D /\ F[j] \in D /\ F[i].key = F[j].key => i = j)
                  => NoneTwice(rs)
<1>1. PICK g : Picks(g, F, D, bad)
  BY DEF PickedFrom
<1>2. Len(bad) \in Nat /\ Range(F) = {F[i] : i \in 1 .. Len(F)}
  BY LenProperties, RangeEquality
<1>3. \A i \in 1 .. Len(bad) : g[i] \in 1 .. Len(F) /\ bad[i] = F[g[i]] /\ F[g[i]] \in D
  BY <1>1 DEF Picks
<1>4. ASSUME NEW i \in 1 .. Len(rs) PROVE NameOf(rs[i]) \in {<<in, f.key>> : f \in Range(F) \cap D}
  <2>1. bad[i] = F[g[i]] /\ g[i] \in 1 .. Len(F) /\ F[g[i]] \in D /\ NameOf(rs[i]) = <<in, bad[i].key>>
    BY <1>3
  <2>2. bad[i] \in Range(F) \cap D
    BY <1>2, <2>1
  <2> QED BY <2>1, <2>2
<1>5. ASSUME NEW f \in Range(F) \cap D PROVE \E i \in 1 .. Len(rs) : NameOf(rs[i]) = <<in, f.key>>
  <2>1. PICK k \in 1 .. Len(F) : F[k] = f
    BY <1>2
  <2>2. PICK i \in 1 .. Len(bad) : g[i] = k
    BY <1>1, <2>1 DEF Picks
  <2> QED BY <1>3, <2>1, <2>2
<1>6. ASSUME \A i, j \in 1 .. Len(F) : F[i] \in D /\ F[j] \in D /\ F[i].key = F[j].key => i = j,
             NEW i \in 1 .. Len(rs), NEW j \in 1 .. Len(rs), NameOf(rs[i]) = NameOf(rs[j])
      PROVE  i = j
  <2>1. F[g[i]].key = F[g[j]].key
    BY <1>3, <1>6
  <2>2. g[i] = g[j]
    BY <1>3, <1>6, <2>1
  <2>3. g[i] \in Nat /\ g[j] \in Nat /\ i \in Nat /\ j \in Nat
    BY <1>2, <1>3
  <2> QED BY <1>1, <2>2, <2>3 DEF Picks
<1> QED BY <1>4, <1>5, <1>6 DEF Tells, NoneTwice

\* The reasons of the fields of F that are in one place and bad, which keeping
\* the fields of that place first and the bad ones then makes.
LEMMA BadFields ==
    ASSUME NEW S, NEW F \in Seq(S), NEW A, NEW B, NEW D,
           \A f \in Range(F) : f \in D <=> f \in A /\ (f \in Range(Only(F, A)) => f \in B),
           D \subseteq Range(F), B \subseteq Range(Only(F, A))
    PROVE  LET bad == Only(Only(F, A), B)
           IN  bad \in Seq(S) /\ PickedFrom(F, D, bad)
<1> DEFINE o == Only(F, A)
           bad == Only(o, B)
<1>1. o \in Seq(S) /\ PickedFrom(F, A, o) /\ Range(o) = Range(F) \cap A
  BY OnlyPicks, OnlyRange
<1>2. bad \in Seq(S) /\ PickedFrom(o, B, bad)
  <2> HIDE DEF o
  <2> QED BY <1>1, OnlyPicks
<1>3. PickedFrom(F, A \cap B, bad)
  <2> HIDE DEF o, bad
  <2> QED BY <1>1, <1>2, PicksOfPicks
<1>4. A \cap B = D
  <2>1. B \subseteq Range(F) \cap A
    BY <1>1
  <2>2. \A f \in Range(F) : f \in D <=> f \in A /\ f \in B
    BY <1>1
  <2> QED BY <2>1, <2>2
<1> QED BY <1>2, <1>3, <1>4

IsType(T) ==
    /\ T.fields \in Seq(Range(T.fields))
    /\ T.shape = "empty" => T.fields = <<>>

BadParam(T, in, values) ==
    {f \in Range(T.fields) :
        f.in = in /\ f.key \in DOMAIN values /\ values[f.key] # "" /\ ~Takes(f.kind, values[f.key])}

LEMMA ParamsTold ==
    ASSUME NEW T, IsType(T), NEW in, NEW values
    PROVE  LET rs == ParamReasons(FieldsIn(T, in), in, values)
           IN  /\ Tells(rs, {<<in, k>> : k \in BadParams(T, in, values)})
               /\ KeysOnce(T) => NoneTwice(rs)
<1> DEFINE F == T.fields
           A == {f \in Range(F) : f.in = in}
           o == Only(F, A)
           B == {f \in Range(o) : At(values, f.key, "") # "" /\ ~Takes(f.kind, At(values, f.key, ""))}
           bad == Only(o, B)
           D == BadParam(T, in, values)
           rs == ParamReasons(FieldsIn(T, in), in, values)
<1>1. F \in Seq(Range(F))
  BY DEF IsType
<1>2. rs = [i \in DOMAIN bad |-> Reason("invalid", in, bad[i].key)]
  BY DEF ParamReasons, FieldsIn
<1>3. \A f \in Range(F) : f \in D <=> f \in A /\ (f \in Range(o) => f \in B)
  <2>1. Range(o) = Range(F) \cap A
    BY <1>1, OnlyRange
  <2> HIDE DEF o
  <2> QED BY <2>1 DEF BadParam, At
<1>4. D \subseteq Range(F) /\ B \subseteq Range(o)
  BY DEF BadParam
<1>5. bad \in Seq(Range(F)) /\ PickedFrom(F, D, bad)
  <2> HIDE DEF B, D, A, F
  <2> QED BY <1>1, <1>3, <1>4, BadFields
<1> HIDE DEF bad, rs
<1>6. Len(bad) \in Nat /\ DOMAIN bad = 1 .. Len(bad)
  BY <1>5, LenProperties
<1>7. rs \in Seq(Range(rs)) /\ Len(rs) = Len(bad) /\ \A i \in 1 .. Len(bad) : rs[i] = Reason("invalid", in, bad[i].key)
  <2>1. rs \in [1 .. Len(bad) -> Range(rs)]
    BY <1>2, <1>6 DEF Range
  <2>2. rs \in Seq(Range(rs)) /\ Len(rs) = Len(bad)
    BY <1>6, <2>1, Written
  <2> QED BY <1>2, <1>6, <2>2
<1>8. ASSUME NEW i \in 1 .. Len(bad) PROVE NameOf(rs[i]) = <<in, bad[i].key>>
  <2>1. NameOf(Reason("invalid", in, bad[i].key)) = <<in, bad[i].key>>
    BY NameOfReason
  <2> QED BY <1>7, <2>1
<1> HIDE DEF F, D
<1>9. /\ Tells(rs, {<<in, f.key>> : f \in Range(F) \cap D})
      /\ (\A i, j \in 1 .. Len(F) : F[i] \in D /\ F[j] \in D /\ F[i].key = F[j].key => i = j)
             => NoneTwice(rs)
  <2>1. PICK S : S = Range(F)
    OBVIOUS
  <2>2. F \in Seq(S) /\ bad \in Seq(S)
    BY <1>1, <1>5, <2>1
  <2>3. PickedFrom(F, D, bad) /\ rs \in Seq(Range(rs)) /\ Len(rs) = Len(bad)
    BY <1>5, <1>7
  <2> QED BY <1>8, <2>2, <2>3, TellsFields
<1>10. {<<in, f.key>> : f \in Range(F) \cap D} = {<<in, k>> : k \in BadParams(T, in, values)}
  BY DEF F, D, BadParam, BadParams
<1>11. KeysOnce(T) => \A i, j \in 1 .. Len(F) : F[i] \in D /\ F[j] \in D /\ F[i].key = F[j].key => i = j
  <2>1. DOMAIN F = 1 .. Len(F)
    BY <1>1, LenProperties
  <2> QED BY <2>1 DEF F, D, BadParam, KeysOnce
<1> QED BY <1>9, <1>10, <1>11 DEF rs

\* The values of the body that are of a wrong type, and the keys that are no field's.
WrongValue(T, body) ==
    {f \in Range(T.fields) : f.in = "json" /\ f.key \in DOMAIN body /\ Unmarshals(f.kind, body[f.key]) # "ok"}

Unclaimed(T, body) ==
    IF \E f \in Range(T.fields) : f.in = "lenient" THEN {} ELSE DOMAIN body \ {f.key : f \in JsonFields(T)}

LEMMA BodyFields ==
    ASSUME NEW T, IsType(T)
    PROVE  /\ Range(FieldsIn(T, "json")) = JsonFields(T)
           /\ FieldsIn(T, "json") \in Seq(Range(T.fields))
           /\ FieldsIn(T, "json") = <<>> <=> JsonFields(T) = {}
           /\ FieldsIn(T, "lenient") # <<>> <=> \E f \in Range(T.fields) : f.in = "lenient"
<1>1. T.fields \in Seq(Range(T.fields))
  BY DEF IsType
<1>2. ASSUME NEW in
      PROVE  /\ FieldsIn(T, in) \in Seq(Range(T.fields))
             /\ Range(FieldsIn(T, in)) = {f \in Range(T.fields) : f.in = in}
             /\ FieldsIn(T, in) = <<>> <=> Range(FieldsIn(T, in)) = {}
  <2> DEFINE A == {f \in Range(T.fields) : f.in = in}
  <2>1. FieldsIn(T, in) = Only(T.fields, A)
    BY DEF FieldsIn
  <2>2. A \subseteq Range(T.fields)
    OBVIOUS
  <2> HIDE DEF A
  <2>3. Only(T.fields, A) \in Seq(Range(T.fields)) /\ Range(Only(T.fields, A)) = Range(T.fields) \cap A
    BY <1>1, OnlyPicks, OnlyRange
  <2>4. Only(T.fields, A) = <<>> <=> Range(Only(T.fields, A)) = {}
    BY <2>3, RangeEmpty
  <2> QED BY <2>1, <2>2, <2>3, <2>4 DEF A
<1> QED BY <1>2 DEF JsonFields

LEMMA UnknownKeysTold ==
    ASSUME NEW T, IsType(T), NEW body, IsFiniteSet(DOMAIN body), NEW b, b.body = FieldsIn(T, "json")
    PROVE  LET rs == UnknownKeyReasons(b, body)
           IN  /\ Tells(rs, {<<"body", k>> : k \in DOMAIN body \ {f.key : f \in JsonFields(T)}})
               /\ NoneTwice(rs)
<1> DEFINE K == DOMAIN body \ {b.body[i].key : i \in DOMAIN b.body}
           q == SetToSeq(K)
           rs == UnknownKeyReasons(b, body)
<1>1. K = DOMAIN body \ {f.key : f \in JsonFields(T)}
  <2>1. {b.body[i].key : i \in DOMAIN b.body} = {f.key : f \in Range(b.body)}
    BY DEF Range
  <2> QED BY <2>1, BodyFields
<1>2. IsFiniteSet(K)
  BY FS_Subset
<1>3. rs = [i \in DOMAIN q |-> Reason("unknown_field", "body", q[i])]
  BY DEF UnknownKeyReasons
<1> HIDE DEF K, rs
<1>4. /\ q \in Seq(K) /\ \A x \in K : \E i \in 1 .. Len(q) : q[i] = x
      /\ \A i, j \in 1 .. Len(q) : q[i] = q[j] => i = j
  BY <1>2, SetToSeqIs
<1> HIDE DEF q
<1>5. Len(q) \in Nat /\ DOMAIN q = 1 .. Len(q) /\ \A i \in 1 .. Len(q) : q[i] \in K
  BY <1>4, LenProperties, ElementOfSeq
<1>6. rs \in Seq(Range(rs)) /\ Len(rs) = Len(q)
  <2>1. rs \in [1 .. Len(q) -> Range(rs)]
    BY <1>3, <1>5 DEF Range
  <2> QED BY <1>5, <2>1, Written
<1>7. ASSUME NEW i \in 1 .. Len(q) PROVE NameOf(rs[i]) = <<"body", q[i]>>
  <2>1. NameOf(Reason("unknown_field", "body", q[i])) = <<"body", q[i]>>
    BY NameOfReason
  <2> QED BY <1>3, <1>5, <2>1
<1>8. Tells(rs, {<<"body", k>> : k \in K})
  <2> DEFINE names == {<<"body", k>> : k \in K}
  <2>1. \A i \in 1 .. Len(rs) : NameOf(rs[i]) \in names
    BY <1>5, <1>6, <1>7
  <2>2. \A n \in names : \E i \in 1 .. Len(rs) : NameOf(rs[i]) = n
    <3> TAKE n \in names
    <3>1. PICK k \in K : n = <<"body", k>>
      OBVIOUS
    <3>2. PICK i \in 1 .. Len(q) : q[i] = k
      BY <1>4
    <3> QED BY <1>6, <1>7, <3>1, <3>2
  <2> HIDE DEF names
  <2>3. Tells(rs, names)
    BY <1>6, <2>1, <2>2 DEF Tells
  <2> QED BY <2>3 DEF names
<1>9. NoneTwice(rs)
  BY <1>4, <1>6, <1>7 DEF NoneTwice
<1> QED BY <1>1, <1>8, <1>9 DEF rs

\* The first part of BodyReasons: a reason for each field whose value is wrong.
WrongValueReasons(b, body) ==
    LET bad == Only(b.body, {f \in Range(b.body) :
                   f.key \in DOMAIN body /\ Unmarshals(f.kind, body[f.key]) # "ok"})
    IN  [i \in DOMAIN bad |-> Reason(Unmarshals(bad[i].kind, body[bad[i].key]), "body", bad[i].key)]

LEMMA WrongValuesTold ==
    ASSUME NEW T, IsType(T), NEW body, NEW b, b.body = FieldsIn(T, "json")
    PROVE  /\ Tells(WrongValueReasons(b, body), {<<"body", f.key>> : f \in WrongValue(T, body)})
           /\ KeysOnce(T) => NoneTwice(WrongValueReasons(b, body))
<1> DEFINE F == T.fields
           A == {f \in Range(F) : f.in = "json"}
           o == Only(F, A)
           B == {f \in Range(o) : f.key \in DOMAIN body /\ Unmarshals(f.kind, body[f.key]) # "ok"}
           D == WrongValue(T, body)
           bad == Only(b.body, {f \in Range(b.body) :
                         f.key \in DOMAIN body /\ Unmarshals(f.kind, body[f.key]) # "ok"})
           rs == [i \in DOMAIN bad |-> Reason(Unmarshals(bad[i].kind, body[bad[i].key]), "body", bad[i].key)]
<1>1. F \in Seq(Range(F))
  BY DEF IsType
<1>2. bad = Only(o, B)
  BY DEF FieldsIn
<1>3. \A f \in Range(F) : f \in D <=> f \in A /\ (f \in Range(o) => f \in B)
  <2>1. Range(o) = Range(F) \cap A
    BY <1>1, OnlyRange
  <2> HIDE DEF o
  <2> QED BY <2>1 DEF WrongValue
<1>4. D \subseteq Range(F) /\ B \subseteq Range(o)
  BY DEF WrongValue
<1>5. bad \in Seq(Range(F)) /\ PickedFrom(F, D, bad)
  <2> HIDE DEF B, D, A, F, bad
  <2> QED BY <1>1, <1>2, <1>3, <1>4, BadFields
<1> HIDE DEF bad
<1>6. Len(bad) \in Nat /\ DOMAIN bad = 1 .. Len(bad)
  BY <1>5, LenProperties
<1>7. rs \in Seq(Range(rs)) /\ Len(rs) = Len(bad)
  <2>1. DOMAIN rs = 1 .. Len(bad) /\ rs = [i \in 1 .. Len(bad) |-> rs[i]]
    BY <1>6 DEF rs
  <2>2. rs \in [1 .. Len(bad) -> Range(rs)]
    BY <2>1 DEF Range
  <2> QED BY <1>6, <2>2, Written
<1>8. ASSUME NEW i \in 1 .. Len(bad) PROVE NameOf(rs[i]) = <<"body", bad[i].key>>
  <2> DEFINE code == Unmarshals(bad[i].kind, body[bad[i].key])
  <2>1. rs[i] = Reason(code, "body", bad[i].key)
    BY <1>6 DEF rs
  <2>2. NameOf(Reason(code, "body", bad[i].key)) = <<"body", bad[i].key>>
    BY NameOfReason
  <2> HIDE DEF code
  <2> QED BY <2>1, <2>2
<1> HIDE DEF F, D, rs
<1>9. /\ Tells(rs, {<<"body", f.key>> : f \in Range(F) \cap D})
      /\ (\A i, j \in 1 .. Len(F) : F[i] \in D /\ F[j] \in D /\ F[i].key = F[j].key => i = j)
             => NoneTwice(rs)
  <2>1. PICK S : S = Range(F)
    OBVIOUS
  <2>2. F \in Seq(S) /\ bad \in Seq(S)
    BY <1>1, <1>5, <2>1
  <2>3. PickedFrom(F, D, bad) /\ rs \in Seq(Range(rs)) /\ Len(rs) = Len(bad)
    BY <1>5, <1>7
  <2> QED BY <1>8, <2>2, <2>3, TellsFields
<1>10. Range(F) \cap D = WrongValue(T, body)
  BY DEF F, D, WrongValue
<1>11. KeysOnce(T) => \A i, j \in 1 .. Len(F) : F[i] \in D /\ F[j] \in D /\ F[i].key = F[j].key => i = j
  <2>1. DOMAIN F = 1 .. Len(F)
    BY <1>1, LenProperties
  <2> QED BY <2>1 DEF F, D, WrongValue, KeysOnce
<1>12. rs = WrongValueReasons(b, body)
  BY DEF WrongValueReasons, rs, bad
<1> HIDE DEF D
<1> QED BY <1>9, <1>10, <1>11, <1>12

LEMMA BodyTold ==
    ASSUME NEW T, IsType(T), NEW body, IsFiniteSet(DOMAIN body), NEW b, b = BuildBinder(T)
    PROVE  /\ Tells(BodyReasons(b, body), {<<"body", k>> : k \in BadKeys(T, body)})
           /\ KeysOnce(T) => NoneTwice(BodyReasons(b, body))
<1> DEFINE wrong == WrongValueReasons(b, body)
           rest == IF b.lenient THEN <<>> ELSE UnknownKeyReasons(b, body)
           W == {<<"body", f.key>> : f \in WrongValue(T, body)}
           U == {<<"body", k>> : k \in Unclaimed(T, body)}
<1>1. b.body = FieldsIn(T, "json") /\ b.lenient = (FieldsIn(T, "lenient") # <<>>)
  BY DEF BuildBinder
<1>2. BodyReasons(b, body) = wrong \o rest
  BY DEF BodyReasons, WrongValueReasons
<1>3. Tells(wrong, W) /\ (KeysOnce(T) => NoneTwice(wrong))
  BY <1>1, WrongValuesTold
<1>4. Tells(rest, U) /\ NoneTwice(rest)
  <2>1. CASE \E f \in Range(T.fields) : f.in = "lenient"
    <3>1. rest = <<>> /\ U = {}
      BY <1>1, <2>1, BodyFields DEF Unclaimed
    <3> QED BY <3>1, TellsNothing
  <2>2. CASE ~\E f \in Range(T.fields) : f.in = "lenient"
    <3>1. rest = UnknownKeyReasons(b, body)
      BY <1>1, <2>2, BodyFields
    <3>2. U = {<<"body", k>> : k \in DOMAIN body \ {f.key : f \in JsonFields(T)}}
      BY <2>2 DEF Unclaimed
    <3> QED BY <1>1, <3>1, <3>2, UnknownKeysTold
  <2> QED BY <2>1, <2>2
<1>5. W \cup U = {<<"body", k>> : k \in BadKeys(T, body)}
  BY DEF WrongValue, Unclaimed, BadKeys, JsonFields
<1>6. W \cap U = {}
  BY DEF WrongValue, Unclaimed, JsonFields
<1> HIDE DEF wrong, rest, W, U
<1>7. Tells(wrong \o rest, W \cup U) /\ (NoneTwice(wrong) /\ NoneTwice(rest) => NoneTwice(wrong \o rest))
  BY <1>3, <1>4, <1>6, TellsConcat
<1> QED BY <1>2, <1>3, <1>4, <1>5, <1>7

BodyInputs(p, T, r) ==
    IF JsonFields(T) = {} \/ p.decodeBody THEN {}
    ELSE IF r.form = "malformed" THEN {<<"body", "">>}
    ELSE IF r.form = "eof" THEN {}
    ELSE {<<"body", k>> : k \in BadKeys(T, r.body)}

Preempts(err) == err \in {DecodeError, New("unsupported_media_type")}

LEMMA BodyBound ==
    ASSUME NEW T, IsType(T), NEW p, NEW r, IsFiniteSet(DOMAIN r.body), NEW b, b = BuildBinder(T),
           NEW body, body = IF b.body = <<>> THEN [err |-> <<>>, reasons |-> <<>>] ELSE BindBody(p, b, r)
    PROVE  \/ Preempts(body.err)
           \/ /\ body.err = <<>> /\ Tells(body.reasons, BodyInputs(p, T, r))
              /\ KeysOnce(T) => NoneTwice(body.reasons)
<1> DEFINE none == [err |-> <<>>, reasons |-> <<>>]
           blank == <<Reason("malformed", "body", "")>>
<1>1. b.body = <<>> <=> JsonFields(T) = {}
  BY BodyFields DEF BuildBinder
<1>2. Tells(none.reasons, {}) /\ NoneTwice(none.reasons) /\ none.err = <<>>
  BY TellsNothing
<1>3. CASE b.body = <<>>
  BY <1>1, <1>2, <1>3 DEF BodyInputs
<1>4. CASE b.body # <<>> /\ p.decodeBody
  <2>1. CASE r.form = "malformed"
    BY <1>4, <2>1 DEF BindBody, Preempts
  <2>2. CASE r.form # "malformed"
    <3>1. body = none
      BY <1>4, <2>2 DEF BindBody
    <3>2. BodyInputs(p, T, r) = {}
      BY <1>4 DEF BodyInputs
    <3> QED BY <1>2, <3>1, <3>2
  <2> QED BY <2>1, <2>2
<1>5. CASE b.body # <<>> /\ ~p.decodeBody /\ r.ctype \notin {"", "json"}
  BY <1>5 DEF BindBody, Preempts
<1>6. CASE b.body # <<>> /\ ~p.decodeBody /\ r.ctype \in {"", "json"} /\ r.form = "malformed"
  <2>1. body = [err |-> <<>>, reasons |-> blank]
    BY <1>6 DEF BindBody
  <2>2. BodyInputs(p, T, r) = {<<"body", "">>}
    BY <1>1, <1>6 DEF BodyInputs
  <2>3. NameOf(Reason("malformed", "body", "")) = <<"body", "">>
    BY NameOfReason
  <2>4. Tells(blank, {<<"body", "">>}) /\ NoneTwice(blank)
    BY <2>3, TellsOne
  <2> HIDE DEF blank
  <2>5. body.err = <<>> /\ body.reasons = blank
    BY <2>1
  <2> QED BY <2>2, <2>4, <2>5
<1>7. CASE b.body # <<>> /\ ~p.decodeBody /\ r.ctype \in {"", "json"} /\ r.form = "eof"
  <2>1. body = none
    BY <1>7 DEF BindBody
  <2>2. BodyInputs(p, T, r) = {}
    BY <1>7 DEF BodyInputs
  <2> QED BY <1>2, <2>1, <2>2
<1>8. CASE b.body # <<>> /\ ~p.decodeBody /\ r.ctype \in {"", "json"} /\ r.form \notin {"malformed", "eof"}
  <2>1. body.err = <<>> /\ body.reasons = BodyReasons(b, r.body)
    BY <1>8 DEF BindBody
  <2>2. BodyInputs(p, T, r) = {<<"body", k>> : k \in BadKeys(T, r.body)}
    BY <1>1, <1>8 DEF BodyInputs
  <2> QED BY <2>1, <2>2, BodyTold
<1> QED BY <1>3, <1>4, <1>5, <1>6, <1>7, <1>8

\* bind refuses a body it cannot read as a whole; otherwise its error names
\* every bad input, path, query and body, no input that is not bad, and each
\* once when the type has no field twice; and it is nil only for a request
\* without one.  Of any type, any parser and any request.
THEOREM BindNamesEveryBadInput ==
    ASSUME NEW T, IsType(T), NEW p, NEW r, IsFiniteSet(DOMAIN r.body),
           NEW err, err = Bind(p, BuildBinder(T), r)
    PROVE  \/ err = <<>> /\ BadInputs(p, T, r) = {}
           \/ Preempts(err)
           \/ \E rs : /\ err = WithReasons(New("invalid_request"), rs) /\ rs # <<>>
                      /\ Tells(rs, BadInputs(p, T, r)) /\ (KeysOnce(T) => NoneTwice(rs))
<1> DEFINE b == BuildBinder(T)
           paths == ParamReasons(b.paths, "path", r.path)
           queries == ParamReasons(b.queries, "query", r.query)
           body == IF b.body = <<>> THEN [err |-> <<>>, reasons |-> <<>>] ELSE BindBody(p, b, r)
           all == (paths \o queries) \o body.reasons
           P == {<<"path", k>> : k \in BadParams(T, "path", r.path)}
           Q == {<<"query", k>> : k \in BadParams(T, "query", r.query)}
           B == BodyInputs(p, T, r)
<1>1. BadInputs(p, T, r) = (P \cup Q) \cup B
  BY DEF BadInputs, BodyInputs
<1>2. b.noop = (T.shape = "empty") /\ b.paths = FieldsIn(T, "path") /\ b.queries = FieldsIn(T, "query")
  BY DEF BuildBinder
<1>3. err = IF b.noop THEN <<>> ELSE IF body.err # <<>> THEN body.err
            ELSE IF all # <<>> THEN WithReasons(New("invalid_request"), all) ELSE <<>>
  BY DEF Bind
<1>4. Tells(paths, P) /\ (KeysOnce(T) => NoneTwice(paths))
  BY <1>2, ParamsTold
<1>5. Tells(queries, Q) /\ (KeysOnce(T) => NoneTwice(queries))
  BY <1>2, ParamsTold
<1>6. Preempts(body.err) \/ /\ body.err = <<>> /\ Tells(body.reasons, B)
                            /\ KeysOnce(T) => NoneTwice(body.reasons)
  <2> HIDE DEF b
  <2> QED BY BodyBound DEF b
<1>7. P \cap Q = {} /\ (P \cup Q) \cap B = {}
  <2>1. \A x \in P : x[1] = "path"
    OBVIOUS
  <2>2. \A x \in Q : x[1] = "query"
    OBVIOUS
  <2>3. \A x \in B : x[1] = "body"
    <3> HIDE DEF b, body, all, P, Q
    <3>1. CASE JsonFields(T) = {} \/ p.decodeBody \/ (r.form # "malformed" /\ r.form = "eof")
      BY <3>1 DEF BodyInputs
    <3>2. CASE ~(JsonFields(T) = {} \/ p.decodeBody) /\ r.form = "malformed"
      <4>1. B = {<<"body", "">>}
        BY <3>2 DEF BodyInputs
      <4> DEFINE blank == <<"body", "">>
      <4>2. blank[1] = "body"
        OBVIOUS
      <4> HIDE DEF B, blank
      <4>3. B = {blank}
        BY <4>1 DEF blank
      <4> QED BY <4>2, <4>3
    <3>3. CASE ~(JsonFields(T) = {} \/ p.decodeBody) /\ r.form \notin {"malformed", "eof"}
      <4>1. B = {<<"body", k>> : k \in BadKeys(T, r.body)}
        BY <3>3 DEF BodyInputs
      <4> HIDE DEF B
      <4> QED BY <4>1
    <3> QED BY <3>1, <3>2, <3>3
  <2> HIDE DEF P, Q, B
  <2> QED BY <2>1, <2>2, <2>3
<1>8. CASE T.shape = "empty"
  <2>1. Range(T.fields) = {}
    BY <1>8 DEF IsType, Range
  <2>2. BadInputs(p, T, r) = {}
    BY <2>1 DEF BadInputs, BadParams, JsonFields
  <2> QED BY <1>2, <1>3, <1>8, <2>2
<1>9. CASE T.shape # "empty" /\ Preempts(body.err)
  <2>1. DecodeError # <<>> /\ New("unsupported_media_type") # <<>>
    BY DEF DecodeError, New
  <2>2. err = body.err
    <3> HIDE DEF b, body, all
    <3> QED BY <1>2, <1>3, <1>9, <2>1 DEF Preempts
  <2> HIDE DEF body
  <2> QED BY <1>9, <2>2
<1>10. CASE T.shape # "empty" /\ ~Preempts(body.err)
  <2> HIDE DEF b, body, paths, queries, P, Q, B
  <2>1. body.err = <<>> /\ Tells(body.reasons, B) /\ (KeysOnce(T) => NoneTwice(body.reasons))
    BY <1>6, <1>10
  <2>2. Tells(paths \o queries, P \cup Q) /\ (KeysOnce(T) => NoneTwice(paths \o queries))
    BY <1>4, <1>5, <1>7, TellsConcat
  <2>3. Tells(all, (P \cup Q) \cup B) /\ (KeysOnce(T) => NoneTwice(all))
    BY <1>7, <2>1, <2>2, TellsConcat
  <2> HIDE DEF all
  <2>4. err = IF all # <<>> THEN WithReasons(New("invalid_request"), all) ELSE <<>>
    BY <1>2, <1>3, <1>10, <2>1
  <2>5. CASE all = <<>>
    <3>1. Len(all) = 0
      BY <2>5, EmptySeq
    <3>2. (P \cup Q) \cup B = {}
      BY <2>3, <3>1 DEF Tells
    <3> QED BY <1>1, <2>4, <2>5, <3>2
  <2>6. CASE all # <<>>
    BY <1>1, <2>3, <2>4, <2>6
  <2> QED BY <2>5, <2>6
<1> QED BY <1>8, <1>9, <1>10

-----------------------------------------------------------------------------
(* Coercers and writers *)

\* errors.AsType ends up at the outermost node of the type.
LEMMA AsTypeIs ==
    ASSUME NEW S, NEW err \in Seq(S), NEW kind, Has(err, kind)
    PROVE  \E i \in 1 .. Len(err) :
               /\ err[i].kind = kind /\ AsType(err, kind) = SubSeq(err, i, Len(err))
               /\ \A j \in 1 .. Len(err) : err[j].kind = kind => i <= j
               /\ AsType(err, kind) \in Seq(S) /\ AsType(err, kind) # <<>> /\ AsType(err, kind)[1] = err[i]
<1> DEFINE I == {i \in 1 .. Len(err) : err[i].kind = kind}
<1>1. Len(err) \in Nat /\ DOMAIN err = 1 .. Len(err)
  BY LenProperties
<1>2. I # {} /\ I \in SUBSET Nat
  BY <1>1 DEF Has
<1>3. PICK x \in I : \A y \in I : ~(y < x)
  BY <1>2, Least
<1>4. \E k \in I : \A y \in I : k <= y
  BY <1>1, <1>3
<1>5. Min(I) \in I /\ \A y \in I : Min(I) <= y
  <2> HIDE DEF I
  <2> QED BY <1>4 DEF Min
<1>6. SelectInSeq(err, LAMBDA n : n.kind = kind) = Min(I)
  BY <1>2 DEF SelectInSeq
<1> DEFINE m == Min(I)
<1>7. m \in 1 .. Len(err) /\ err[m].kind = kind /\ \A j \in 1 .. Len(err) : err[j].kind = kind => m <= j
  BY <1>5
<1>8. AsType(err, kind) = SubSeq(err, m, Len(err))
  BY <1>6 DEF AsType
<1> HIDE DEF m
<1>9. \A i \in m .. Len(err) : err[i] \in S
  BY <1>1, <1>7, ElementOfSeq
<1>10. /\ SubSeq(err, m, Len(err)) \in Seq(S) /\ Len(SubSeq(err, m, Len(err))) = (Len(err) - m) + 1
       /\ SubSeq(err, m, Len(err))[1] = err[m]
  <2>1. /\ SubSeq(err, m, Len(err)) \in Seq(S)
        /\ Len(SubSeq(err, m, Len(err))) = IF m <= Len(err) THEN Len(err) - m + 1 ELSE 0
        /\ \A i \in 1 .. Len(err) - m + 1 : SubSeq(err, m, Len(err))[i] = err[m + i - 1]
    BY <1>1, <1>7, <1>9, SubSeqProperties
  <2>2. 1 \in 1 .. Len(err) - m + 1 /\ m + 1 - 1 = m
    BY <1>1, <1>7
  <2> QED BY <1>1, <1>7, <2>1, <2>2
<1>11. SubSeq(err, m, Len(err)) # <<>>
  <2>1. Len(SubSeq(err, m, Len(err))) # 0
    BY <1>1, <1>7, <1>10
  <2> QED BY <2>1, EmptySeq
<1> QED BY <1>7, <1>8, <1>10, <1>11

\* A ReqError, or any error with one outermost, is the ReqError found in it.
LEMMA ReqOutermost ==
    ASSUME NEW S, NEW err \in Seq(S), err # <<>>, err[1].kind = "req"
    PROVE  Has(err, "req") /\ AsType(err, "req") = err
<1>1. Len(err) \in Nat /\ DOMAIN err = 1 .. Len(err) /\ Len(err) # 0
  BY LenProperties, EmptySeq
<1>2. 1 \in 1 .. Len(err) /\ Has(err, "req")
  BY <1>1 DEF Has
<1>3. PICK i \in 1 .. Len(err) : /\ AsType(err, "req") = SubSeq(err, i, Len(err))
                                 /\ \A j \in 1 .. Len(err) : err[j].kind = "req" => i <= j
  BY <1>2, AsTypeIs
<1>4. i = 1
  BY <1>1, <1>2, <1>3
<1> QED BY <1>2, <1>3, <1>4, SubSeqFull

ReqNode(code) == Node("req", code, 0, "many", "")

LEMMA NewIs ==
    ASSUME NEW code
    PROVE  /\ New(code) \in Seq({ReqNode(code)}) /\ New(code)[1] = ReqNode(code)
           /\ Len(New(code)) = 1 /\ New(code) # <<>>
           /\ ReqNode(code).kind = "req" /\ ReqNode(code).code = code
           /\ ReqNode(code).status = 0 /\ ReqNode(code).reasons = <<>> /\ ReqNode(code).encodes = TRUE
BY DEF New, ReqNode, Node

LEMMA WrapIs ==
    ASSUME NEW S, NEW err \in Seq(S), NEW code
    PROVE  /\ WrapErr(err, code) # <<>> /\ WrapErr(err, code)[1] = New(code)[1]
           /\ WrapErr(err, code) \in Seq(S \cup {New(code)[1]})
<1> DEFINE V == S \cup {New(code)[1]}
           n == New(code)
           w == WrapErr(err, code)
<1>1. n \in Seq({n[1]}) /\ Len(n) = 1
  <2>1. New(code) \in Seq({ReqNode(code)}) /\ New(code)[1] = ReqNode(code) /\ Len(New(code)) = 1
    BY NewIs
  <2> QED BY <2>1
<1>2. w = n \o err
  BY DEF WrapErr
<1> HIDE DEF n, w
<1>3. S \subseteq V /\ {n[1]} \subseteq V
  BY DEF n
<1> HIDE DEF V
<1>4. err \in Seq(V) /\ n \in Seq(V) /\ Len(err) \in Nat
  BY <1>1, <1>3, SeqMonotonic, LenProperties
<1>5. /\ w \in Seq(V) /\ Len(w) = Len(n) + Len(err)
      /\ \A i \in 1 .. Len(n) + Len(err) : w[i] = IF i <= Len(n) THEN n[i] ELSE err[i - Len(n)]
  BY <1>2, <1>4, ConcatProperties
<1>6. Len(w) # 0 /\ w[1] = n[1]
  BY <1>1, <1>4, <1>5
<1>7. w # <<>>
  BY <1>6, EmptySeq
<1> QED BY <1>5, <1>6, <1>7 DEF V, n, w

LEMMA WrapHead == ASSUME NEW S, NEW err \in Seq(S), NEW code PROVE WrapErr(err, code)[1] = New(code)[1]
<1>1. PICK w : w = WrapErr(err, code)
  OBVIOUS
<1>2. PICK n : n = New(code)[1]
  OBVIOUS
<1>3. w # <<>> /\ w[1] = n /\ w \in Seq(S \cup {n})
  BY <1>1, <1>2, WrapIs
<1> QED BY <1>1, <1>2, <1>3

\* A ReqError as it is answered: the default writer sends one that does not
\* encode as a 500 without a body.
Served(w, err) ==
    IF w = "default" /\ ~err[1].encodes THEN Bare500 ELSE Response(StatusCode(err), err[1].code, err[1].reasons)

LEMMA UnknownIs ==
    ASSUME NEW err, err[1] = New("unknown")[1]
    PROVE  StatusCode(err) = 500
<1>1. err[1] = ReqNode("unknown") /\ ReqNode("unknown").status = 0 /\ ReqNode("unknown").code = "unknown"
  BY NewIs
<1> QED BY <1>1 DEF StatusCode, CodeStatuses

LEMMA UnknownWrapped == ASSUME NEW S, NEW err \in Seq(S) PROVE StatusCode(WrapErr(err, "unknown")) = 500
<1>1. WrapErr(err, "unknown")[1] = New("unknown")[1]
  BY WrapHead
<1> QED BY <1>1, UnknownIs

\* Meta and status are set on the outermost node of an error.
LEMMA DecoratedIs ==
    ASSUME NEW V, NEW w \in Seq(V), w # <<>>, NEW code, w[1] = ReqNode(code), NEW encodes, NEW status, status # 0
    PROVE  LET e == WithStatus(WithMeta(w, encodes), status)
           IN  /\ e # <<>> /\ StatusCode(e) = status
               /\ e[1].encodes = encodes /\ e[1].code = code /\ e[1].reasons = <<>>
<1> DEFINE n == ReqNode(code)
           m == [w EXCEPT ![1].encodes = encodes]
           e == [m EXCEPT ![1].status = status]
<1>1. DOMAIN w = 1 .. Len(w) /\ 1 \in 1 .. Len(w)
  <2>1. Len(w) \in Nat /\ Len(w) # 0 /\ DOMAIN w = 1 .. Len(w)
    BY EmptySeq, LenProperties
  <2> QED BY <2>1
<1>2. WithStatus(WithMeta(w, encodes), status) = e
  BY DEF WithStatus, WithMeta
<1>3. m[1] = [n EXCEPT !.encodes = encodes] /\ DOMAIN m = DOMAIN w
  BY <1>1
<1> HIDE DEF m
<1>4. e[1] = [[n EXCEPT !.encodes = encodes] EXCEPT !.status = status] /\ DOMAIN e = DOMAIN w
  BY <1>1, <1>3
<1>5. e[1].status = status /\ e[1].encodes = encodes /\ e[1].code = code /\ e[1].reasons = <<>>
  BY <1>4 DEF ReqNode, Node
<1>6. e # <<>>
  <2>1. DOMAIN <<>> = {} /\ DOMAIN e # {}
    BY <1>1, <1>4
  <2> HIDE DEF e
  <2> QED BY <2>1
<1> HIDE DEF e
<1> QED BY <1>2, <1>5, <1>6 DEF StatusCode

LEMMA ServerErrorIs ==
    ASSUME NEW S, NEW err \in Seq(S)
    PROVE  LET e == ServerError(err)
           IN  /\ e # <<>> /\ StatusCode(e) = 500
               /\ e[1].encodes = OopsEncodes(err) /\ e[1].code = OopsCode(err) /\ e[1].reasons = <<>>
<1>1. PICK code : code = OopsCode(err)
  OBVIOUS
<1>2. PICK encodes : encodes = OopsEncodes(err)
  OBVIOUS
<1>3. PICK V : V = S \cup {New(code)[1]}
  OBVIOUS
<1>4. PICK w : w = WrapErr(err, code)
  OBVIOUS
<1>5. w \in Seq(V) /\ w # <<>> /\ w[1] = ReqNode(code)
  <2>1. New(code)[1] = ReqNode(code)
    BY NewIs
  <2> QED BY <1>3, <1>4, <2>1, WrapIs
<1>6. PICK e : e = WithStatus(WithMeta(w, encodes), 500)
  OBVIOUS
<1>7. /\ e # <<>> /\ StatusCode(e) = 500
      /\ e[1].encodes = encodes /\ e[1].code = code /\ e[1].reasons = <<>>
  BY <1>5, <1>6, DecoratedIs
<1>8. ServerError(err) = e
  BY <1>1, <1>2, <1>4, <1>6 DEF ServerError
<1> QED BY <1>1, <1>2, <1>7, <1>8

\* A ReqError anywhere in an error is what the libraries' coercers make of it.
LEMMA CoerceReq ==
    ASSUME NEW S, NEW err \in Seq(S), Has(err, "req"), NEW c \in {"default", "cher", "oops"}
    PROVE  Coerce(c, err) = AsType(err, "req")
<1>1. err # <<>>
  BY DEF Has
<1>2. ReqErrorOf(err) = AsType(err, "req") /\ Settled(err)
  BY <1>1 DEF ReqErrorOf, Settled
<1> QED BY <1>2 DEF Coerce, DefaultCoercer, CherCoerce, OopsCoerce

\* Without one it is a 500, but for a cher error under cher's coercer.
LEMMA CoerceOther ==
    ASSUME NEW S, NEW err \in Seq(S), ~Has(err, "req"), NEW c \in {"default", "cher", "oops"},
           c = "cher" => ~Has(err, "cher")
    PROVE  Coerce(c, err) = <<>> \/ StatusCode(Coerce(c, err)) = 500
<1>1. CASE err = <<>>
  BY <1>1 DEF Coerce, DefaultCoercer, CherCoerce, OopsCoerce, ReqErrorOf, Settled
<1>2. CASE err # <<>>
  <2>1. ~Settled(err)
    BY <1>2 DEF Settled
  <2>2. StatusCode(WrapErr(err, "unknown")) = 500
    BY UnknownWrapped
  <2>3. StatusCode(ServerError(err)) = 500
    BY ServerErrorIs
  <2> QED BY <2>1, <2>2, <2>3 DEF Coerce, DefaultCoercer, CherCoerce, OopsCoerce
<1> QED BY <1>1, <1>2

\* Whichever of the libraries' coercers and writers is configured, a ReqError
\* is answered as it is, however deep it is wrapped, but for the service's own
\* error around it and, under the default writer, for one whose Meta or reasons
\* do not encode, which is answered by a 500 without a body; and only a
\* ReqError, a cher error or an error of the service's own ever reads as the
\* caller's fault.  Of any error.
THEOREM WritersKeepTheSide ==
    ASSUME NEW S, NEW err \in Seq(S), NEW w \in {"default", "custom"}, NEW c \in {"default", "cher", "oops"},
           NEW own, own = (w = "custom" /\ Has(err, "api"))
    PROVE  /\ Has(err, "req") /\ ~own => Write(w, c, err) = Served(w, AsType(err, "req"))
           /\ Write(w, c, err).status < 500 => own \/ Has(err, "req") \/ Has(err, "cher")
<1>1. ASSUME Has(err, "req"), ~own PROVE Write(w, c, err) = Served(w, AsType(err, "req"))
  <2>1. AsType(err, "req") # <<>>
    BY <1>1, AsTypeIs
  <2>2. CASE w = "default"
    <3>1. Coerce(c, err) = AsType(err, "req")
      BY <1>1, CoerceReq
    <3>2. DefaultErrorWriter(c, err) = Served("default", AsType(err, "req"))
      BY <2>1, <3>1 DEF DefaultErrorWriter, WriteJSON, Served
    <3> QED BY <2>2, <3>2 DEF Write
  <2>3. CASE w = "custom"
    BY <1>1, <2>3 DEF Write, WriteError, Served
  <2> QED BY <2>2, <2>3
<1>2. ASSUME ~own, ~Has(err, "req"), ~Has(err, "cher") PROVE ~(Write(w, c, err).status < 500)
  <2>1. CASE w = "default"
    <3>1. Coerce(c, err) = <<>> \/ StatusCode(Coerce(c, err)) = 500
      BY <1>2, CoerceOther
    <3>2. DefaultErrorWriter(c, err).status = 500
      BY <3>1 DEF DefaultErrorWriter, WriteJSON, Bare500, Response
    <3> QED BY <2>1, <3>2 DEF Write
  <2>2. CASE w = "custom"
    <3>1. WriteError(err).status = 500
      BY <1>2, <2>2 DEF WriteError, Response
    <3> QED BY <2>2, <3>1 DEF Write
  <2> QED BY <2>1, <2>2
<1> QED BY <1>1, <1>2

\* WithReasons adds to the reasons of a ReqError and leaves the rest of it.
LEMMA WithReasonsIs ==
    ASSUME NEW code, NEW R, NEW rs \in Seq(R)
    PROVE  LET e == WithReasons(New(code), rs)
           IN  /\ e # <<>> /\ e[1] = [ReqNode(code) EXCEPT !.reasons = rs] /\ e \in Seq({e[1]})
<1> DEFINE e == WithReasons(New(code), rs)
           more == [ReqNode(code) EXCEPT !.reasons = rs]
<1>1. New(code) \in [1 .. 1 -> {ReqNode(code)}] /\ 1 \in 1 .. 1
  <2>1. New(code) \in Seq({ReqNode(code)}) /\ Len(New(code)) = 1
    BY NewIs
  <2> QED BY <2>1, LenProperties
<1>2. ReqNode(code).reasons \o rs = rs
  <2>1. ReqNode(code).reasons = <<>>
    BY NewIs
  <2> QED BY <2>1, ConcatEmptySeq
<1>3. WithReasons(New(code), rs) = [New(code) EXCEPT ![1] = [New(code)[1] EXCEPT !.reasons = New(code)[1].reasons \o rs]]
  BY DEF WithReasons
<1>4. New(code)[1] = ReqNode(code)
  BY <1>1
<1>5. e = [New(code) EXCEPT ![1] = more]
  BY <1>2, <1>3, <1>4, Zenon
<1> HIDE DEF e, more
<1>6. e \in [1 .. 1 -> {more}] /\ e[1] = more
  BY <1>1, <1>5
<1>7. e \in Seq({more}) /\ Len(e) = 1
  BY <1>6, Written
<1>8. e # <<>>
  BY <1>7, EmptySeq
<1> QED BY <1>6, <1>7, <1>8 DEF e, more

\* A ReqError around nothing that encodes is answered as it is.
LEMMA ServedAsIs ==
    ASSUME NEW n, n.kind = "req", n.encodes, NEW e \in Seq({n}), e # <<>>, e[1] = n,
           NEW w \in {"default", "custom"}, NEW c \in {"default", "cher", "oops"}
    PROVE  Write(w, c, e) = Response(StatusCode(e), n.code, n.reasons) /\ Has(e, "req") /\ AsType(e, "req") = e
<1>1. Has(e, "req") /\ AsType(e, "req") = e
  BY ReqOutermost
<1>2. ~Has(e, "api")
  <2>1. \A i \in DOMAIN e : e[i] = n
    BY LenProperties, ElementOfSeq
  <2> QED BY <2>1 DEF Has
<1>3. Write(w, c, e) = Served(w, AsType(e, "req"))
  BY <1>1, <1>2, WritersKeepTheSide
<1> QED BY <1>1, <1>3 DEF Served

LEMMA NewServed ==
    ASSUME NEW code, NEW w \in {"default", "custom"}, NEW c \in {"default", "cher", "oops"}
    PROVE  /\ Write(w, c, New(code)) = Response(StatusCode(New(code)), code, <<>>)
           /\ Has(New(code), "req") /\ AsType(New(code), "req") = New(code)
<1>1. PICK e : e = New(code)
  OBVIOUS
<1>2. PICK n : n = ReqNode(code)
  OBVIOUS
<1>3. e \in Seq({n}) /\ e # <<>> /\ e[1] = n /\ n.kind = "req" /\ n.encodes /\ n.code = code /\ n.reasons = <<>>
  BY <1>1, <1>2, NewIs
<1>4. Write(w, c, e) = Response(StatusCode(e), n.code, n.reasons) /\ Has(e, "req") /\ AsType(e, "req") = e
  BY <1>3, ServedAsIs
<1> QED BY <1>1, <1>3, <1>4

LEMMA ReasonsServed ==
    ASSUME NEW code, NEW R, NEW rs \in Seq(R), NEW w \in {"default", "custom"}, NEW c \in {"default", "cher", "oops"}
    PROVE  Write(w, c, WithReasons(New(code), rs)) = Response(StatusCode(New(code)), code, rs)
<1>1. PICK e : e = WithReasons(New(code), rs)
  OBVIOUS
<1>2. PICK n : n = [ReqNode(code) EXCEPT !.reasons = rs]
  OBVIOUS
<1>3. e # <<>> /\ e[1] = n /\ e \in Seq({n})
  <2>1. e # <<>> /\ e[1] = n /\ e \in Seq({e[1]})
    BY <1>1, <1>2, WithReasonsIs
  <2> QED BY <2>1
<1>4. n.kind = "req" /\ n.encodes = TRUE /\ n.code = code /\ n.reasons = rs /\ n.status = 0
  <2>1. n.kind = "req" /\ n.encodes = TRUE
    BY <1>2 DEF ReqNode, Node
  <2>2. n.code = code /\ n.status = 0
    BY <1>2 DEF ReqNode, Node
  <2>3. n.reasons = rs
    BY <1>2 DEF ReqNode, Node
  <2> QED BY <2>1, <2>2, <2>3
<1>5. New(code)[1].status = 0 /\ New(code)[1].code = code
  <2>1. PICK m : m = ReqNode(code)
    OBVIOUS
  <2>2. New(code)[1] = m /\ m.status = 0 /\ m.code = code
    BY <2>1, NewIs
  <2> QED BY <2>2
<1>6. StatusCode(e) = StatusCode(New(code))
  <2>1. e[1].status = 0 /\ e[1].code = code
    BY <1>3, <1>4
  <2> QED BY <1>5, <2>1 DEF StatusCode
<1>7. Write(w, c, e) = Response(StatusCode(e), n.code, n.reasons)
  BY <1>3, <1>4, ServedAsIs
<1> QED BY <1>1, <1>4, <1>6, <1>7

LEMMA Single == ASSUME NEW n PROVE <<n>> \in Seq({n}) /\ <<n>> # <<>> /\ <<n>>[1] = n /\ Len(<<n>>) = 1
OBVIOUS

LEMMA NothingAt == DOMAIN <<>> = {}
OBVIOUS

\* An error of none of the types the writers know is nothing the caller did,
\* unless the message it wraps says so.
LEMMA PlainServed ==
    ASSUME NEW S, \A n \in S : n.kind = "plain", NEW err \in Seq(S), err # <<>>,
           Unwrapped(err) # "invalid_request",
           NEW w \in {"default", "custom"}, NEW c \in {"default", "cher", "oops"}
    PROVE  Write(w, c, err).code # "invalid_request"
<1>1. \A kind \in {"req", "cher", "oops", "api"} : ~Has(err, kind)
  BY LenProperties, ElementOfSeq DEF Has
<1>2. CASE w = "custom"
  BY <1>1, <1>2 DEF Write, WriteError, Response
<1>3. CASE w = "default"
  <2>1. ~Settled(err)
    BY <1>1 DEF Settled
  <2>2. PICK u : u = WrapErr(err, "unknown")
    OBVIOUS
  <2>3. PICK o : o = ServerError(err)
    OBVIOUS
  <2>4. Coerce(c, err) = u \/ Coerce(c, err) = o
    BY <1>1, <2>1, <2>2, <2>3 DEF Coerce, DefaultCoercer, CherCoerce, OopsCoerce
  <2>5. u # <<>> /\ u[1].code # "invalid_request"
    <3>1. u # <<>> /\ u[1] = New("unknown")[1]
      BY <2>2, WrapIs
    <3>2. New("unknown")[1].code = "unknown"
      BY NewIs
    <3> QED BY <3>1, <3>2
  <2>6. o # <<>> /\ o[1].code # "invalid_request"
    <3>1. o # <<>> /\ o[1].code = OopsCode(err)
      BY <2>3, ServerErrorIs
    <3>2. OopsCode(err) # "invalid_request"
      BY <1>1 DEF OopsCode
    <3> QED BY <3>1, <3>2
  <2>7. \A e : e # <<>> /\ e[1].code # "invalid_request" => WriteJSON(e).code # "invalid_request"
    BY DEF WriteJSON, Bare500, Response
  <2>8. DefaultErrorWriter(c, err).code # "invalid_request"
    BY <2>4, <2>5, <2>6, <2>7 DEF DefaultErrorWriter
  <2> QED BY <1>3, <2>8 DEF Write
<1> QED BY <1>2, <1>3

\* A list of reasons in which no input is twice is as long as there are inputs.
LEMMA Counted ==
    ASSUME NEW rs, NEW K, Tells(rs, K)
    PROVE  /\ {<<rs[i].in, rs[i].field>> : i \in DOMAIN rs} = K
           /\ NoneTwice(rs) => Cardinality(K) = Len(rs)
<1>1. Len(rs) \in Nat /\ DOMAIN rs = 1 .. Len(rs)
  BY LenProperties DEF Tells
<1>2. {<<rs[i].in, rs[i].field>> : i \in DOMAIN rs} = K
  BY <1>1 DEF Tells, NameOf
<1>3. ASSUME NoneTwice(rs) PROVE Cardinality(K) = Len(rs)
  <2> DEFINE f == [i \in 1 .. Len(rs) |-> NameOf(rs[i])]
  <2>1. f \in [1 .. Len(rs) -> K]
    BY DEF Tells
  <2>2. \A k \in K : \E i \in 1 .. Len(rs) : f[i] = k
    BY DEF Tells
  <2>3. \A i, j \in 1 .. Len(rs) : f[i] = f[j] => i = j
    BY <1>3 DEF NoneTwice
  <2> HIDE DEF f
  <2>4. f \in Bijection(1 .. Len(rs), K)
    BY <2>1, <2>2, <2>3 DEF Bijection, Injection, Surjection, IsInjective
  <2> QED BY <1>1, <2>4, FS_CountingElements DEF ExistsBijection
<1> QED BY <1>2, <1>3
=============================================================================
