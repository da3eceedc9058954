---------------------------- MODULE RouterProofs ----------------------------
(***************************************************************************)
(* Router for any programs, types, configurations and requests.  Wiring:   *)
(* no slice leaves its array, no two routers and no shared error have an   *)
(* array in common, and every router and route has the middleware its      *)
(* place in the program gives it.  Serving: a type's plan is never         *)
(* replaced, and a response says all that is wrong with its request.       *)
(***************************************************************************)
EXTENDS Router, RequestProofs

\* What the backing arrays hold: middleware, reasons and spare slots.
MiddlewareType == [id : Nat, kind : {"tap"} \cup UNION {g.kinds : g \in Programs}]
Element == MiddlewareType \cup {"a", "b", "c", Unset} \cup Procs

Heap == Seq(Seq(Element))

\* A slice append may be given: it stays within its array.
Fits(h, s) ==
    /\ s \in [arr : 0 .. Len(h), len : Nat, cap : Nat]
    /\ s.len <= s.cap
    /\ s.arr = 0 => s.cap = 0
    /\ s.arr # 0 => s.cap <= Len(h[s.arr])

\* A slice as append leaves it: it ends where its array does.
Whole(h, s) == Fits(h, s) /\ (s.arr # 0 => s.cap = Len(h[s.arr]))

\* Heap k has all that heap h had, with arrays as long; all but array a as they were.
Extends(h, k, a) ==
    /\ Len(h) <= Len(k)
    /\ \A i \in DOMAIN h : Len(k[i]) = Len(h[i]) /\ (i # a => k[i] = h[i])

-----------------------------------------------------------------------------
(* The inductive invariant. *)

CallType == [op : {"use", "group", "handle", "handleFunc"}, on : Nat, mw : Seq(MiddlewareType)]
RouteType == [chain : Seq(Element), prefix : Seq(Nat), type : DOMAIN Types, typed : BOOLEAN]
RouterType == [mw : [arr : Nat, len : Nat, cap : Nat], prefix : Seq(Nat)]
Fields == {"pc", "route", "in", "binder", "args", "ran", "out", "resp"}

\* Every slice ends where its array does, and no two have an array in common:
\* not two routers, not a router and the shared error.
SlicesApart ==
    /\ heap \in Heap /\ routers \in Seq(RouterType)
    /\ Whole(heap, sentinel) /\ sentinel.arr # 0
    /\ \A r \in DOMAIN routers :
           /\ Whole(heap, routers[r].mw) /\ routers[r].mw.arr # sentinel.arr
           /\ \A q \in DOMAIN routers :
                  r # q /\ routers[r].mw.arr # 0 => routers[r].mw.arr # routers[q].mw.arr

Declared ==
    /\ program \in Programs /\ phase \in {"wiring", "serving", "panicked"}
    /\ log \in Seq(CallType) /\ Len(log) <= program.calls
    /\ routes \in Seq(RouteType)
    /\ \A r \in DOMAIN routers : routers[r].prefix \in Seq(1 .. Len(log))
    /\ cache \in [DOMAIN Types -> Procs \cup {NoOne, "wiring"}]

\* While the program wires no request is under way.
Requests ==
    /\ req = [p \in Procs |-> req[p]]
    /\ \A p \in Procs :
           /\ req[p].pc \in {"idle", "load", "store", "bind", "handle", "write", "done"}
           /\ phase = "wiring" => req[p].pc = "idle"
           /\ req[p].pc # "idle" => DOMAIN req[p] = Fields /\ req[p].route \in DOMAIN routes

\* Whoever binds has the plan that is cached, and one is.
Planned ==
    \A p \in Procs :
        req[p].pc \in {"bind", "handle"} =>
            req[p].binder = cache[Route(p).type] /\ cache[Route(p).type] # NoOne

IInv == SlicesApart /\ Declared /\ Requests /\ Planned

-----------------------------------------------------------------------------
(* append *)

LEMMA ElementsType ==
    ASSUME NEW h \in Heap, NEW s, Fits(h, s)
    PROVE  Elements(h, s) \in Seq(Element) /\ Len(Elements(h, s)) = s.len
<1>1. CASE s.arr = 0
  BY <1>1 DEF Elements, Fits
<1>3. CASE s.arr # 0
  <2>1. s.arr \in 1 .. Len(h) /\ s.len \in Nat /\ s.cap \in Nat /\ s.len <= s.cap /\ s.cap <= Len(h[s.arr])
    BY <1>3 DEF Fits
  <2>2. h[s.arr] \in Seq(Element)
    BY <2>1, ElementOfSeq DEF Heap
  <2> DEFINE array == h[s.arr]
  <2>3. \A i \in 1 .. s.len : array[i] \in Element
    BY <2>1, <2>2, ElementOfSeq, LenProperties
  <2>4. SubSeq(array, 1, s.len) \in Seq(Element) /\ Len(SubSeq(array, 1, s.len)) = s.len
    <3> HIDE DEF array
    <3> QED BY <2>1, <2>3, SubSeqProperties
  <2> QED BY <1>3, <2>4 DEF Elements
<1> QED BY <1>1, <1>3

\* append in place fills spare slots of its own array; append past the
\* capacity makes an array of its own.
LEMMA Appended ==
    ASSUME NEW h \in Heap, NEW s, Fits(h, s), NEW xs \in Seq(Element), NEW r, r = AppendTo(h, s, xs)
    PROVE  /\ r.heap \in Heap /\ Extends(h, r.heap, s.arr) /\ Fits(r.heap, r.slice)
           /\ xs # <<>> /\ s.len + Len(xs) > s.cap =>
                  /\ r.slice.arr = Len(h) + 1 /\ Whole(r.heap, r.slice)
                  /\ \A i \in DOMAIN h : r.heap[i] = h[i]
           /\ Whole(h, s) => Whole(r.heap, r.slice)
           /\ r.slice.arr = s.arr \/ r.slice.arr = Len(h) + 1
           /\ r.slice.len = s.len + Len(xs)
           /\ Len(r.heap) = Len(h) \/ Len(r.heap) = Len(h) + 1
<1> DEFINE need == s.len + Len(xs)
           cap == Grown(s, need)
           pad == [i \in 1 .. cap - need |-> Unset]
           fresh == Elements(h, s) \o xs \o pad
           written == [i \in 1 .. Len(h[s.arr]) |->
                          IF i \in s.len + 1 .. need THEN xs[i - s.len] ELSE h[s.arr][i]]
<1>1. s.len \in Nat /\ s.cap \in Nat /\ s.arr \in Nat /\ Len(xs) \in Nat /\ Len(h) \in Nat /\ need \in Nat
  BY LenProperties DEF Fits, Heap
<1>2. DOMAIN h = 1 .. Len(h)
  BY LenProperties DEF Heap
<1>3. CASE xs = <<>>
  <2>1. r = [heap |-> h, slice |-> s]
    BY <1>3 DEF AppendTo
  <2> QED BY <1>1, <1>3, <2>1 DEF Extends
<1>4. CASE xs # <<>> /\ need <= s.cap
  <2>1. r = [heap |-> [h EXCEPT ![s.arr] = written], slice |-> [s EXCEPT !.len = need]]
    BY <1>4 DEF AppendTo
  <2>2. Len(xs) > 0
    BY <1>4, EmptySeq
  <2>3. s.arr \in 1 .. Len(h) /\ s.cap <= Len(h[s.arr])
    BY <1>1, <1>4, <2>2 DEF Fits
  <2>4. h[s.arr] \in Seq(Element) /\ Len(h[s.arr]) \in Nat
    BY <2>3, ElementOfSeq, LenProperties DEF Heap
  <2>5. ASSUME NEW i \in 1 .. Len(h[s.arr])
        PROVE  (IF i \in s.len + 1 .. need THEN xs[i - s.len] ELSE h[s.arr][i]) \in Element
    <3>1. CASE i \in s.len + 1 .. need
      <4>1. i - s.len \in 1 .. Len(xs)
        BY <1>1, <3>1
      <4> QED BY <3>1, <4>1, ElementOfSeq
    <3>2. CASE i \notin s.len + 1 .. need
      BY <2>4, <3>2, ElementOfSeq
    <3> QED BY <3>1, <3>2
  <2>6. written \in [1 .. Len(h[s.arr]) -> Element]
    BY <2>5
  <2>7. written \in Seq(Element) /\ Len(written) = Len(h[s.arr])
    <3> HIDE DEF written
    <3> QED BY <2>4, <2>6, Written
  <2> HIDE DEF written, need
  <2>8. r.heap \in Heap /\ Len(r.heap) = Len(h)
        /\ \A i \in 1 .. Len(h) : r.heap[i] = IF i = s.arr THEN written ELSE h[i]
    BY <2>1, <2>3, <2>7, ExceptSeq DEF Heap
  <2>9. Extends(h, r.heap, s.arr)
    BY <1>1, <1>2, <2>7, <2>8 DEF Extends
  <2>10. r.slice = [arr |-> s.arr, len |-> need, cap |-> s.cap]
    BY <2>1 DEF Fits
  <2>11. Fits(r.heap, r.slice)
    BY <1>1, <1>4, <2>3, <2>7, <2>8, <2>10 DEF Fits
  <2>12. Whole(h, s) => Whole(r.heap, r.slice)
    BY <2>3, <2>7, <2>8, <2>10, <2>11 DEF Whole
  <2> QED BY <1>1, <1>4, <2>8, <2>9, <2>10, <2>11, <2>12 DEF need
<1>5. CASE xs # <<>> /\ ~(need <= s.cap)
  <2>1. r = [heap |-> Append(h, fresh), slice |-> [arr |-> Len(h) + 1, len |-> need, cap |-> cap]]
    BY <1>5 DEF AppendTo
  <2>2. cap \in Nat /\ need <= cap
    BY <1>1, <1>5 DEF Grown
  <2>3. pad \in Seq(Element) /\ Len(pad) = cap - need
    <3>1. cap - need \in Nat
      BY <1>1, <2>2
    <3>2. pad \in [1 .. cap - need -> Element]
      BY DEF Element
    <3> HIDE DEF pad, cap, need
    <3> QED BY <3>1, <3>2, Written
  <2>4. Elements(h, s) \in Seq(Element) /\ Len(Elements(h, s)) = s.len
    BY ElementsType
  <2>5. fresh \in Seq(Element) /\ Len(fresh) = cap
    <3> DEFINE front == Elements(h, s) \o xs
    <3>1. front \in Seq(Element) /\ Len(front) = need
      BY <2>4, ConcatProperties
    <3> HIDE DEF pad, cap, need, front
    <3>2. front \o pad \in Seq(Element) /\ Len(front \o pad) = Len(front) + Len(pad)
      BY <2>3, <3>1, ConcatProperties
    <3>3. Len(front \o pad) = cap
      BY <1>1, <2>2, <2>3, <3>1, <3>2
    <3> QED BY <3>2, <3>3 DEF front
  <2> HIDE DEF fresh, cap, need
  <2>6. r.heap \in Heap /\ Len(r.heap) = Len(h) + 1 /\ r.heap[Len(h) + 1] = fresh
        /\ \A i \in 1 .. Len(h) : r.heap[i] = h[i]
    BY <2>1, <2>5 DEF Heap
  <2>7. Whole(r.heap, r.slice)
    BY <1>1, <2>1, <2>2, <2>5, <2>6 DEF Whole, Fits
  <2>8. Extends(h, r.heap, s.arr)
    BY <1>1, <1>2, <2>6 DEF Extends
  <2>9. r.slice.arr = Len(h) + 1 /\ r.slice.len = s.len + Len(xs)
    BY <2>1 DEF need
  <2> QED BY <1>1, <1>2, <2>6, <2>7, <2>8, <2>9 DEF Whole
<1> QED BY <1>3, <1>4, <1>5

\* In either case the slice that comes back has the elements of the one given
\* and the new ones.
LEMMA AppendedElements ==
    ASSUME NEW h \in Heap, NEW s, Fits(h, s), NEW xs \in Seq(Element), NEW r, r = AppendTo(h, s, xs)
    PROVE  Elements(r.heap, r.slice) = Elements(h, s) \o xs
<1> DEFINE need == s.len + Len(xs)
           old == Elements(h, s)
           want == old \o xs
           cap == Grown(s, need)
           pad == [i \in 1 .. cap - need |-> Unset]
           fresh == want \o pad
           written == [i \in 1 .. Len(h[s.arr]) |->
                          IF i \in s.len + 1 .. need THEN xs[i - s.len] ELSE h[s.arr][i]]
<1>1. s.len \in Nat /\ s.cap \in Nat /\ s.arr \in Nat /\ Len(xs) \in Nat /\ Len(h) \in Nat /\ need \in Nat
  BY LenProperties DEF Fits, Heap
<1>2. old \in Seq(Element) /\ Len(old) = s.len
  BY ElementsType
<1>3. /\ want \in Seq(Element) /\ Len(want) = need
      /\ \A i \in 1 .. need : want[i] = IF i <= s.len THEN old[i] ELSE xs[i - s.len]
  <2> HIDE DEF old
  <2>1. /\ old \o xs \in Seq(Element) /\ Len(old \o xs) = Len(old) + Len(xs)
        /\ \A i \in 1 .. Len(old) + Len(xs) : (old \o xs)[i] = IF i <= Len(old) THEN old[i] ELSE xs[i - Len(old)]
    BY <1>2, ConcatProperties
  <2> QED BY <1>2, <2>1
<1>4. CASE xs = <<>>
  <2>1. r = [heap |-> h, slice |-> s]
    BY <1>4 DEF AppendTo
  <2>2. old \o <<>> = old
    BY <1>2, ConcatEmptySeq
  <2> QED BY <1>4, <2>1, <2>2
<1>5. CASE xs # <<>> /\ need <= s.cap
  <2>1. r = [heap |-> [h EXCEPT ![s.arr] = written], slice |-> [s EXCEPT !.len = need]]
    BY <1>5 DEF AppendTo
  <2>2. Len(xs) > 0
    BY <1>5, EmptySeq
  <2>3. s.arr \in 1 .. Len(h) /\ s.arr # 0 /\ s.cap <= Len(h[s.arr])
    BY <1>1, <1>5, <2>2 DEF Fits
  <2>4. h[s.arr] \in Seq(Element) /\ Len(h[s.arr]) \in Nat /\ DOMAIN h = 1 .. Len(h)
    BY <2>3, ElementOfSeq, LenProperties DEF Heap
  <2>5. Elements(r.heap, r.slice) = SubSeq(written, 1, need)
    <3> HIDE DEF written, need
    <3>1. r.heap[s.arr] = written /\ r.slice.arr = s.arr /\ r.slice.len = need
      BY <2>1, <2>3, <2>4 DEF Fits
    <3> QED BY <2>3, <3>1 DEF Elements
  <2>6. old = SubSeq(h[s.arr], 1, s.len)
    BY <2>3 DEF Elements
  <2>7. \A i \in 1 .. s.len : old[i] = h[s.arr][i]
    <3> DEFINE array == h[s.arr]
    <3>1. \A i \in 1 .. s.len : array[i] \in Element
      BY <1>1, <1>5, <2>3, <2>4, ElementOfSeq
    <3>2. \A i \in 1 .. s.len - 1 + 1 : SubSeq(array, 1, s.len)[i] = array[1 + i - 1]
      <4> HIDE DEF array
      <4> QED BY <1>1, <3>1, SubSeqProperties
    <3> QED BY <1>1, <2>6, <3>2
  <2>8. ASSUME NEW i \in 1 .. need PROVE written[i] = want[i] /\ want[i] \in Element
    <3>1. i \in 1 .. Len(h[s.arr])
      BY <1>1, <1>5, <2>3, <2>4
    <3>2. CASE i <= s.len
      BY <1>1, <1>3, <2>7, <3>1, <3>2, ElementOfSeq
    <3>3. CASE ~(i <= s.len)
      <4>1. i \in s.len + 1 .. need
        BY <1>1, <3>3
      <4> QED BY <1>1, <1>3, <3>1, <3>3, <4>1, ElementOfSeq
    <3> QED BY <3>2, <3>3
  <2>9. /\ SubSeq(written, 1, need) \in Seq(Element) /\ Len(SubSeq(written, 1, need)) = need
        /\ \A i \in 1 .. need : SubSeq(written, 1, need)[i] = want[i]
    <3> HIDE DEF written, need, want
    <3>1. \A i \in 1 .. need : written[i] \in Element
      BY <2>8
    <3>2. /\ SubSeq(written, 1, need) \in Seq(Element)
          /\ Len(SubSeq(written, 1, need)) = IF 1 <= need THEN need - 1 + 1 ELSE 0
          /\ \A i \in 1 .. need - 1 + 1 : SubSeq(written, 1, need)[i] = written[1 + i - 1]
      BY <1>1, <3>1, SubSeqProperties
    <3> QED BY <1>1, <2>8, <3>2
  <2> HIDE DEF written, need, want
  <2> QED BY <1>3, <2>5, <2>9, SeqEqual DEF want
<1>6. CASE xs # <<>> /\ ~(need <= s.cap)
  <2>1. r = [heap |-> Append(h, fresh), slice |-> [arr |-> Len(h) + 1, len |-> need, cap |-> cap]]
    BY <1>6 DEF AppendTo
  <2>2. cap \in Nat /\ need <= cap
    BY <1>1, <1>6 DEF Grown
  <2>3. pad \in Seq(Element)
    <3>1. cap - need \in Nat
      BY <1>1, <2>2
    <3>2. pad \in [1 .. cap - need -> Element]
      BY DEF Element
    <3> HIDE DEF pad, cap, need
    <3> QED BY <3>1, <3>2, Written
  <2> HIDE DEF pad, cap
  <2>4. /\ fresh \in Seq(Element) /\ Len(fresh) = need + Len(pad) /\ Len(pad) \in Nat
        /\ \A i \in 1 .. need + Len(pad) : fresh[i] = IF i <= need THEN want[i] ELSE pad[i - need]
    <3> HIDE DEF want, need
    <3> QED BY <1>3, <2>3, ConcatProperties, LenProperties
  <2> HIDE DEF fresh, want, need
  <2>5. r.heap[Len(h) + 1] = fresh /\ Len(h) + 1 # 0
    BY <1>1, <2>1, <2>4 DEF Heap
  <2>6. Elements(r.heap, r.slice) = SubSeq(fresh, 1, need)
    <3>1. r.slice.arr = Len(h) + 1 /\ r.slice.len = need
      BY <2>1
    <3> QED BY <2>5, <3>1 DEF Elements
  <2>7. \A i \in 1 .. need : fresh[i] = want[i] /\ want[i] \in Element
    <3>1. \A i \in 1 .. need : i \in 1 .. need + Len(pad) /\ i <= need
      BY <1>1, <2>4
    <3>2. \A i \in 1 .. need : want[i] \in Element
      BY <1>3, ElementOfSeq
    <3> QED BY <2>4, <3>1, <3>2
  <2>8. /\ SubSeq(fresh, 1, need) \in Seq(Element)
        /\ Len(SubSeq(fresh, 1, need)) = IF 1 <= need THEN need - 1 + 1 ELSE 0
        /\ \A i \in 1 .. need - 1 + 1 : SubSeq(fresh, 1, need)[i] = fresh[1 + i - 1]
    BY <1>1, <2>7, SubSeqProperties
  <2>9. Len(SubSeq(fresh, 1, need)) = need /\ \A i \in 1 .. need : SubSeq(fresh, 1, need)[i] = want[i]
    BY <1>1, <2>7, <2>8
  <2> QED BY <1>3, <2>6, <2>8, <2>9, SeqEqual DEF want
<1> QED BY <1>4, <1>5, <1>6

LEMMA Reallocated ==
    ASSUME NEW h \in Heap, NEW s, Fits(h, s), NEW xs \in Seq(Element), NEW r, r = AppendTo(h, s, xs),
           xs # <<>>, s.len + Len(xs) > s.cap
    PROVE  /\ r.heap \in Heap /\ Whole(r.heap, r.slice)
           /\ r.slice.arr = Len(h) + 1 /\ r.slice.len = s.len + Len(xs)
           /\ \A i \in DOMAIN h : r.heap[i] = h[i]
BY Appended

LEMMA WholeKept ==
    ASSUME NEW h \in Heap, NEW k \in Heap, NEW a, Extends(h, k, a), NEW s, Whole(h, s)
    PROVE  Whole(k, s)
<1>1. DOMAIN h = 1 .. Len(h) /\ Len(h) \in Nat /\ Len(k) \in Nat
  BY LenProperties DEF Heap
<1> QED BY <1>1 DEF Whole, Fits, Extends

LEMMA ElementsKept ==
    ASSUME NEW h \in Heap, NEW k \in Heap, NEW a, Extends(h, k, a), NEW s, Whole(h, s), s.arr # a
    PROVE  Elements(k, s) = Elements(h, s)
<1>1. DOMAIN h = 1 .. Len(h) /\ Len(h) \in Nat
  BY LenProperties DEF Heap
<1> QED BY <1>1 DEF Whole, Fits, Extends, Elements

LEMMA NilFits == ASSUME NEW h \in Heap PROVE Whole(h, NilSlice)
<1>1. Len(h) \in Nat
  BY LenProperties DEF Heap
<1> QED BY <1>1 DEF Whole, Fits, NilSlice

LEMMA ClipFits ==
    ASSUME NEW h, NEW s, Whole(h, s)
    PROVE  Fits(h, Clip(s)) /\ Clip(s).cap = s.len /\ Clip(s).len = s.len /\ Clip(s).arr = s.arr
<1> DEFINE c == [arr |-> s.arr, len |-> s.len, cap |-> s.len]
<1>1. Clip(s) = c
  BY DEF Clip, Whole, Fits
<1>2. s.arr \in 0 .. Len(h) /\ s.len \in Nat /\ s.cap \in Nat /\ s.len <= s.cap
  BY DEF Whole, Fits
<1> QED BY <1>1, <1>2 DEF Whole, Fits

-----------------------------------------------------------------------------
(* The initial state *)

LEMMA InitInv == Init => IInv
<1> SUFFICES ASSUME Init PROVE IInv
  OBVIOUS
<1>1. /\ <<>> \in Heap /\ <<"a", "b">> \in Seq(Element) /\ <<"c">> \in Seq(Element)
      /\ Len(<<"a", "b">>) = 2 /\ Len(<<"c">>) = 1 /\ Len(<<>>) = 0
  BY DEF Heap, Element
<1>2. PICK two : two = AppendTo(<<>>, NilSlice, <<"a", "b">>)
  OBVIOUS
<1>3. Whole(<<>>, NilSlice)
  BY <1>1, NilFits
<1>4. two.heap \in Heap /\ Whole(two.heap, two.slice) /\ two.slice.arr = 1 /\ two.slice.len = 2
  <2>1. PICK h \in Heap : h = <<>>
    BY <1>1
  <2>2. PICK s : s = NilSlice
    OBVIOUS
  <2>3. PICK ab \in Seq(Element) : ab = <<"a", "b">>
    BY <1>1
  <2>4. Fits(h, s) /\ s.len = 0 /\ s.cap = 0 /\ Len(h) = 0 /\ ab # <<>> /\ Len(ab) = 2
    BY <1>1, <1>3, <2>1, <2>2, <2>3 DEF Whole, NilSlice
  <2>5. two = AppendTo(h, s, ab)
    BY <1>2, <2>1, <2>2, <2>3
  <2>6. s.len + Len(ab) > s.cap
    BY <2>4
  <2>7. Fits(h, s) /\ ab # <<>>
    BY <2>4
  <2>8. two.heap \in Heap /\ Whole(two.heap, two.slice)
        /\ two.slice.arr = Len(h) + 1 /\ two.slice.len = s.len + Len(ab)
    BY <2>5, <2>6, <2>7, Reallocated
  <2> QED BY <2>4, <2>8
<1>5. PICK three : three = AppendTo(two.heap, Clip(two.slice), <<"c">>)
  OBVIOUS
<1>6. Fits(two.heap, Clip(two.slice)) /\ Clip(two.slice).cap = 2 /\ Clip(two.slice).len = 2
  BY <1>4, ClipFits
<1>7. three.heap \in Heap /\ Whole(three.heap, three.slice) /\ three.slice.arr = Len(two.heap) + 1
  <2> DEFINE c == <<"c">>
  <2>1. c \in Seq(Element) /\ Len(c) = 1 /\ c # <<>> /\ three = AppendTo(two.heap, Clip(two.slice), c)
    BY <1>1, <1>5
  <2> HIDE DEF c
  <2> QED BY <1>4, <1>6, <2>1, Appended
<1>8. heap = three.heap /\ sentinel = three.slice
  BY <1>2, <1>5 DEF Init
<1>9. SlicesApart
  <2>1. routers \in Seq(RouterType) /\ DOMAIN routers = {1} /\ routers[1].mw = NilSlice
    BY DEF Init, RouterType, NilSlice
  <2>2. Whole(heap, NilSlice) /\ NilSlice.arr = 0
    BY <1>7, <1>8, NilFits DEF NilSlice
  <2>3. Len(two.heap) \in Nat
    BY <1>4, LenProperties DEF Heap
  <2>4. sentinel.arr # 0
    BY <1>7, <1>8, <2>3
  <2> QED BY <1>7, <1>8, <2>1, <2>2, <2>4 DEF SlicesApart
<1>10. Declared
  <2>1. \A r \in DOMAIN routers : routers[r].prefix = <<>>
    BY DEF Init
  <2>2. program \in Programs /\ program.calls \in Nat
    BY ProgramsAssumption DEF Init
  <2>3. log = <<>> /\ routes = <<>> /\ phase = "wiring" /\ cache \in [DOMAIN Types -> {NoOne}]
    BY DEF Init
  <2>4. log \in Seq(CallType) /\ Len(log) = 0 /\ routes \in Seq(RouteType)
    BY <2>3
  <2>5. \A r \in DOMAIN routers : routers[r].prefix \in Seq(1 .. Len(log))
    BY <2>1, EmptySeq
  <2>6. cache \in [DOMAIN Types -> Procs \cup {NoOne, "wiring"}]
    BY <2>3
  <2> QED BY <2>2, <2>3, <2>4, <2>5, <2>6 DEF Declared
<1>11. Requests
  BY DEF Init, Requests, Idle
<1>12. Planned
  BY DEF Init, Planned, Idle
<1> QED BY <1>9, <1>10, <1>11, <1>12 DEF IInv

-----------------------------------------------------------------------------
(* Wiring *)

LEMMA RouterFacts ==
    ASSUME IInv, NEW r \in DOMAIN routers
    PROVE  /\ routers[r] \in RouterType /\ routers[r].mw.arr \in 0 .. Len(heap)
           /\ Whole(heap, routers[r].mw) /\ Fits(heap, routers[r].mw)
           /\ Elements(heap, routers[r].mw) \in Seq(Element)
           /\ DOMAIN routers = 1 .. Len(routers) /\ Len(routers) \in Nat
           /\ Len(heap) \in Nat /\ heap \in Heap
<1>1. heap \in Heap /\ routers \in Seq(RouterType) /\ Whole(heap, routers[r].mw)
  BY DEF IInv, SlicesApart
<1>2. routers[r] \in RouterType /\ DOMAIN routers = 1 .. Len(routers) /\ Len(routers) \in Nat /\ Len(heap) \in Nat
  BY <1>1, ElementOfSeq, LenProperties DEF Heap
<1>3. Fits(heap, routers[r].mw)
  BY <1>1 DEF Whole
<1> QED BY <1>1, <1>2, <1>3, ElementsType DEF Fits

LEMMA MiddlewareIs ==
    ASSUME IInv, NEW kind \in {"tap"} \cup program.kinds
    PROVE  <<Middleware(kind)>> \in Seq(MiddlewareType) /\ Middleware(kind) \in Element
           /\ <<Middleware(kind)>> \in Seq(Element) /\ Len(<<Middleware(kind)>>) = 1
<1>1. Len(log) + 1 \in Nat /\ program \in Programs
  BY LenProperties DEF IInv, Declared
<1>2. Middleware(kind) \in MiddlewareType
  BY <1>1 DEF Middleware, MiddlewareType
<1> QED BY <1>2 DEF Element

LEMMA LogGrows ==
    ASSUME IInv, NEW call \in CallType, Calling(call)
    PROVE  /\ log' \in Seq(CallType) /\ Len(log') = Len(log) + 1 /\ Len(log) \in Nat
           /\ program' = program /\ program \in Programs /\ Len(log') <= program.calls
           /\ req' = req /\ sentinel' = sentinel /\ phase = "wiring"
           /\ \A s \in Seq(1 .. Len(log)) : s \in Seq(1 .. Len(log'))
<1>1. log \in Seq(CallType) /\ program \in Programs /\ program.calls \in Nat /\ Len(log) \in Nat
  BY ProgramsAssumption, LenProperties DEF IInv, Declared
<1>2. log' \in Seq(CallType) /\ Len(log') = Len(log) + 1
  BY <1>1 DEF Calling
<1>3. 1 .. Len(log) \subseteq 1 .. Len(log')
  BY <1>1, <1>2
<1> QED BY <1>1, <1>2, <1>3, SeqMonotonic DEF Calling

\* A step of the wiring leaves the requests that are not there yet alone.
LEMMA Quiet ==
    ASSUME IInv, phase = "wiring", req' = req
    PROVE  Requests' /\ Planned'
BY DEF IInv, Requests, Planned

LEMMA StepUse ==
    ASSUME IInv, NEW r \in DOMAIN routers, NEW kind \in program.kinds, Use(r, kind)
    PROVE  IInv'
<1> DEFINE one == <<Middleware(kind)>>
           mw == routers[r].mw
<1>1. PICK grown : grown = AppendTo(heap, mw, one)
  OBVIOUS
<1>2. one \in Seq(Element) /\ one \in Seq(MiddlewareType)
  BY MiddlewareIs
<1>3. heap' = grown.heap /\ routers' = [routers EXCEPT ![r].mw = grown.slice]
  BY <1>1 DEF Use
<1>4. heap' \in Heap /\ Extends(heap, heap', mw.arr) /\ Whole(heap', grown.slice)
      /\ (grown.slice.arr = mw.arr \/ grown.slice.arr = Len(heap) + 1)
  <2> HIDE DEF one, mw
  <2>1. Fits(heap, mw) /\ Whole(heap, mw) /\ heap \in Heap
    BY RouterFacts DEF mw
  <2> QED BY <1>1, <1>2, <1>3, <2>1, Appended
<1>5. PICK call \in CallType : Calling(call)
  <2>1. [op |-> "use", on |-> r, mw |-> one] \in CallType
    BY <1>2, RouterFacts DEF CallType
  <2> QED BY <2>1 DEF Use
<1>6. grown.slice \in [arr : Nat, len : Nat, cap : Nat]
  <2>1. Len(heap') \in Nat
    BY <1>4, LenProperties DEF Heap
  <2> QED BY <1>4, <2>1 DEF Whole, Fits
<1>7. routers' \in Seq(RouterType) /\ DOMAIN routers' = DOMAIN routers
      /\ routers'[r].mw = grown.slice /\ (\A q \in DOMAIN routers : routers'[q].prefix = routers[q].prefix)
      /\ \A q \in DOMAIN routers : q # r => routers'[q] = routers[q]
  <2>1. [routers[r] EXCEPT !.mw = grown.slice] \in RouterType
    BY <1>6, RouterFacts DEF RouterType
  <2>2. routers' = [routers EXCEPT ![r] = [routers[r] EXCEPT !.mw = grown.slice]]
    BY <1>3
  <2>3. routers' \in Seq(RouterType) /\ Len(routers') = Len(routers)
    <3>1. routers \in Seq(RouterType) /\ r \in 1 .. Len(routers)
      BY RouterFacts DEF IInv, SlicesApart
    <3> QED BY <2>1, <2>2, <3>1, ExceptSeq
  <2>4. DOMAIN routers' = DOMAIN routers
    BY <2>2
  <2> QED BY <2>1, <2>2, <2>3, <2>4, RouterFacts DEF RouterType
<1>8. SlicesApart'
  <2>1. sentinel' = sentinel /\ Whole(heap', sentinel) /\ sentinel.arr \in 1 .. Len(heap)
    <3>1. Whole(heap, sentinel) /\ sentinel.arr # 0 /\ heap \in Heap
      BY DEF IInv, SlicesApart
    <3>2. sentinel' = sentinel
      BY <1>5, LogGrows
    <3>3. Whole(heap', sentinel)
      BY <1>4, <3>1, WholeKept
    <3>4. sentinel.arr \in 0 .. Len(heap) /\ Len(heap) \in Nat
      BY <3>1, RouterFacts DEF Whole, Fits
    <3> QED BY <3>1, <3>2, <3>3, <3>4
  <2>2. ASSUME NEW q \in DOMAIN routers
        PROVE  Whole(heap', routers'[q].mw) /\ routers'[q].mw.arr # sentinel.arr
    <3>1. CASE q = r
      <4>1. mw.arr # sentinel.arr
        BY DEF IInv, SlicesApart
      <4> QED BY <1>4, <1>7, <2>1, <3>1, <4>1, RouterFacts
    <3>2. CASE q # r
      <4>1. Whole(heap, routers[q].mw) /\ routers[q].mw.arr # sentinel.arr /\ heap \in Heap
        BY DEF IInv, SlicesApart
      <4> QED BY <1>4, <1>7, <3>2, <4>1, WholeKept
    <3> QED BY <3>1, <3>2
  <2>3. ASSUME NEW q \in DOMAIN routers, NEW s \in DOMAIN routers, q # s, routers'[q].mw.arr # 0
        PROVE  routers'[q].mw.arr # routers'[s].mw.arr
    <3>1. routers[q].mw.arr # 0 => routers[q].mw.arr # routers[s].mw.arr
      BY <2>3 DEF IInv, SlicesApart
    <3>2. routers[s].mw.arr # 0 => routers[q].mw.arr # routers[s].mw.arr
      BY <2>3 DEF IInv, SlicesApart
    <3>3. routers[q].mw.arr \in 0 .. Len(heap) /\ routers[s].mw.arr \in 0 .. Len(heap) /\ Len(heap) \in Nat
      BY RouterFacts
    <3>4. PICK fresh : fresh = Len(heap) + 1
      OBVIOUS
    <3>5. /\ routers[q].mw.arr # fresh /\ routers[s].mw.arr # fresh
          /\ (grown.slice.arr = routers[r].mw.arr \/ grown.slice.arr = fresh)
      BY <1>4, <3>3, <3>4
    <3>6. CASE q = r
      BY <1>7, <2>3, <3>1, <3>2, <3>5, <3>6
    <3>7. CASE s = r
      BY <1>7, <2>3, <3>1, <3>2, <3>5, <3>7
    <3>8. CASE q # r /\ s # r
      BY <1>7, <2>3, <3>1, <3>8
    <3> QED BY <3>6, <3>7, <3>8
  <2> QED BY <1>4, <1>7, <2>1, <2>2, <2>3 DEF IInv, SlicesApart
<1>9. Declared'
  <2>1. \A q \in DOMAIN routers' : routers'[q].prefix \in Seq(1 .. Len(log'))
    BY <1>5, <1>7, LogGrows DEF IInv, Declared
  <2>2. phase' = phase /\ routes' = routes /\ cache' = cache
    BY DEF Use
  <2> QED BY <1>5, <2>1, <2>2, LogGrows DEF IInv, Declared
<1> QED BY <1>5, <1>8, <1>9, LogGrows, Quiet DEF IInv

LEMMA StepGroup ==
    ASSUME IInv, NEW r \in DOMAIN routers, Group(r)
    PROVE  IInv'
<1>1. PICK copy : copy = AppendTo(heap, NilSlice, Elements(heap, routers[r].mw))
  OBVIOUS
<1> DEFINE made == [mw |-> copy.slice, prefix |-> Append(routers[r].prefix, Len(log) + 1)]
<1>2. heap' = copy.heap /\ routers' = Append(routers, made)
  BY <1>1 DEF Group
<1>3. heap' \in Heap /\ Extends(heap, heap', 0) /\ Whole(heap', copy.slice)
      /\ (copy.slice.arr = 0 \/ copy.slice.arr = Len(heap) + 1)
  <2>1. heap \in Heap /\ Elements(heap, routers[r].mw) \in Seq(Element)
    BY RouterFacts
  <2>2. Whole(heap, NilSlice) /\ Fits(heap, NilSlice) /\ NilSlice.arr = 0
    BY <2>1, NilFits DEF Whole, NilSlice
  <2>3. PICK nil, xs : nil = NilSlice /\ xs = Elements(heap, routers[r].mw)
    OBVIOUS
  <2>4. copy = AppendTo(heap, nil, xs) /\ xs \in Seq(Element) /\ Fits(heap, nil) /\ Whole(heap, nil)
    BY <1>1, <2>1, <2>2, <2>3
  <2>5. /\ copy.heap \in Heap /\ Extends(heap, copy.heap, nil.arr) /\ Whole(copy.heap, copy.slice)
        /\ (copy.slice.arr = nil.arr \/ copy.slice.arr = Len(heap) + 1)
    BY <2>1, <2>4, Appended
  <2> QED BY <1>2, <2>2, <2>3, <2>5
<1>4. PICK call \in CallType : Calling(call)
  <2>1. [op |-> "group", on |-> r, mw |-> <<>>] \in CallType
    BY RouterFacts DEF CallType
  <2> QED BY <2>1 DEF Group
<1>5. routers[r].prefix \in Seq(1 .. Len(log)) /\ Append(routers[r].prefix, Len(log) + 1) \in Seq(1 .. Len(log'))
      /\ Append(routers[r].prefix, Len(log) + 1) \in Seq(Nat)
  <2>1. routers[r].prefix \in Seq(1 .. Len(log))
    BY DEF IInv, Declared
  <2>2. routers[r].prefix \in Seq(1 .. Len(log')) /\ Len(log) + 1 \in 1 .. Len(log')
    BY <1>4, <2>1, LogGrows
  <2>3. routers[r].prefix \in Seq(Nat)
    BY RouterFacts DEF RouterType
  <2> QED BY <2>1, <2>2, <2>3
<1>6. copy.slice \in [arr : Nat, len : Nat, cap : Nat]
  <2>1. Len(heap') \in Nat
    BY <1>3, LenProperties DEF Heap
  <2> QED BY <1>3, <2>1 DEF Whole, Fits
<1>7. routers' \in Seq(RouterType) /\ DOMAIN routers' = DOMAIN routers \cup {Len(routers) + 1}
      /\ routers'[Len(routers) + 1] = made /\ \A q \in DOMAIN routers : routers'[q] = routers[q]
  <2>1. made \in RouterType
    BY <1>5, <1>6 DEF RouterType
  <2>2. routers \in Seq(RouterType)
    BY DEF IInv, SlicesApart
  <2> HIDE DEF made
  <2> QED BY <1>2, <2>1, <2>2, RouterFacts
<1>8. SlicesApart'
  <2>1. sentinel' = sentinel /\ Whole(heap', sentinel) /\ sentinel.arr \in 1 .. Len(heap)
    <3>1. Whole(heap, sentinel) /\ sentinel.arr # 0 /\ heap \in Heap
      BY DEF IInv, SlicesApart
    <3>2. sentinel' = sentinel
      BY <1>4, LogGrows
    <3>3. Whole(heap', sentinel)
      BY <1>3, <3>1, WholeKept
    <3>4. sentinel.arr \in 0 .. Len(heap) /\ Len(heap) \in Nat
      BY <3>1, RouterFacts DEF Whole, Fits
    <3> QED BY <3>1, <3>2, <3>3, <3>4
  <2>2. ASSUME NEW q \in DOMAIN routers'
        PROVE  Whole(heap', routers'[q].mw) /\ routers'[q].mw.arr # sentinel.arr
    <3>1. CASE q \in DOMAIN routers
      <4>1. Whole(heap, routers[q].mw) /\ routers[q].mw.arr # sentinel.arr /\ heap \in Heap
        BY <3>1 DEF IInv, SlicesApart
      <4> QED BY <1>3, <1>7, <3>1, <4>1, WholeKept
    <3>2. CASE q = Len(routers) + 1
      BY <1>3, <1>7, <2>1, <3>2, RouterFacts
    <3> QED BY <1>7, <2>2, <3>1, <3>2
  <2>3. ASSUME NEW q \in DOMAIN routers', NEW s \in DOMAIN routers', q # s, routers'[q].mw.arr # 0
        PROVE  routers'[q].mw.arr # routers'[s].mw.arr
    <3>1. \A a \in DOMAIN routers : routers[a].mw.arr \in 0 .. Len(heap) /\ Len(heap) \in Nat
      BY RouterFacts
    <3>2. CASE q \in DOMAIN routers /\ s \in DOMAIN routers
      BY <1>7, <2>3, <3>2 DEF IInv, SlicesApart
    <3>3. CASE q = Len(routers) + 1 /\ s \in DOMAIN routers
      BY <1>3, <1>7, <2>3, <3>1, <3>3
    <3>4. CASE q \in DOMAIN routers /\ s = Len(routers) + 1
      BY <1>3, <1>7, <2>3, <3>1, <3>4
    <3> QED BY <1>7, <2>3, <3>2, <3>3, <3>4
  <2> QED BY <1>3, <1>7, <2>1, <2>2, <2>3 DEF IInv, SlicesApart
<1>9. Declared'
  <2>1. ASSUME NEW q \in DOMAIN routers' PROVE routers'[q].prefix \in Seq(1 .. Len(log'))
    <3>1. CASE q \in DOMAIN routers
      BY <1>4, <1>7, <3>1, LogGrows DEF IInv, Declared
    <3>2. CASE q = Len(routers) + 1
      <4>1. routers'[q].prefix = made.prefix
        BY <1>7, <3>2
      <4>2. made.prefix = Append(routers[r].prefix, Len(log) + 1)
        OBVIOUS
      <4> HIDE DEF made
      <4> QED BY <1>5, <4>1, <4>2
    <3> QED BY <1>7, <2>1, <3>1, <3>2
  <2>2. phase' = phase /\ routes' = routes /\ cache' = cache
    BY DEF Group
  <2> QED BY <1>4, <2>1, <2>2, LogGrows DEF IInv, Declared
<1> QED BY <1>4, <1>8, <1>9, LogGrows, Quiet DEF IInv

\* What Handle and HandleFunc add is a route of the type; they leave the
\* routers and the heap alone.
LEMMA Registers ==
    ASSUME IInv, NEW r \in DOMAIN routers, NEW t \in DOMAIN Types, NEW typed \in BOOLEAN,
           NEW own, Register(r, t, typed, PerRoute(own))
    PROVE  routes' \in Seq(RouteType)
<1>1. PerRoute(own) \in Seq(Element)
  BY MiddlewareIs DEF PerRoute
<1> DEFINE chain == Elements(heap, routers[r].mw) \o PerRoute(own)
           route == [chain |-> chain, prefix |-> routers[r].prefix, type |-> t, typed |-> typed]
<1>2. chain \in Seq(Element)
  <2>1. Elements(heap, routers[r].mw) \in Seq(Element)
    BY RouterFacts
  <2> QED BY <1>1, <2>1, ConcatProperties
<1>3. routers[r].prefix \in Seq(Nat)
  BY RouterFacts DEF RouterType
<1>4. route \in RouteType
  <2> HIDE DEF chain
  <2> QED BY <1>2, <1>3 DEF RouteType
<1>5. routes' = Append(routes, route) /\ routes \in Seq(RouteType)
  BY DEF Register, IInv, Declared
<1> HIDE DEF route
<1> QED BY <1>4, <1>5

LEMMA RegisteringCall ==
    ASSUME IInv, NEW r \in DOMAIN routers, NEW own, NEW op \in {"handle", "handleFunc"}
    PROVE  [op |-> op, on |-> r, mw |-> PerRoute(own)] \in CallType
<1>1. PerRoute(own) \in Seq(MiddlewareType)
  BY MiddlewareIs DEF PerRoute
<1> QED BY <1>1, RouterFacts DEF CallType

\* A call that leaves the slices alone keeps the invariant when the routes and
\* the cache keep their types.
LEMMA CallKeeps ==
    ASSUME IInv, NEW call \in CallType, Calling(call), heap' = heap, routers' = routers,
           phase' \in {"wiring", "serving", "panicked"}, routes' \in Seq(RouteType),
           cache' \in [DOMAIN Types -> Procs \cup {NoOne, "wiring"}]
    PROVE  IInv'
<1>1. SlicesApart'
  BY LogGrows DEF IInv, SlicesApart
<1>2. \A q \in DOMAIN routers' : routers'[q].prefix \in Seq(1 .. Len(log'))
  BY LogGrows DEF IInv, Declared
<1>3. Declared'
  BY <1>2, LogGrows DEF IInv, Declared
<1> QED BY <1>1, <1>3, LogGrows, Quiet DEF IInv

LEMMA StepHandle ==
    ASSUME IInv, NEW r \in DOMAIN routers, NEW t \in program.types, NEW own, Handle(r, t, own)
    PROVE  IInv'
<1>1. PICK call \in CallType : Calling(call)
  BY RegisteringCall DEF Handle
<1>2. t \in DOMAIN Types /\ phase \in {"wiring", "serving", "panicked"} /\ routes \in Seq(RouteType)
      /\ cache \in [DOMAIN Types -> Procs \cup {NoOne, "wiring"}]
  BY ProgramsAssumption DEF IInv, Declared
<1>3. heap' = heap /\ routers' = routers
  BY DEF Handle
<1>4. CASE cache[t] = NoOne /\ ~Bindable(config.parser, Types[t])
  <2>1. phase' = "panicked" /\ routes' = routes /\ cache' = cache
    BY <1>4 DEF Handle
  <2> QED BY <1>1, <1>2, <1>3, <2>1, CallKeeps
<1>5. CASE ~(cache[t] = NoOne /\ ~Bindable(config.parser, Types[t]))
  <2>1. phase' = phase /\ Register(r, t, TRUE, PerRoute(own))
        /\ cache' = [cache EXCEPT ![t] = IF @ = NoOne THEN "wiring" ELSE @]
    BY <1>5 DEF Handle
  <2>2. routes' \in Seq(RouteType)
    BY <1>2, <2>1, Registers
  <2>3. cache' \in [DOMAIN Types -> Procs \cup {NoOne, "wiring"}]
    BY <1>2, <2>1
  <2> QED BY <1>1, <1>2, <1>3, <2>1, <2>2, <2>3, CallKeeps
<1> QED BY <1>4, <1>5

LEMMA StepHandleFunc ==
    ASSUME IInv, NEW r \in DOMAIN routers, NEW t \in program.types, NEW own, HandleFunc(r, t, own)
    PROVE  IInv'
<1>1. PICK call \in CallType : Calling(call)
  BY RegisteringCall DEF HandleFunc
<1>2. t \in DOMAIN Types /\ phase \in {"wiring", "serving", "panicked"}
      /\ cache \in [DOMAIN Types -> Procs \cup {NoOne, "wiring"}]
  BY ProgramsAssumption DEF IInv, Declared
<1>3. heap' = heap /\ routers' = routers /\ phase' = phase /\ cache' = cache
      /\ Register(r, t, FALSE, PerRoute(own))
  BY DEF HandleFunc
<1>4. routes' \in Seq(RouteType)
  BY <1>2, <1>3, Registers
<1> QED BY <1>1, <1>2, <1>3, <1>4, CallKeeps

LEMMA StepListen == ASSUME IInv, ListenAndServe PROVE IInv'
BY DEF ListenAndServe, IInv, SlicesApart, Declared, Requests, Planned, Route

-----------------------------------------------------------------------------
(* Serving *)

\* A step of a request: the slices stay whole and apart, a plan once cached
\* stays, and who goes on to bind has the plan that is cached.
LEMMA MovesKeep ==
    ASSUME IInv, NEW p \in Procs, NEW pc, NEW next, Moves(p, pc, next),
           heap' \in Heap, Extends(heap, heap', 0),
           cache' \in [DOMAIN Types -> Procs \cup {NoOne, "wiring"}],
           \A t \in DOMAIN Types : cache[t] # NoOne => cache'[t] = cache[t],
           next.pc \in {"load", "store", "bind", "handle", "write", "done"},
           DOMAIN next = Fields, next.route \in DOMAIN routes,
           next.pc \in {"bind", "handle"} =>
               next.binder = cache'[routes[next.route].type] /\ cache'[routes[next.route].type] # NoOne
    PROVE  IInv'
<1>1. /\ phase = "serving" /\ req' = [req EXCEPT ![p] = next]
      /\ phase' = phase /\ program' = program /\ routers' = routers /\ routes' = routes
      /\ log' = log /\ sentinel' = sentinel
  BY DEF Moves
<1>2. heap \in Heap
  BY DEF IInv, SlicesApart
<1>3. SlicesApart'
  <2>1. \A s : Whole(heap, s) => Whole(heap', s)
    BY <1>2, WholeKept
  <2> QED BY <1>1, <2>1 DEF IInv, SlicesApart
<1>4. Declared'
  BY <1>1 DEF IInv, Declared
<1>5. req'[p] = next /\ (\A q \in Procs : q # p => req'[q] = req[q]) /\ req' = [q \in Procs |-> req'[q]]
  BY <1>1 DEF IInv, Requests
<1>6. Requests'
  BY <1>1, <1>5 DEF IInv, Requests
<1>7. Planned'
  <2> SUFFICES ASSUME NEW q \in Procs, req'[q].pc \in {"bind", "handle"}
               PROVE  req'[q].binder = cache'[routes'[req'[q].route].type]
                      /\ cache'[routes'[req'[q].route].type] # NoOne
    BY DEF Planned, Route
  <2>1. CASE q = p
    BY <1>1, <1>5, <2>1
  <2>2. CASE q # p
    <3>1. req'[q] = req[q] /\ req[q].pc \in {"bind", "handle"} /\ req[q].route \in DOMAIN routes
      BY <1>5, <2>2 DEF IInv, Requests
    <3>2. routes[req[q].route].type \in DOMAIN Types
      <4>1. routes[req[q].route] \in RouteType
        BY <3>1, ElementOfSeq, LenProperties DEF IInv, Declared
      <4> QED BY <4>1 DEF RouteType
    <3>3. req[q].binder = cache[routes[req[q].route].type] /\ cache[routes[req[q].route].type] # NoOne
      BY <3>1 DEF IInv, Planned, Route
    <3> QED BY <1>1, <3>1, <3>2, <3>3
  <2> QED BY <2>1, <2>2
<1> QED BY <1>3, <1>4, <1>6, <1>7 DEF IInv

LEMMA Untouched == ASSUME IInv, UNCHANGED heap PROVE heap' \in Heap /\ Extends(heap, heap', 0)
<1>1. heap \in Heap /\ Len(heap) \in Nat
  BY LenProperties DEF IInv, SlicesApart, Heap
<1> QED BY <1>1 DEF Extends

LEMMA RequestFacts ==
    ASSUME IInv, NEW p \in Procs, req[p].pc # "idle"
    PROVE  /\ DOMAIN req[p] = Fields /\ req[p].route \in DOMAIN routes
           /\ Route(p).type \in DOMAIN Types
           /\ cache \in [DOMAIN Types -> Procs \cup {NoOne, "wiring"}]
<1>1. req[p].route \in DOMAIN routes /\ DOMAIN req[p] = Fields
  BY DEF IInv, Requests
<1>2. routes[req[p].route] \in RouteType
  BY <1>1, ElementOfSeq, LenProperties DEF IInv, Declared
<1> QED BY <1>1, <1>2 DEF Route, RouteType, IInv, Declared

LEMMA StepArrive ==
    ASSUME IInv, NEW p \in Procs, NEW i \in DOMAIN routes, NEW in, Arrive(p, i, in)
    PROVE  IInv'
<1> DEFINE next == [pc |-> IF Stops(routes[i].chain) THEN "write" ELSE "load",
                    route |-> i, in |-> in, binder |-> NoOne, args |-> {}, ran |-> FALSE,
                    out |-> Out("ok", <<>>), resp |-> Response(0, "", <<>>)]
<1>1. Moves(p, "idle", next)
  BY DEF Arrive
<1>2. next.pc \in {"load", "write"} /\ DOMAIN next = Fields /\ next.route = i
  BY DEF Fields
<1>3. heap' = heap /\ cache' = cache
  BY DEF Arrive
<1>4. cache \in [DOMAIN Types -> Procs \cup {NoOne, "wiring"}]
  BY DEF IInv, Declared
<1> HIDE DEF next
<1> QED BY <1>1, <1>3, <1>4, <1>2, Untouched, MovesKeep

LEMMA StepLoad ==
    ASSUME IInv, NEW p \in Procs, Load(p)
    PROVE  IInv'
<1> DEFINE t == Route(p).type
<1>1. req[p].pc = "load" /\ heap' = heap /\ cache' = cache
  BY DEF Load, Moves
<1>2. /\ DOMAIN req[p] = Fields /\ req[p].route \in DOMAIN routes /\ t = routes[req[p].route].type
      /\ cache \in [DOMAIN Types -> Procs \cup {NoOne, "wiring"}]
  BY <1>1, RequestFacts DEF Route
<1> DEFINE used == [req[p] EXCEPT !.pc = "bind", !.binder = cache[t]]
           built == [req[p] EXCEPT !.pc = "store", !.binder = p]
           err == Out("error", BuildError(Types[t]))
           refused == [req[p] EXCEPT !.pc = "write", !.out = err]
<1>3. /\ cache[t] # NoOne => Moves(p, "load", used)
      /\ cache[t] = NoOne => Moves(p, "load", built) \/ Moves(p, "load", refused)
  BY DEF Load
<1> HIDE DEF err
<1>4. /\ DOMAIN used = Fields /\ used.pc = "bind" /\ used.binder = cache[t] /\ used.route = req[p].route
      /\ DOMAIN built = Fields /\ built.pc = "store" /\ built.route = req[p].route
      /\ DOMAIN refused = Fields /\ refused.pc = "write" /\ refused.route = req[p].route
  BY <1>2 DEF Fields
<1> HIDE DEF used, built, refused
<1>5. CASE Moves(p, "load", used) /\ cache[t] # NoOne
  BY <1>1, <1>2, <1>4, <1>5, Untouched, MovesKeep
<1>6. CASE Moves(p, "load", built)
  BY <1>1, <1>2, <1>4, <1>6, Untouched, MovesKeep
<1>7. CASE Moves(p, "load", refused)
  BY <1>1, <1>2, <1>4, <1>7, Untouched, MovesKeep
<1> QED BY <1>3, <1>5, <1>6, <1>7

LEMMA StepLoadOrStore ==
    ASSUME IInv, NEW p \in Procs, LoadOrStore(p)
    PROVE  IInv'
<1> DEFINE t == Route(p).type
           stored == IF cache[t] = NoOne THEN p ELSE cache[t]
           next == [req[p] EXCEPT !.pc = "bind", !.binder = stored]
<1>1. Moves(p, "store", next) /\ heap' = heap /\ cache' = [cache EXCEPT ![t] = stored] /\ req[p].pc = "store"
  BY DEF LoadOrStore, Moves
<1>2. /\ DOMAIN req[p] = Fields /\ req[p].route \in DOMAIN routes /\ t \in DOMAIN Types
      /\ t = routes[req[p].route].type /\ cache \in [DOMAIN Types -> Procs \cup {NoOne, "wiring"}]
  BY <1>1, RequestFacts DEF Route
<1>3. stored # NoOne /\ stored \in Procs \cup {NoOne, "wiring"}
  BY <1>2, ProcsAssumption DEF NoOne
<1>4. DOMAIN next = Fields /\ next.pc = "bind" /\ next.binder = stored /\ next.route = req[p].route
  BY <1>2 DEF Fields
<1>5. cache' \in [DOMAIN Types -> Procs \cup {NoOne, "wiring"}] /\ cache'[t] = stored
      /\ \A u \in DOMAIN Types : cache[u] # NoOne => cache'[u] = cache[u]
  BY <1>1, <1>2, <1>3
<1> HIDE DEF t, stored, next
<1> QED BY <1>1, <1>2, <1>3, <1>4, <1>5, Untouched, MovesKeep

LEMMA StepBindRequest ==
    ASSUME IInv, NEW p \in Procs, BindRequest(p)
    PROVE  IInv'
<1>1. req[p].pc = "bind" /\ heap' = heap /\ cache' = cache
  BY DEF BindRequest, Moves
<1>2. /\ DOMAIN req[p] = Fields /\ req[p].route \in DOMAIN routes
      /\ cache \in [DOMAIN Types -> Procs \cup {NoOne, "wiring"}]
  BY <1>1, RequestFacts
<1>3. req[p].binder = cache[routes[req[p].route].type] /\ cache[routes[req[p].route].type] # NoOne
  BY <1>1 DEF IInv, Planned, Route
<1> DEFINE b == BuildBinder(TypeOf(p))
           err == Bind(config.parser, b, req[p].in)
           out == Out("error", err)
           args == Bound(config.parser, b, req[p].in)
           refused == [req[p] EXCEPT !.pc = "write", !.out = out]
           bound == [req[p] EXCEPT !.pc = "handle", !.ran = TRUE, !.args = args]
<1>4. Moves(p, "bind", refused) \/ Moves(p, "bind", bound)
  <2>1. Moves(p, "bind", IF err # <<>> THEN refused ELSE bound)
    BY DEF BindRequest
  <2> HIDE DEF err, refused, bound
  <2> QED BY <2>1
<1> HIDE DEF b, err, out, args
<1>5. /\ DOMAIN refused = Fields /\ refused.pc = "write" /\ refused.route = req[p].route
      /\ DOMAIN bound = Fields /\ bound.pc = "handle" /\ bound.route = req[p].route
      /\ bound.binder = req[p].binder
  BY <1>2 DEF Fields
<1> HIDE DEF refused, bound
<1>6. CASE Moves(p, "bind", refused)
  BY <1>1, <1>2, <1>5, <1>6, Untouched, MovesKeep
<1>7. CASE Moves(p, "bind", bound)
  BY <1>1, <1>2, <1>3, <1>5, <1>7, Untouched, MovesKeep
<1> QED BY <1>4, <1>6, <1>7

\* A step to "write" or "done" that leaves the cache alone.
LEMMA StepAside ==
    ASSUME IInv, NEW p \in Procs, NEW pc \in {"handle", "write"}, NEW next, Moves(p, pc, next),
           heap' \in Heap, Extends(heap, heap', 0), cache' = cache,
           DOMAIN next = DOMAIN req[p], next.route = req[p].route, next.pc \in {"write", "done"}
    PROVE  IInv'
<1>1. req[p].pc # "idle"
  BY DEF Moves
<1>2. /\ DOMAIN req[p] = Fields /\ req[p].route \in DOMAIN routes
      /\ cache \in [DOMAIN Types -> Procs \cup {NoOne, "wiring"}]
  BY <1>1, RequestFacts
<1> QED BY <1>2, MovesKeep

LEMMA Fielded ==
    ASSUME IInv, NEW p \in Procs, req[p].pc # "idle", NEW pc, NEW out, NEW resp
    PROVE  LET wrote == [req[p] EXCEPT !.pc = pc, !.out = out]
               done == [req[p] EXCEPT !.pc = pc, !.resp = resp]
           IN  /\ DOMAIN wrote = DOMAIN req[p] /\ wrote.route = req[p].route /\ wrote.pc = pc
               /\ DOMAIN done = DOMAIN req[p] /\ done.route = req[p].route /\ done.pc = pc
<1>1. DOMAIN req[p] = Fields
  BY RequestFacts
<1> QED BY <1>1 DEF Fields

LEMMA StepHandlerReturns ==
    ASSUME IInv, NEW p \in Procs, NEW kind, NEW err, HandlerReturns(p, kind, err)
    PROVE  IInv'
<1> DEFINE next == [req[p] EXCEPT !.pc = "write", !.out = Out(kind, err)]
<1>1. Moves(p, "handle", next) /\ req[p].pc # "idle" /\ heap' = heap /\ cache' = cache
  BY DEF HandlerReturns, Moves
<1>2. DOMAIN next = DOMAIN req[p] /\ next.route = req[p].route /\ next.pc = "write"
  BY <1>1, Fielded
<1> HIDE DEF next
<1> QED BY <1>1, <1>2, Untouched, StepAside

LEMMA StepWriteResponse ==
    ASSUME IInv, NEW p \in Procs, WriteResponse(p)
    PROVE  IInv'
<1>1. PICK resp : Moves(p, "write", [req[p] EXCEPT !.pc = "done", !.resp = resp])
  BY DEF WriteResponse
<1> DEFINE next == [req[p] EXCEPT !.pc = "done", !.resp = resp]
<1>2. Moves(p, "write", next) /\ req[p].pc # "idle" /\ heap' = heap /\ cache' = cache
  BY <1>1 DEF WriteResponse, Moves
<1>3. DOMAIN next = DOMAIN req[p] /\ next.route = req[p].route /\ next.pc = "done"
  BY <1>2, Fielded
<1> HIDE DEF next
<1> QED BY <1>2, <1>3, Untouched, StepAside

\* An error made from the sentinel has an array of its own: the sentinel's is
\* clipped first.
LEMMA DecoratedApart ==
    ASSUME IInv, NEW p \in Procs
    PROVE  Decorated(p).heap \in Heap /\ Extends(heap, Decorated(p).heap, 0)
<1> DEFINE mine == <<p>>
           s == Clip(sentinel)
           d == AppendTo(heap, s, mine)
<1>1. heap \in Heap /\ Whole(heap, sentinel) /\ sentinel.len \in Nat
  BY DEF IInv, SlicesApart, Whole, Fits
<1>2. Fits(heap, s) /\ s.cap = sentinel.len /\ s.len = sentinel.len
  BY <1>1, ClipFits
<1>3. mine \in Seq(Element) /\ mine # <<>> /\ Len(mine) = 1
  BY DEF Element
<1>4. s.len + Len(mine) > s.cap
  BY <1>1, <1>2, <1>3
<1>5. d = Decorated(p)
  BY DEF Decorated
<1> HIDE DEF mine, s, d
<1>6. PICK r : r = d /\ r = AppendTo(heap, s, mine)
  BY DEF d
<1>7. Fits(heap, s) /\ mine \in Seq(Element) /\ mine # <<>>
  BY <1>2, <1>3
<1>8. r.heap \in Heap /\ Extends(heap, r.heap, s.arr) /\ \A i \in DOMAIN heap : r.heap[i] = heap[i]
  BY <1>1, <1>4, <1>6, <1>7, Appended, Reallocated
<1>9. Extends(heap, r.heap, 0)
  BY <1>8 DEF Extends
<1> QED BY <1>5, <1>6, <1>8, <1>9

LEMMA StepHandlerDecorates ==
    ASSUME IInv, NEW p \in Procs, HandlerDecorates(p)
    PROVE  IInv'
<1> DEFINE out == [Out("error", New("conflict")) EXCEPT !.own = Decorated(p).slice]
           next == [req[p] EXCEPT !.pc = "write", !.out = out]
<1>1. Moves(p, "handle", next) /\ req[p].pc # "idle" /\ heap' = Decorated(p).heap /\ cache' = cache
  BY DEF HandlerDecorates, Moves
<1> HIDE DEF out
<1>2. DOMAIN next = DOMAIN req[p] /\ next.route = req[p].route /\ next.pc = "write"
  BY <1>1, Fielded
<1> HIDE DEF next
<1> QED BY <1>1, <1>2, DecoratedApart, StepAside

-----------------------------------------------------------------------------
LEMMA StepInv == IInv /\ [Next]_vars => IInv'
<1> SUFFICES ASSUME IInv, [Next]_vars PROVE IInv'
  OBVIOUS
<1>1. CASE UNCHANGED vars
  BY <1>1 DEF vars, IInv, SlicesApart, Declared, Requests, Planned, Route
<1>2. CASE \E r \in DOMAIN routers :
              \/ \E k \in program.kinds : Use(r, k)
              \/ Group(r)
              \/ \E t \in program.types, own \in program.perRoute : Handle(r, t, own) \/ HandleFunc(r, t, own)
  BY <1>2, StepUse, StepGroup, StepHandle, StepHandleFunc
<1>3. CASE ListenAndServe
  BY <1>3, StepListen
<1>4. ASSUME NEW p \in Procs,
             \/ \E i \in DOMAIN routes, in \in program.inputs : Arrive(p, i, in)
             \/ Load(p) \/ LoadOrStore(p) \/ BindRequest(p)
             \/ HandlerReturns(p, "ok", <<>>) \/ HandlerReturns(p, "panic", <<>>)
             \/ HandlerReturns(p, "abort", <<>>)
             \/ \E e \in program.errors : HandlerReturns(p, "error", e)
             \/ HandlerDecorates(p)
             \/ WriteResponse(p)
      PROVE  IInv'
  BY <1>4, StepArrive, StepLoad, StepLoadOrStore, StepBindRequest, StepHandlerReturns,
     StepHandlerDecorates, StepWriteResponse
<1> QED BY <1>1, <1>2, <1>3, <1>4 DEF Next

\* IInv holds initially and every step preserves it.
THEOREM Inductive == Spec => []IInv
BY InitInv, StepInv, PTL DEF Spec

\* Every variable of the router keeps its type, and above all no slice, of
\* whatever router or error, ever leaves its backing array.
THEOREM TypeCorrect == Spec => []TypeOK
<1>1. IInv => TypeOK
  <2> SUFFICES ASSUME IInv PROVE TypeOK
    OBVIOUS
  <2>1. \A s : Whole(heap, s) => SliceOK(s)
    BY DEF Whole, Fits, SliceOK, Slices
  <2>2. \A r \in DOMAIN routers : SliceOK(routers[r].mw) /\ routers[r].prefix \in Seq(1 .. Len(log))
    BY <2>1 DEF IInv, SlicesApart, Declared
  <2>3. SliceOK(sentinel)
    BY <2>1 DEF IInv, SlicesApart
  <2>4. ASSUME NEW i \in DOMAIN routes PROVE routes[i].type \in DOMAIN Types /\ routes[i].typed \in BOOLEAN
    <3>1. routes[i] \in RouteType
      BY ElementOfSeq, LenProperties DEF IInv, Declared
    <3> QED BY <3>1 DEF RouteType
  <2> QED BY <2>2, <2>3, <2>4 DEF IInv, Declared, Requests, TypeOK
<1> QED BY <1>1, Inductive, PTL

\* Requests that race to build a type's plan all bind by the one that is
\* cached: the first stored stays.
THEOREM OneBinderEver == Spec => []OneBinder
<1>1. IInv => OneBinder
  BY DEF IInv, Planned, OneBinder, Reached
<1> QED BY <1>1, Inductive, PTL

\* Whatever grows, the routers that stay as they are keep the middleware they
\* have, and the shared error keeps its reasons.
Undisturbed ==
    /\ \A r \in DOMAIN routers :
           routers'[r].mw = routers[r].mw => Elements(heap', routers[r].mw) = Elements(heap, routers[r].mw)
    /\ Elements(heap', sentinel) = Elements(heap, sentinel)

LEMMA Kept ==
    ASSUME IInv, heap' \in Heap, NEW a, Extends(heap, heap', a), a # sentinel.arr,
           \A r \in DOMAIN routers : routers'[r].mw = routers[r].mw => routers[r].mw.arr # a \/ a = 0
    PROVE  Undisturbed
<1>1. heap \in Heap /\ Whole(heap, sentinel) /\ \A r \in DOMAIN routers : Whole(heap, routers[r].mw)
  BY DEF IInv, SlicesApart
<1>2. Elements(heap', sentinel) = Elements(heap, sentinel)
  BY <1>1, ElementsKept
<1>3. ASSUME NEW r \in DOMAIN routers, routers'[r].mw = routers[r].mw
      PROVE  Elements(heap', routers[r].mw) = Elements(heap, routers[r].mw)
  <2>1. CASE routers[r].mw.arr # a
    BY <1>1, <2>1, ElementsKept
  <2>2. CASE routers[r].mw.arr = 0
    BY <2>2 DEF Elements
  <2> QED BY <1>3, <2>1, <2>2
<1> QED BY <1>2, <1>3 DEF Undisturbed

LEMMA UseKeeps ==
    ASSUME IInv, NEW r \in DOMAIN routers, NEW kind \in program.kinds, Use(r, kind)
    PROVE  Undisturbed
<1> DEFINE one == <<Middleware(kind)>>
           mw == routers[r].mw
<1>1. PICK grown : grown = AppendTo(heap, mw, one)
  OBVIOUS
<1>2. heap' = grown.heap /\ routers' = [routers EXCEPT ![r].mw = grown.slice]
  BY <1>1 DEF Use
<1>3. one \in Seq(Element) /\ Len(one) = 1 /\ Fits(heap, mw) /\ heap \in Heap /\ mw.len \in Nat
  BY MiddlewareIs, RouterFacts DEF Fits
<1>4. heap' \in Heap /\ Extends(heap, heap', mw.arr) /\ grown.slice.len = mw.len + Len(one)
  <2>1. one \in Seq(Element) /\ Fits(heap, mw) /\ heap \in Heap
    BY <1>3
  <2> HIDE DEF one, mw
  <2> QED BY <1>1, <1>2, <2>1, Appended
<1>5. mw.arr # sentinel.arr
  BY DEF IInv, SlicesApart
<1>6. ASSUME NEW q \in DOMAIN routers, routers'[q].mw = routers[q].mw
      PROVE  routers[q].mw.arr # mw.arr \/ mw.arr = 0
  <2>1. routers'[r].mw = grown.slice
    BY <1>2, RouterFacts DEF RouterType
  <2>2. q # r
    BY <1>3, <1>4, <1>6, <2>1
  <2> QED BY <2>2 DEF IInv, SlicesApart
<1> HIDE DEF mw
<1> QED BY <1>4, <1>5, <1>6, Kept

LEMMA StepUndisturbed == IInv /\ [Next]_vars => [Undisturbed]_vars
<1> SUFFICES ASSUME IInv, [Next]_vars PROVE [Undisturbed]_vars
  OBVIOUS
<1>1. heap \in Heap /\ sentinel.arr # 0
  BY DEF IInv, SlicesApart
<1>2. heap' = heap => Undisturbed
  BY DEF Undisturbed
<1>3. ASSUME heap' \in Heap, Extends(heap, heap', 0) PROVE Undisturbed
  BY <1>1, <1>3, Kept
<1>4. ASSUME NEW r \in DOMAIN routers, NEW k \in program.kinds, Use(r, k) PROVE Undisturbed
  BY <1>4, UseKeeps
<1>5. ASSUME NEW r \in DOMAIN routers, Group(r) PROVE Undisturbed
  <2>1. PICK copy : copy = AppendTo(heap, NilSlice, Elements(heap, routers[r].mw))
    OBVIOUS
  <2>2. heap' = copy.heap
    BY <1>5, <2>1 DEF Group
  <2>3. Fits(heap, NilSlice) /\ NilSlice.arr = 0 /\ Elements(heap, routers[r].mw) \in Seq(Element)
    BY <1>1, NilFits, RouterFacts DEF Whole, NilSlice
  <2> QED BY <1>1, <1>3, <2>1, <2>2, <2>3, Appended
<1>6. ASSUME NEW p \in Procs, HandlerDecorates(p) PROVE Undisturbed
  BY <1>3, <1>6, DecoratedApart DEF HandlerDecorates
<1>7. ASSUME NEW r \in DOMAIN routers, NEW t, NEW own, Handle(r, t, own) \/ HandleFunc(r, t, own)
      PROVE  heap' = heap
  BY <1>7 DEF Handle, HandleFunc
<1>8. ListenAndServe => heap' = heap
  BY DEF ListenAndServe
<1>9. ASSUME NEW p \in Procs, NEW i, NEW in, NEW kind, NEW err,
             Arrive(p, i, in) \/ Load(p) \/ LoadOrStore(p) \/ BindRequest(p)
                 \/ HandlerReturns(p, kind, err) \/ WriteResponse(p)
      PROVE  heap' = heap
  BY <1>9 DEF Arrive, Load, LoadOrStore, BindRequest, HandlerReturns, WriteResponse
<1> QED BY <1>2, <1>4, <1>5, <1>6, <1>7, <1>8, <1>9 DEF Next

\* No two routers share an array: what one takes up or hands down never shows
\* in the middleware of another, nor in an error that others share.
THEOREM GroupsDoNotAlias == Spec => [][Undisturbed]_vars
BY StepUndisturbed, Inductive, PTL DEF Spec

-----------------------------------------------------------------------------
(* What Use and Group make of the routers' middleware. *)

LEMMA UseElements ==
    ASSUME IInv, NEW r \in DOMAIN routers, NEW kind \in program.kinds, Use(r, kind)
    PROVE  /\ DOMAIN routers' = DOMAIN routers
           /\ Elements(heap', routers'[r].mw) = Elements(heap, routers[r].mw) \o <<Middleware(kind)>>
           /\ \A q \in DOMAIN routers :
                  /\ routers'[q].prefix = routers[q].prefix
                  /\ q # r => Elements(heap', routers'[q].mw) = Elements(heap, routers[q].mw)
<1> DEFINE one == <<Middleware(kind)>>
           mw == routers[r].mw
<1>1. PICK grown : grown = AppendTo(heap, mw, one)
  OBVIOUS
<1>2. heap' = grown.heap /\ routers' = [routers EXCEPT ![r].mw = grown.slice]
  BY <1>1 DEF Use
<1>3. one \in Seq(Element) /\ Fits(heap, mw) /\ heap \in Heap
  BY MiddlewareIs, RouterFacts
<1>4. Elements(heap', grown.slice) = Elements(heap, mw) \o one
  <2> HIDE DEF one, mw
  <2> QED BY <1>1, <1>2, <1>3, AppendedElements
<1>5. /\ DOMAIN routers' = DOMAIN routers /\ routers'[r].mw = grown.slice
      /\ \A q \in DOMAIN routers : routers'[q].prefix = routers[q].prefix /\ (q # r => routers'[q] = routers[q])
  <2>1. \A q \in DOMAIN routers : routers[q] \in RouterType
    BY RouterFacts
  <2> QED BY <1>2, <2>1 DEF RouterType
<1>6. Undisturbed
  BY UseKeeps
<1> QED BY <1>4, <1>5, <1>6 DEF Undisturbed

LEMMA GroupElements ==
    ASSUME IInv, NEW r \in DOMAIN routers, Group(r)
    PROVE  \E g : /\ routers' = Append(routers, g) /\ g.prefix = Append(routers[r].prefix, Len(log) + 1)
                  /\ Elements(heap', g.mw) = Elements(heap, routers[r].mw)
                  /\ \A q \in DOMAIN routers : Elements(heap', routers[q].mw) = Elements(heap, routers[q].mw)
<1> DEFINE mw == Elements(heap, routers[r].mw)
<1>1. PICK copy : copy = AppendTo(heap, NilSlice, mw)
  OBVIOUS
<1> DEFINE g == [mw |-> copy.slice, prefix |-> Append(routers[r].prefix, Len(log) + 1)]
<1>2. heap' = copy.heap /\ routers' = Append(routers, g)
  BY <1>1 DEF Group
<1>3. mw \in Seq(Element) /\ Fits(heap, NilSlice) /\ heap \in Heap /\ NilSlice.arr = 0
  BY RouterFacts, NilFits DEF Whole, NilSlice
<1> HIDE DEF mw
<1>4. Elements(heap', copy.slice) = Elements(heap, NilSlice) \o mw
  BY <1>1, <1>2, <1>3, AppendedElements
<1>5. Elements(heap, NilSlice) \o mw = mw
  BY <1>3, ConcatEmptySeq DEF Elements
<1>6. Extends(heap, heap', 0) /\ heap' \in Heap
  BY <1>1, <1>2, <1>3, Appended
<1>7. ASSUME NEW q \in DOMAIN routers PROVE Elements(heap', routers[q].mw) = Elements(heap, routers[q].mw)
  <2>1. CASE routers[q].mw.arr = 0
    BY <2>1 DEF Elements
  <2>2. CASE routers[q].mw.arr # 0
    BY <1>3, <1>6, <2>2, RouterFacts, ElementsKept
  <2> QED BY <2>1, <2>2
<1>8. g.prefix = Append(routers[r].prefix, Len(log) + 1) /\ g.mw = copy.slice
  OBVIOUS
<1> HIDE DEF g
<1> QED BY <1>2, <1>4, <1>5, <1>7, <1>8 DEF mw

-----------------------------------------------------------------------------
(* Middleware and reasons: what the slices hold. *)

Wired ==
    /\ config \in program.configs
    /\ Elements(heap, sentinel) = <<"a", "b", "c">>
    /\ \A r \in DOMAIN routers : Elements(heap, routers[r].mw) \in Seq(MiddlewareType)
    /\ \A i \in DOMAIN routes : routes[i].chain \in Seq(MiddlewareType)

LEMMA InitWired == Init => Wired
<1> SUFFICES ASSUME Init PROVE Wired
  OBVIOUS
<1> DEFINE ab == <<"a", "b">>
           c == <<"c">>
<1>1. /\ <<>> \in Heap /\ ab \in Seq(Element) /\ c \in Seq(Element)
      /\ Len(ab) = 2 /\ Len(c) = 1 /\ ab # <<>> /\ Len(<<>>) = 0
  BY DEF Heap, Element
<1>2. ab \o c = <<"a", "b", "c">> /\ <<>> \o ab = ab
  <2> DEFINE abc == <<"a", "b", "c">>
  <2>1. abc \in Seq(Element) /\ Len(abc) = 3 /\ abc[1] = "a" /\ abc[2] = "b" /\ abc[3] = "c"
    BY DEF Element
  <2>2. ab[1] = "a" /\ ab[2] = "b" /\ c[1] = "c"
    OBVIOUS
  <2> HIDE DEF abc, ab, c
  <2>3. /\ ab \o c \in Seq(Element) /\ Len(ab \o c) = 2 + 1
        /\ \A i \in 1 .. 2 + 1 : (ab \o c)[i] = IF i <= 2 THEN ab[i] ELSE c[i - 2]
    <3>1. ab \in Seq(Element) /\ c \in Seq(Element)
      BY <1>1 DEF ab, c
    <3>2. Len(ab) = 2 /\ Len(c) = 1
      BY <1>1 DEF ab, c
    <3>3. /\ ab \o c \in Seq(Element) /\ Len(ab \o c) = Len(ab) + Len(c)
          /\ \A i \in 1 .. Len(ab) + Len(c) : (ab \o c)[i] = IF i <= Len(ab) THEN ab[i] ELSE c[i - Len(ab)]
      BY <3>1, ConcatProperties
    <3> QED BY <3>2, <3>3
  <2>4. \A i \in 1 .. 3 : (ab \o c)[i] = abc[i]
    BY <2>1, <2>2, <2>3
  <2>5. ab \o c = abc
    BY <2>1, <2>3, <2>4, SeqEqual
  <2> QED BY <1>1, <2>5, ConcatEmptySeq DEF abc
<1>3. PICK two : two = AppendTo(<<>>, NilSlice, ab)
  OBVIOUS
<1>4. PICK three : three = AppendTo(two.heap, Clip(two.slice), c)
  OBVIOUS
<1>5. heap = three.heap /\ sentinel = three.slice
  BY <1>3, <1>4 DEF Init
<1> HIDE DEF ab, c
<1>6. PICK h \in Heap : h = <<>>
  BY <1>1
<1>7. Fits(h, NilSlice) /\ NilSlice.len = 0 /\ NilSlice.cap = 0 /\ Elements(h, NilSlice) = <<>>
  BY NilFits DEF Whole, NilSlice, Elements
<1>8. two = AppendTo(h, NilSlice, ab)
  BY <1>3, <1>6
<1>9. two.heap \in Heap /\ Whole(two.heap, two.slice) /\ Elements(two.heap, two.slice) = ab
  <2>1. NilSlice.len + Len(ab) > NilSlice.cap
    BY <1>1, <1>7
  <2>2. two.heap \in Heap /\ Whole(two.heap, two.slice)
    BY <1>1, <1>7, <1>8, <2>1, Reallocated
  <2>3. Elements(two.heap, two.slice) = <<>> \o ab
    <3>1. PICK s : s = NilSlice
      OBVIOUS
    <3>2. Fits(h, s) /\ two = AppendTo(h, s, ab) /\ Elements(h, s) = <<>>
      BY <1>7, <1>8, <3>1
    <3> QED BY <1>1, <3>2, AppendedElements
  <2> QED BY <1>2, <2>2, <2>3
<1>10. Fits(two.heap, Clip(two.slice)) /\ Elements(two.heap, Clip(two.slice)) = ab
  <2>1. Clip(two.slice).len = two.slice.len /\ Clip(two.slice).arr = two.slice.arr
    BY <1>9, ClipFits
  <2> QED BY <1>9, <2>1, ClipFits DEF Elements
<1>11. Elements(three.heap, three.slice) = ab \o c
  <2>1. PICK s : s = Clip(two.slice)
    OBVIOUS
  <2>2. PICK k \in Heap : k = two.heap
    BY <1>9
  <2>3. Fits(k, s) /\ three = AppendTo(k, s, c) /\ Elements(k, s) = ab
    BY <1>4, <1>10, <2>1, <2>2
  <2>4. c \in Seq(Element)
    BY <1>1
  <2>5. Elements(three.heap, three.slice) = Elements(k, s) \o c
    BY <2>3, <2>4, AppendedElements
  <2> QED BY <2>3, <2>5
<1>12. Elements(heap, sentinel) = <<"a", "b", "c">>
  BY <1>2, <1>5, <1>11 DEF ab, c
<1>13. ASSUME NEW r \in DOMAIN routers PROVE Elements(heap, routers[r].mw) \in Seq(MiddlewareType)
  <2>1. routers[r].mw.arr = 0
    BY DEF Init, NilSlice
  <2>2. Elements(heap, routers[r].mw) = <<>>
    BY <2>1 DEF Elements
  <2> QED BY <2>2, EmptySeq
<1> QED BY <1>12, <1>13 DEF Wired, Init

LEMMA RegisterWired ==
    ASSUME IInv, Wired, NEW r \in DOMAIN routers, NEW t, NEW typed, NEW own, Register(r, t, typed, PerRoute(own))
    PROVE  \A i \in DOMAIN routes' : routes'[i].chain \in Seq(MiddlewareType)
<1> DEFINE chain == Elements(heap, routers[r].mw) \o PerRoute(own)
           route == [chain |-> chain, prefix |-> routers[r].prefix, type |-> t, typed |-> typed]
<1>1. routes' = Append(routes, route) /\ routes \in Seq(RouteType)
  BY DEF Register, IInv, Declared
<1>2. PerRoute(own) \in Seq(MiddlewareType)
  <2>1. "tap" \in {"tap"} \cup program.kinds
    OBVIOUS
  <2>2. <<Middleware("tap")>> \in Seq(MiddlewareType)
    BY <2>1, MiddlewareIs
  <2>3. <<>> \in Seq(MiddlewareType)
    BY EmptySeq
  <2> QED BY <2>2, <2>3 DEF PerRoute
<1>3. chain \in Seq(MiddlewareType)
  BY <1>2, ConcatProperties DEF Wired
<1>4. route.chain \in Seq(MiddlewareType)
  BY <1>3
<1> HIDE DEF route, chain
<1>5. /\ DOMAIN routes' = 1 .. Len(routes) + 1 /\ DOMAIN routes = 1 .. Len(routes) /\ Len(routes) \in Nat
      /\ routes'[Len(routes) + 1] = route /\ \A i \in 1 .. Len(routes) : routes'[i] = routes[i]
  <2> DEFINE S == RouteType \cup {route}
  <2>1. routes \in Seq(S) /\ route \in S
    BY <1>1, SeqMonotonic
  <2> HIDE DEF S
  <2> QED BY <1>1, <2>1, AppendProperties, LenProperties
<1> QED BY <1>4, <1>5 DEF Wired

LEMMA StepWired == IInv /\ Wired /\ [Next]_vars => Wired'
<1> SUFFICES ASSUME IInv, Wired, [Next]_vars PROVE Wired'
  OBVIOUS
<1>1. Elements(heap', sentinel) = Elements(heap, sentinel)
      /\ \A r \in DOMAIN routers :
             routers'[r].mw = routers[r].mw => Elements(heap', routers[r].mw) = Elements(heap, routers[r].mw)
  BY StepUndisturbed DEF Undisturbed, vars
<1>2. config' = config /\ program' = program /\ sentinel' = sentinel
  <2>1. CASE UNCHANGED vars
    BY <2>1 DEF vars
  <2>2. CASE Next
    BY <2>2 DEF Next, Use, Group, Handle, HandleFunc, Calling, ListenAndServe, Arrive, Load, LoadOrStore,
       BindRequest, HandlerReturns, HandlerDecorates, WriteResponse, Moves
  <2> QED BY <2>1, <2>2
<1>3. ASSUME NEW r \in DOMAIN routers, NEW k \in program.kinds, Use(r, k) PROVE Wired'
  <2>1. routes' = routes
    BY <1>3 DEF Use
  <2>2. <<Middleware(k)>> \in Seq(MiddlewareType)
    BY MiddlewareIs
  <2>3. \A q \in DOMAIN routers : Elements(heap, routers[q].mw) \in Seq(MiddlewareType)
    BY DEF Wired
  <2>4. Elements(heap, routers[r].mw) \o <<Middleware(k)>> \in Seq(MiddlewareType)
    BY <2>2, <2>3, ConcatProperties
  <2>5. \A q \in DOMAIN routers' : Elements(heap', routers'[q].mw) \in Seq(MiddlewareType)
    BY <1>3, <2>3, <2>4, UseElements
  <2> QED BY <1>1, <1>2, <2>1, <2>5 DEF Wired
<1>4. ASSUME NEW r \in DOMAIN routers, Group(r) PROVE Wired'
  <2>1. routes' = routes
    BY <1>4 DEF Group
  <2>2. PICK g : /\ routers' = Append(routers, g)
                 /\ Elements(heap', g.mw) = Elements(heap, routers[r].mw)
                 /\ \A q \in DOMAIN routers : Elements(heap', routers[q].mw) = Elements(heap, routers[q].mw)
    BY <1>4, GroupElements
  <2>3. /\ DOMAIN routers' = 1 .. Len(routers) + 1 /\ DOMAIN routers = 1 .. Len(routers) /\ Len(routers) \in Nat
        /\ routers'[Len(routers) + 1] = g /\ \A q \in 1 .. Len(routers) : routers'[q] = routers[q]
    <3> DEFINE S == RouterType \cup {g}
    <3>1. routers \in Seq(S) /\ g \in S
      BY SeqMonotonic DEF IInv, SlicesApart
    <3> HIDE DEF S
    <3> QED BY <2>2, <3>1, AppendProperties, LenProperties
  <2>4. ASSUME NEW q \in DOMAIN routers' PROVE Elements(heap', routers'[q].mw) \in Seq(MiddlewareType)
    <3>1. CASE q \in DOMAIN routers
      BY <2>2, <2>3, <3>1 DEF Wired
    <3>2. CASE q = Len(routers) + 1
      BY <2>2, <2>3, <3>2 DEF Wired
    <3> QED BY <2>3, <3>1, <3>2
  <2> QED BY <1>1, <1>2, <2>1, <2>4 DEF Wired
<1>5. ASSUME UNCHANGED <<routers, routes>> PROVE Wired'
  BY <1>1, <1>2, <1>5 DEF Wired
<1>6. ASSUME NEW r \in DOMAIN routers, NEW t, NEW own, Handle(r, t, own) \/ HandleFunc(r, t, own) PROVE Wired'
  <2>1. routers' = routers
    BY <1>6 DEF Handle, HandleFunc
  <2>2. routes' = routes \/ \E typed : Register(r, t, typed, PerRoute(own))
    BY <1>6 DEF Handle, HandleFunc
  <2>3. \A i \in DOMAIN routes' : routes'[i].chain \in Seq(MiddlewareType)
    BY <2>2, RegisterWired DEF Wired
  <2> QED BY <1>1, <1>2, <2>1, <2>3 DEF Wired
<1>7. ASSUME NEW p \in Procs, NEW i, NEW in, NEW kind, NEW err,
             Arrive(p, i, in) \/ Load(p) \/ LoadOrStore(p) \/ BindRequest(p)
                 \/ HandlerReturns(p, kind, err) \/ HandlerDecorates(p) \/ WriteResponse(p)
      PROVE  UNCHANGED <<routers, routes>>
  BY <1>7 DEF Arrive, Load, LoadOrStore, BindRequest, HandlerReturns, HandlerDecorates, WriteResponse, Moves
<1>8. ListenAndServe \/ UNCHANGED vars => UNCHANGED <<routers, routes>>
  BY DEF ListenAndServe, vars
<1> QED BY <1>3, <1>4, <1>5, <1>6, <1>7, <1>8 DEF Next

-----------------------------------------------------------------------------
(* Unwind: what a chain makes of what its handler came to. *)

LEMMA KindOf == \A mw \in MiddlewareType : mw.kind \in {"tap", "stop", "recover"}
BY ProgramsAssumption DEF MiddlewareType

Unwinds(g, chain) ==
    \A i \in 1 .. Len(chain) : g[i] = Through(chain[Len(chain) + 1 - i], g[i - 1])

LEMMA UnwindRuns ==
    ASSUME NEW chain, Len(chain) \in Nat, NEW V, NEW out \in V,
           \A i \in 1 .. Len(chain), o \in V : Through(chain[i], o) \in V
    PROVE  \E g \in [0 .. Len(chain) -> V] :
               g[0] = out /\ Unwinds(g, chain) /\ Unwind(chain, out) = g[Len(chain)]
<1> DEFINE n == Len(chain)
           step == [i \in 1 .. n |-> [o \in V |-> Through(chain[n + 1 - i], o)]]
           up == CHOOSE f : f = [k \in 0 .. n |-> IF k = 0 THEN out ELSE Through(chain[n + 1 - k], f[k - 1])]
<1>1. \A i \in 1 .. n : n + 1 - i \in 1 .. n
  OBVIOUS
<1>2. step \in [1 .. n -> [V -> V]]
  BY <1>1
<1>3. PICK g \in [0 .. n -> V] : Steps(g, out, step, n)
  <2> HIDE DEF step
  <2> QED BY <1>2, Iterates
<1>4. ASSUME NEW k \in 1 .. n PROVE g[k] = Through(chain[n + 1 - k], g[k - 1])
  <2>1. k \in 0 .. n /\ k # 0 /\ k - 1 \in 0 .. n
    OBVIOUS
  <2>2. g[k] = step[k][g[k - 1]] /\ g[k - 1] \in V
    <3> HIDE DEF step
    <3> QED BY <1>3, <2>1 DEF Steps
  <2> QED BY <2>2
<1>5. 0 \in 0 .. n /\ g[0] = out
  <2>1. 0 \in 0 .. n
    OBVIOUS
  <2> HIDE DEF step, n
  <2>2. g[0] = IF 0 = 0 THEN out ELSE step[0][g[0 - 1]]
    BY <1>3, <2>1 DEF Steps
  <2> QED BY <2>1, <2>2
<1>6. g = [k \in 0 .. n |-> IF k = 0 THEN out ELSE Through(chain[n + 1 - k], g[k - 1])]
  <2> DEFINE f == [k \in 0 .. n |-> IF k = 0 THEN out ELSE Through(chain[n + 1 - k], g[k - 1])]
  <2>1. ASSUME NEW k \in 0 .. n PROVE g[k] = f[k]
    <3>1. CASE k = 0
      BY <1>5, <3>1
    <3>2. CASE k # 0
      <4>1. k \in 1 .. n
        BY <3>2
      <4> QED BY <1>4, <3>2, <4>1
    <3> QED BY <3>1, <3>2
  <2>2. DOMAIN g = 0 .. n /\ DOMAIN f = 0 .. n /\ g = [k \in 0 .. n |-> g[k]]
    OBVIOUS
  <2> QED BY <2>1, <2>2
<1>7. up = [k \in 0 .. n |-> IF k = 0 THEN out ELSE Through(chain[n + 1 - k], up[k - 1])]
  BY <1>6
<1>8. Unwind(chain, out) = up[n]
  BY DEF Unwind
<1>9. up[n] = g[n]
  <2> DEFINE T == {k \in 0 .. n : up[k] = g[k]}
  <2> HIDE DEF up
  <2>1. up[0] = out
    BY <1>5, <1>7
  <2>2. 0 \in T
    BY <1>5, <2>1
  <2>3. ASSUME NEW k \in 1 .. n, k - 1 \in T PROVE k \in T
    <3>1. up[k - 1] = g[k - 1] /\ k \in 0 .. n /\ k # 0
      BY <2>3
    <3>2. up[k] = Through(chain[n + 1 - k], up[k - 1])
      BY <1>7, <3>1
    <3> QED BY <1>4, <3>1, <3>2
  <2>4. n \in 0 .. n
    OBVIOUS
  <2>5. \A k \in 0 .. n : k \in T
    <3> HIDE DEF T, n
    <3> QED BY <2>2, <2>3, UpTo DEF n
  <2> QED BY <2>4, <2>5
<1> QED BY <1>3, <1>4, <1>5, <1>8, <1>9 DEF Unwinds

\* Nothing in a chain that lets requests through touches an answer or an error.
LEMMA Passes ==
    ASSUME NEW chain \in Seq(MiddlewareType), ~Stops(chain), NEW out, out.kind # "panic"
    PROVE  Unwind(chain, out) = out
<1> DEFINE V == {out}
<1>1. Len(chain) \in Nat /\ DOMAIN chain = 1 .. Len(chain) /\ \A i \in 1 .. Len(chain) : chain[i] \in MiddlewareType
  BY LenProperties, ElementOfSeq
<1>2. ASSUME NEW i \in 1 .. Len(chain), NEW o \in V PROVE Through(chain[i], o) \in V
  <2>1. chain[i].kind \in {"tap", "recover"}
    BY <1>1, KindOf DEF Stops
  <2> QED BY <2>1 DEF Through
<1> HIDE DEF V
<1>3. out \in V
  BY DEF V
<1>4. PICK g \in [0 .. Len(chain) -> V] : Unwind(chain, out) = g[Len(chain)]
  BY <1>1, <1>2, <1>3, UnwindRuns
<1> QED BY <1>1, <1>4 DEF V

\* A panic stays one, unless a Recoverer makes an unknown error of it.
LEMMA Recovers ==
    ASSUME NEW chain \in Seq(MiddlewareType), ~Stops(chain), NEW out, out.kind = "panic"
    PROVE  Unwind(chain, out) \in {out, Out("error", New("unknown"))}
<1> DEFINE error == Out("error", New("unknown"))
           V == {out, error}
<1>1. Len(chain) \in Nat /\ DOMAIN chain = 1 .. Len(chain) /\ \A i \in 1 .. Len(chain) : chain[i] \in MiddlewareType
  BY LenProperties, ElementOfSeq
<1>2. error.kind = "error"
  BY DEF Out
<1>3. ASSUME NEW i \in 1 .. Len(chain), NEW o \in V PROVE Through(chain[i], o) \in V
  <2>1. chain[i].kind \in {"tap", "recover"}
    BY <1>1, KindOf DEF Stops
  <2>2. CASE chain[i].kind = "tap"
    BY <2>2 DEF Through
  <2>3. CASE chain[i].kind = "recover"
    BY <2>3 DEF Through
  <2> QED BY <2>1, <2>2, <2>3
<1> HIDE DEF V
<1>4. out \in V
  BY DEF V
<1>5. PICK g \in [0 .. Len(chain) -> V] : Unwind(chain, out) = g[Len(chain)]
  BY <1>1, <1>3, <1>4, UnwindRuns
<1> QED BY <1>1, <1>5 DEF V

\* A chain that refuses refuses: the refusal gets past whatever is around it.
LEMMA Refuses ==
    ASSUME NEW chain \in Seq(MiddlewareType), Stops(chain)
    PROVE  Unwind(chain, Out("ok", <<>>)) = Out("error", New("unauthorized"))
<1> DEFINE n == Len(chain)
           ok == Out("ok", <<>>)
           refusal == Out("error", New("unauthorized"))
           V == {ok, refusal}
<1>1. n \in Nat /\ DOMAIN chain = 1 .. n /\ \A i \in 1 .. n : chain[i] \in MiddlewareType
  BY LenProperties, ElementOfSeq
<1>2. ok.kind = "ok" /\ refusal.kind = "error"
  BY DEF Out
<1> HIDE DEF n, ok, refusal
<1>3. ASSUME NEW mw \in MiddlewareType, NEW o \in V
      PROVE  Through(mw, o) = IF mw.kind = "stop" THEN refusal ELSE o
  <2>1. o.kind # "panic"
    BY <1>2
  <2>2. CASE mw.kind = "stop"
    BY <2>2 DEF Through, refusal
  <2>3. CASE mw.kind = "tap"
    BY <2>3 DEF Through
  <2>4. CASE mw.kind = "recover"
    BY <2>1, <2>4 DEF Through
  <2> QED BY <2>2, <2>3, <2>4, KindOf
<1>4. \A i \in 1 .. n, o \in V : Through(chain[i], o) \in V
  BY <1>1, <1>3
<1>5. PICK g \in [0 .. n -> V] : g[0] = ok /\ Unwinds(g, chain) /\ Unwind(chain, ok) = g[n]
  <2>1. ok \in V
    OBVIOUS
  <2> HIDE DEF V
  <2> QED BY <1>1, <1>4, <2>1, UnwindRuns DEF n
<1>6. PICK j \in 1 .. n : chain[j].kind = "stop"
  BY <1>1 DEF Stops
<1> DEFINE k == n + 1 - j
           T == {i \in 0 .. n : i < k \/ g[i] = refusal}
<1>7. k \in 1 .. n /\ n + 1 - k = j
  BY <1>1
<1>8. 0 \in T
  BY <1>1, <1>7
<1>9. ASSUME NEW i \in 1 .. n, i - 1 \in T PROVE i \in T
  <2>1. i \in 0 .. n /\ i - 1 \in 0 .. n /\ n + 1 - i \in 1 .. n
    BY <1>1
  <2>2. g[i] = Through(chain[n + 1 - i], g[i - 1]) /\ g[i - 1] \in V
    BY <1>5, <2>1 DEF Unwinds, n
  <2>3. g[i] = IF chain[n + 1 - i].kind = "stop" THEN refusal ELSE g[i - 1]
    <3> HIDE DEF V
    <3> QED BY <1>1, <1>3, <2>1, <2>2
  <2>4. CASE i < k
    BY <2>1, <2>4
  <2>5. CASE i = k
    BY <1>6, <1>7, <2>1, <2>3, <2>5
  <2>6. CASE i > k
    <3>1. ~(i - 1 < k)
      BY <1>7, <2>6
    <3>2. g[i - 1] = refusal
      BY <1>9, <3>1
    <3> QED BY <2>1, <2>3, <3>2
  <2> QED BY <1>7, <2>4, <2>5, <2>6
<1>10. n \in T
  <2>1. n \in 0 .. n
    BY <1>1
  <2> HIDE DEF T
  <2> QED BY <1>1, <1>8, <1>9, <2>1, UpTo
<1> QED BY <1>5, <1>7, <1>10 DEF ok, refusal
-----------------------------------------------------------------------------
(* Serving: what a request has come to, by where it is. *)

Chain(q) == routes[q.route].chain
Binding(q) == Bind(config.parser, BuildBinder(Types[routes[q.route].type]), q.in)

\* What is said of the Req types no binder can be built for.
Unbindable == {BuildError(T) : T \in Range(Types)}

\* The shared error with the request's own reason, in an array of its own.
Own(h, p, out) ==
    /\ out = [Out("error", New("conflict")) EXCEPT !.own = out.own]
    /\ out.own.arr # 0 /\ Whole(h, out.own) /\ Elements(h, out.own) = <<"a", "b", "c", p>>

Handled(h, p, out) ==
    \/ \E kind \in {"ok", "panic", "abort"} : out = Out(kind, <<>>)
    \/ \E e \in program.errors : out = Out("error", e)
    \/ Own(h, p, out)

\* A refused request keeps the outcome it came in with; another has the
\* error of its binding, or what its handler made of it.
Outcome(h, p, q) ==
    \/ Stops(Chain(q)) /\ q.ran = FALSE /\ q.out = Out("ok", <<>>)
    \/ /\ ~Stops(Chain(q)) /\ q.ran = FALSE
       /\ \/ \E u \in Unbindable : q.out = Out("error", u)
          \/ Binding(q) # <<>> /\ q.out = Out("error", Binding(q))
    \/ ~Stops(Chain(q)) /\ q.ran = TRUE /\ Handled(h, p, q.out)

WrittenError(err) == Write(config.writer, config.coercer, err)

Answered(p, q) ==
    IF Stops(Chain(q)) THEN q.resp = WrittenError(New("unauthorized"))
    ELSE /\ q.out.kind = "error" =>
                q.resp = WrittenError(IF q.out.own = NilSlice THEN q.out.err
                                      ELSE WithReasons(New("conflict"), <<"a", "b", "c", p>>))
         /\ q.out.kind = "panic" => q.resp \in {Response(0, "", <<>>), WrittenError(New("unknown"))}

RequestOK(h, p, q) ==
    /\ q.in \in program.inputs
    /\ q.pc \in {"load", "store", "bind"} => ~Stops(Chain(q)) /\ q.ran = FALSE
    /\ q.pc = "handle" => ~Stops(Chain(q)) /\ q.ran = TRUE /\ Binding(q) = <<>>
    /\ q.pc \in {"write", "done"} => Outcome(h, p, q)
    /\ q.pc = "done" => Answered(p, q)

Serving == \A p \in Procs : req[p].pc # "idle" => RequestOK(heap, p, req[p])

\* A request keeps what it has come to while the heap only grows.
LEMMA RequestKept ==
    ASSUME IInv, NEW k \in Heap, Extends(heap, k, 0), NEW p, NEW q, RequestOK(heap, p, q)
    PROVE  RequestOK(k, p, q)
<1>1. heap \in Heap
  BY DEF IInv, SlicesApart
<1>2. ASSUME NEW out, Own(heap, p, out) PROVE Own(k, p, out)
  BY <1>1, <1>2, WholeKept, ElementsKept DEF Own
<1>3. Outcome(heap, p, q) => Outcome(k, p, q)
  BY <1>2 DEF Outcome, Handled
<1> QED BY <1>3 DEF RequestOK

LEMMA ServingKept ==
    ASSUME IInv, Serving, NEW p \in Procs, NEW pc, NEW next, Moves(p, pc, next),
           heap' \in Heap, Extends(heap, heap', 0), RequestOK(heap', p, next)
    PROVE  Serving'
<1>1. /\ phase' = phase /\ program' = program /\ config' = config /\ routes' = routes
      /\ req' = [req EXCEPT ![p] = next]
  BY DEF Moves
<1>2. req'[p] = next /\ (\A q \in Procs : q # p => req'[q] = req[q])
  BY <1>1 DEF IInv, Requests
<1>3. ASSUME NEW q \in Procs, req'[q].pc # "idle" PROVE RequestOK(heap', q, req'[q])
  <2>1. CASE q = p
    BY <1>2, <2>1
  <2>2. CASE q # p
    <3>1. RequestOK(heap, q, req[q])
      BY <1>2, <1>3, <2>2 DEF Serving
    <3> QED BY <1>2, <2>2, <3>1, RequestKept
  <2> QED BY <2>1, <2>2
<1>4. ASSUME NEW q \in Procs, RequestOK(heap', q, req'[q]) PROVE RequestOK(heap, q, req[q])'
  <2>1. Chain(req[q])' = Chain(req'[q]) /\ Binding(req[q])' = Binding(req'[q])
    BY <1>1 DEF Chain, Binding
  <2>2. Handled(heap', q, req'[q].out) => Handled(heap, q, req[q].out)'
    BY <1>1 DEF Handled, Own
  <2>3. Outcome(heap', q, req'[q]) => Outcome(heap, q, req[q])'
    BY <2>1, <2>2 DEF Outcome
  <2>4. \A err : WrittenError(err)' = WrittenError(err)
    BY <1>1 DEF WrittenError
  <2>5. Answered(q, req'[q]) => Answered(q, req[q])'
    BY <2>1, <2>4 DEF Answered
  <2> QED BY <1>1, <1>4, <2>1, <2>3, <2>5 DEF RequestOK
<1> QED BY <1>3, <1>4 DEF Serving

LEMMA OkAfterArrive ==
    ASSUME IInv, Serving, NEW p \in Procs, NEW i \in DOMAIN routes, NEW in \in program.inputs, Arrive(p, i, in)
    PROVE  Serving'
<1> DEFINE next == [pc |-> IF Stops(routes[i].chain) THEN "write" ELSE "load",
                    route |-> i, in |-> in, binder |-> NoOne, args |-> {}, ran |-> FALSE,
                    out |-> Out("ok", <<>>), resp |-> Response(0, "", <<>>)]
<1>1. Moves(p, "idle", next) /\ heap' = heap
  BY DEF Arrive
<1>2. /\ next.pc = IF Stops(routes[i].chain) THEN "write" ELSE "load"
      /\ next.in = in /\ next.ran = FALSE /\ next.out = Out("ok", <<>>) /\ next.route = i
  OBVIOUS
<1> HIDE DEF next
<1>3. RequestOK(heap', p, next)
  BY <1>2 DEF RequestOK, Outcome, Chain
<1> QED BY <1>1, <1>3, Untouched, ServingKept

LEMMA OkAfterLoad ==
    ASSUME IInv, Serving, NEW p \in Procs, Load(p)
    PROVE  Serving'
<1> DEFINE t == Route(p).type
<1>1. req[p].pc = "load" /\ heap' = heap
  BY DEF Load, Moves
<1>2. DOMAIN req[p] = Fields /\ RequestOK(heap, p, req[p])
  BY <1>1, RequestFacts DEF Serving
<1>3. req[p].in \in program.inputs /\ ~Stops(Chain(req[p])) /\ req[p].ran = FALSE
  BY <1>1, <1>2 DEF RequestOK
<1> DEFINE used == [req[p] EXCEPT !.pc = "bind", !.binder = cache[t]]
           built == [req[p] EXCEPT !.pc = "store", !.binder = p]
           u == BuildError(Types[t])
           err == Out("error", u)
           refused == [req[p] EXCEPT !.pc = "write", !.out = err]
<1>4. Moves(p, "load", used) \/ Moves(p, "load", built) \/ Moves(p, "load", refused)
  BY DEF Load
<1>5. u \in Unbindable
  <2>1. t \in DOMAIN Types
    BY <1>1, RequestFacts DEF Route, IInv, Declared
  <2> QED BY <2>1 DEF Unbindable, Range
<1> HIDE DEF u
<1>6. \E v \in Unbindable : err = Out("error", v)
  BY <1>5
<1> HIDE DEF err
<1>7. /\ used.pc = "bind" /\ used.in = req[p].in /\ used.ran = req[p].ran /\ used.route = req[p].route
      /\ built.pc = "store" /\ built.in = req[p].in /\ built.ran = req[p].ran /\ built.route = req[p].route
      /\ refused.pc = "write" /\ refused.in = req[p].in /\ refused.ran = req[p].ran
      /\ refused.route = req[p].route /\ refused.out = err
  BY <1>2 DEF Fields
<1> HIDE DEF used, built, refused
<1>8. RequestOK(heap', p, used) /\ RequestOK(heap', p, built)
  BY <1>3, <1>7 DEF RequestOK, Chain
<1>9. RequestOK(heap', p, refused)
  BY <1>3, <1>7, <1>6 DEF RequestOK, Chain, Outcome
<1> QED BY <1>1, <1>4, <1>8, <1>9, Untouched, ServingKept

LEMMA OkAfterLoadOrStore ==
    ASSUME IInv, Serving, NEW p \in Procs, LoadOrStore(p)
    PROVE  Serving'
<1> DEFINE t == Route(p).type
           next == [req[p] EXCEPT !.pc = "bind", !.binder = IF cache[t] = NoOne THEN p ELSE cache[t]]
<1>1. Moves(p, "store", next) /\ req[p].pc = "store" /\ heap' = heap
  BY DEF LoadOrStore, Moves
<1>2. DOMAIN req[p] = Fields /\ RequestOK(heap, p, req[p])
  BY <1>1, RequestFacts DEF Serving
<1>3. next.pc = "bind" /\ next.in = req[p].in /\ next.ran = req[p].ran /\ next.route = req[p].route
  BY <1>2 DEF Fields
<1> HIDE DEF next
<1>4. RequestOK(heap', p, next)
  BY <1>1, <1>2, <1>3 DEF RequestOK, Chain
<1> QED BY <1>1, <1>4, Untouched, ServingKept

LEMMA OkAfterBindRequest ==
    ASSUME IInv, Serving, NEW p \in Procs, BindRequest(p)
    PROVE  Serving'
<1>1. req[p].pc = "bind" /\ heap' = heap
  BY DEF BindRequest, Moves
<1>2. DOMAIN req[p] = Fields /\ RequestOK(heap, p, req[p])
  BY <1>1, RequestFacts DEF Serving
<1>3. req[p].in \in program.inputs /\ ~Stops(Chain(req[p])) /\ req[p].ran = FALSE
  BY <1>1, <1>2 DEF RequestOK
<1> DEFINE b == BuildBinder(TypeOf(p))
           err == Binding(req[p])
           out == Out("error", err)
           args == Bound(config.parser, b, req[p].in)
           refused == [req[p] EXCEPT !.pc = "write", !.out = out]
           bound == [req[p] EXCEPT !.pc = "handle", !.ran = TRUE, !.args = args]
<1>4. IF err # <<>> THEN Moves(p, "bind", refused) ELSE Moves(p, "bind", bound)
  <2>1. Bind(config.parser, b, req[p].in) = err
    BY DEF TypeOf, Route, Binding
  <2>2. Moves(p, "bind", IF Bind(config.parser, b, req[p].in) # <<>>
                         THEN [req[p] EXCEPT !.pc = "write", !.out = Out("error", Bind(config.parser, b, req[p].in))]
                         ELSE bound)
    BY DEF BindRequest
  <2>3. Moves(p, "bind", IF err # <<>> THEN refused ELSE bound)
    BY <2>1, <2>2, Zenon
  <2> HIDE DEF err, refused, bound
  <2> QED BY <2>3
<1> HIDE DEF b, err, out, args
<1>5. /\ refused.pc = "write" /\ refused.in = req[p].in /\ refused.ran = req[p].ran
      /\ refused.route = req[p].route /\ refused.out = out
      /\ bound.pc = "handle" /\ bound.in = req[p].in /\ bound.ran = TRUE /\ bound.route = req[p].route
  BY <1>2 DEF Fields
<1> HIDE DEF refused, bound
<1>6. Binding(refused) = err /\ Binding(bound) = err /\ Chain(refused) = Chain(req[p]) /\ Chain(bound) = Chain(req[p])
  BY <1>5 DEF Binding, Chain, err
<1>7. CASE err # <<>>
  <2>1. RequestOK(heap', p, refused)
    BY <1>3, <1>5, <1>6, <1>7 DEF RequestOK, Outcome, out
  <2> QED BY <1>1, <1>4, <1>7, <2>1, Untouched, ServingKept
<1>8. CASE err = <<>>
  <2>1. RequestOK(heap', p, bound)
    BY <1>3, <1>5, <1>6, <1>8 DEF RequestOK
  <2> QED BY <1>1, <1>4, <1>8, <2>1, Untouched, ServingKept
<1> QED BY <1>7, <1>8

\* The handler is through: its outcome is one a handler can have.
LEMMA OkAfterHandling ==
    ASSUME IInv, Serving, NEW p \in Procs, NEW out,
           Moves(p, "handle", [req[p] EXCEPT !.pc = "write", !.out = out]),
           heap' \in Heap, Extends(heap, heap', 0), Handled(heap', p, out)
    PROVE  Serving'
<1> DEFINE next == [req[p] EXCEPT !.pc = "write", !.out = out]
<1>1. req[p].pc = "handle"
  BY DEF Moves
<1>2. DOMAIN req[p] = Fields /\ RequestOK(heap, p, req[p])
  BY <1>1, RequestFacts DEF Serving
<1>3. /\ next.pc = "write" /\ next.in = req[p].in /\ next.ran = req[p].ran
      /\ next.route = req[p].route /\ next.out = out
  BY <1>2 DEF Fields
<1>4. Moves(p, "handle", next)
  OBVIOUS
<1> HIDE DEF next
<1>5. RequestOK(heap', p, next)
  BY <1>1, <1>2, <1>3 DEF RequestOK, Outcome, Chain
<1> QED BY <1>4, <1>5, ServingKept

LEMMA OkAfterHandlerReturns ==
    ASSUME IInv, Serving, NEW p \in Procs, NEW kind, NEW err, HandlerReturns(p, kind, err),
           \/ kind \in {"ok", "panic", "abort"} /\ err = <<>>
           \/ kind = "error" /\ err \in program.errors
    PROVE  Serving'
<1>1. heap' = heap /\ Moves(p, "handle", [req[p] EXCEPT !.pc = "write", !.out = Out(kind, err)])
  BY DEF HandlerReturns
<1>2. Handled(heap', p, Out(kind, err))
  BY DEF Handled
<1> QED BY <1>1, <1>2, Untouched, OkAfterHandling

LEMMA OneReasonMore == ASSUME NEW p PROVE <<"a", "b", "c">> \o <<p>> = <<"a", "b", "c", p>>
<1> DEFINE S == {"a", "b", "c", p}
           abc == <<"a", "b", "c">>
           mine == <<p>>
           all == <<"a", "b", "c", p>>
<1>1. /\ abc \in Seq(S) /\ Len(abc) = 3 /\ abc[1] = "a" /\ abc[2] = "b" /\ abc[3] = "c"
      /\ mine \in Seq(S) /\ Len(mine) = 1 /\ mine[1] = p
  OBVIOUS
<1>2. /\ all \in Seq(S) /\ Len(all) = 4 /\ all[1] = "a" /\ all[2] = "b" /\ all[3] = "c" /\ all[4] = p
  OBVIOUS
<1> HIDE DEF S, abc, mine, all
<1>3. /\ abc \o mine \in Seq(S) /\ Len(abc \o mine) = Len(abc) + Len(mine)
      /\ \A i \in 1 .. Len(abc) + Len(mine) :
             (abc \o mine)[i] = IF i <= Len(abc) THEN abc[i] ELSE mine[i - Len(abc)]
  BY <1>1, ConcatProperties
<1>4. \A i \in 1 .. 4 : (abc \o mine)[i] = all[i]
  BY <1>1, <1>2, <1>3
<1>5. Len(abc \o mine) = Len(all)
  BY <1>1, <1>2, <1>3
<1>6. abc \o mine = all
  BY <1>2, <1>3, <1>4, <1>5, SeqEqual
<1> QED BY <1>6 DEF abc, mine, all

LEMMA OkAfterHandlerDecorates ==
    ASSUME IInv, Wired, Serving, NEW p \in Procs, HandlerDecorates(p)
    PROVE  Serving'
<1> DEFINE mine == <<p>>
           s == Clip(sentinel)
           d == Decorated(p)
           out == [Out("error", New("conflict")) EXCEPT !.own = d.slice]
<1>1. heap' = d.heap /\ Moves(p, "handle", [req[p] EXCEPT !.pc = "write", !.out = out])
  BY DEF HandlerDecorates
<1>2. /\ heap \in Heap /\ Whole(heap, sentinel) /\ sentinel.len \in Nat
      /\ Elements(heap, sentinel) = <<"a", "b", "c">>
  BY DEF IInv, SlicesApart, Whole, Fits, Wired
<1>3. /\ Fits(heap, s) /\ s.cap = sentinel.len /\ s.len = sentinel.len /\ s.arr = sentinel.arr
      /\ Elements(heap, s) = Elements(heap, sentinel)
  BY <1>2, ClipFits DEF Elements
<1>4. mine \in Seq(Element) /\ mine # <<>> /\ Len(mine) = 1
  BY DEF Element
<1>5. d = AppendTo(heap, s, mine) /\ s.len + Len(mine) > s.cap
  BY <1>2, <1>3, <1>4 DEF Decorated
<1>6. <<"a", "b", "c">> \o mine = <<"a", "b", "c", p>>
  BY OneReasonMore
<1> HIDE DEF mine, s, d, out
<1>7. Whole(d.heap, d.slice) /\ d.slice.arr = Len(heap) + 1 /\ Elements(d.heap, d.slice) = Elements(heap, s) \o mine
  <2>1. heap \in Heap /\ Fits(heap, s) /\ mine \in Seq(Element) /\ mine # <<>> /\ s.len + Len(mine) > s.cap
    BY <1>2, <1>3, <1>4, <1>5
  <2>2. d = AppendTo(heap, s, mine)
    BY <1>5
  <2>3. Whole(d.heap, d.slice) /\ d.slice.arr = Len(heap) + 1
    BY <2>1, <2>2, Reallocated
  <2>4. Elements(d.heap, d.slice) = Elements(heap, s) \o mine
    BY <2>1, <2>2, AppendedElements
  <2> QED BY <2>3, <2>4
<1>8. Len(heap) \in Nat
  BY <1>2, LenProperties DEF Heap
<1>9. Own(d.heap, p, out)
  <2>1. out.own = d.slice
    BY DEF Out, out
  <2>2. out = [Out("error", New("conflict")) EXCEPT !.own = out.own]
    BY <2>1 DEF out
  <2>3. Elements(d.heap, d.slice) = <<"a", "b", "c", p>>
    BY <1>2, <1>3, <1>6, <1>7
  <2> QED BY <1>7, <1>8, <2>1, <2>2, <2>3 DEF Own
<1>10. heap' \in Heap /\ Extends(heap, heap', 0)
  BY <1>1, DecoratedApart DEF d
<1> QED BY <1>1, <1>9, <1>10, OkAfterHandling DEF Handled

LEMMA RespondIs ==
    ASSUME NEW p, NEW out
    PROVE  /\ out.kind = "error" /\ out.own = NilSlice => Respond(p, out) = WrittenError(out.err)
           /\ out.kind = "error" /\ out.own # NilSlice =>
                  Respond(p, out) = WrittenError(WithReasons(out.err, Elements(heap, out.own)))
           /\ out.kind = "panic" => Respond(p, out) = Response(0, "", <<>>)
<1>1. CASE out.kind = "error" /\ out.own = NilSlice
  BY <1>1, Zenon DEF Respond, WrittenError
<1>2. CASE out.kind = "error" /\ out.own # NilSlice
  BY <1>2, Zenon DEF Respond, WrittenError
<1>3. CASE out.kind = "panic"
  BY <1>3, Zenon DEF Respond
<1> QED BY <1>1, <1>2, <1>3

LEMMA ErrorOut ==
    ASSUME NEW kind, NEW err
    PROVE  Out(kind, err).kind = kind /\ Out(kind, err).err = err /\ Out(kind, err).own = NilSlice
BY DEF Out

LEMMA OkAfterWriteResponse ==
    ASSUME IInv, Wired, Serving, NEW p \in Procs, WriteResponse(p)
    PROVE  Serving'
<1> DEFINE out == req[p].out
           chain == Chain(req[p])
           came == Unwind(chain, out)
           resp == Respond(p, came)
           next == [req[p] EXCEPT !.pc = "done", !.resp = resp]
<1>1. Moves(p, "write", next) /\ req[p].pc = "write" /\ heap' = heap
  BY DEF WriteResponse, Moves, Chain, Route
<1>2. DOMAIN req[p] = Fields /\ RequestOK(heap, p, req[p]) /\ req[p].route \in DOMAIN routes
  BY <1>1, RequestFacts DEF Serving
<1>3. Outcome(heap, p, req[p]) /\ req[p].in \in program.inputs
  BY <1>1, <1>2 DEF RequestOK
<1>4. chain \in Seq(MiddlewareType)
  BY <1>2 DEF Wired, Chain
<1> HIDE DEF resp
<1>5. /\ next.pc = "done" /\ next.in = req[p].in /\ next.ran = req[p].ran
      /\ next.route = req[p].route /\ next.out = out /\ next.resp = resp
  BY <1>2 DEF Fields
<1> HIDE DEF next, chain
<1>6. Chain(next) = chain /\ Binding(next) = Binding(req[p]) /\ chain = Chain(req[p])
  BY <1>5 DEF Chain, Binding, chain
<1>7. Outcome(heap, p, next)
  BY <1>3, <1>5, <1>6 DEF Outcome
<1>8. ASSUME Stops(chain) PROVE Answered(p, next)
  <2>1. out = Out("ok", <<>>)
    BY <1>3, <1>6, <1>8 DEF Outcome
  <2>2. came = Out("error", New("unauthorized"))
    BY <1>4, <1>8, <2>1, Refuses
  <2>3. came.kind = "error" /\ came.err = New("unauthorized") /\ came.own = NilSlice
    BY <2>2, ErrorOut
  <2> HIDE DEF came
  <2>4. resp = WrittenError(New("unauthorized"))
    BY <2>3, RespondIs DEF resp
  <2> QED BY <1>5, <1>6, <1>8, <2>4 DEF Answered
<1>9. ASSUME ~Stops(chain) PROVE Answered(p, next)
  <2>1. out.own # NilSlice => Own(heap, p, out)
    <3>1. \/ \E kind, err : out = Out(kind, err)
          \/ Own(heap, p, out)
      BY <1>3, <1>6, <1>9 DEF Outcome, Handled
    <3> HIDE DEF out
    <3> QED BY <3>1, ErrorOut
  <2>2. out.own # NilSlice => out.err = New("conflict") /\ Elements(heap, out.own) = <<"a", "b", "c", p>>
    <3> HIDE DEF out
    <3>1. SUFFICES ASSUME Own(heap, p, out) PROVE out.err = New("conflict")
      BY <2>1 DEF Own
    <3>2. out = [Out("error", New("conflict")) EXCEPT !.own = out.own]
      BY <3>1 DEF Own
    <3>3. PICK mine : mine = out.own
      OBVIOUS
    <3>4. [Out("error", New("conflict")) EXCEPT !.own = mine].err = New("conflict")
      BY DEF Out
    <3> QED BY <3>2, <3>3, <3>4
  <2>3. out.kind = "error" =>
            resp = WrittenError(IF out.own = NilSlice THEN out.err
                                ELSE WithReasons(New("conflict"), <<"a", "b", "c", p>>))
    <3> SUFFICES ASSUME out.kind = "error"
                 PROVE  resp = WrittenError(IF out.own = NilSlice THEN out.err
                                            ELSE WithReasons(New("conflict"), <<"a", "b", "c", p>>))
      OBVIOUS
    <3>1. came = out
      BY <1>4, <1>9, Passes
    <3> HIDE DEF out, came
    <3>2. CASE out.own = NilSlice
      BY <3>1, <3>2, RespondIs DEF resp
    <3>3. CASE out.own # NilSlice
      <4>1. resp = WrittenError(WithReasons(out.err, Elements(heap, out.own)))
        BY <3>1, <3>3, RespondIs DEF resp
      <4> QED BY <2>2, <3>3, <4>1
    <3> QED BY <3>2, <3>3
  <2>4. out.kind = "panic" => resp \in {Response(0, "", <<>>), WrittenError(New("unknown"))}
    <3> SUFFICES ASSUME out.kind = "panic"
                 PROVE  resp \in {Response(0, "", <<>>), WrittenError(New("unknown"))}
      OBVIOUS
    <3>1. came = out \/ came = Out("error", New("unknown"))
      BY <1>4, <1>9, Recovers
    <3> HIDE DEF out, came
    <3>2. CASE came = out
      BY <3>2, RespondIs DEF resp
    <3>3. CASE came = Out("error", New("unknown"))
      <4>1. came.kind = "error" /\ came.err = New("unknown") /\ came.own = NilSlice
        BY <3>3, ErrorOut
      <4> QED BY <4>1, RespondIs DEF resp
    <3> QED BY <3>1, <3>2, <3>3
  <2> HIDE DEF out
  <2> QED BY <1>5, <1>6, <1>9, <2>3, <2>4 DEF Answered
<1>10. RequestOK(heap', p, next)
  BY <1>1, <1>3, <1>5, <1>7, <1>8, <1>9 DEF RequestOK
<1> QED BY <1>1, <1>10, Untouched, ServingKept

-----------------------------------------------------------------------------
LEMMA StepServing == IInv /\ Wired /\ Serving /\ [Next]_vars => Serving'
<1> SUFFICES ASSUME IInv, Wired, Serving, [Next]_vars PROVE Serving'
  OBVIOUS
<1>1. CASE UNCHANGED vars
  <2>1. ASSUME NEW p \in Procs, RequestOK(heap, p, req[p]) PROVE RequestOK(heap, p, req[p])'
    BY <1>1, <2>1 DEF vars, RequestOK, Outcome, Handled, Own, Whole, Fits, Elements, Answered, WrittenError, Chain, Binding
  <2> QED BY <1>1, <2>1 DEF vars, Serving
<1>2. ASSUME phase = "wiring", req' = req PROVE Serving'
  BY <1>2 DEF IInv, Requests, Serving
<1>3. ASSUME NEW r, NEW k, NEW t, NEW own,
             Use(r, k) \/ Group(r) \/ Handle(r, t, own) \/ HandleFunc(r, t, own) \/ ListenAndServe
      PROVE  phase = "wiring" /\ req' = req
  BY <1>3 DEF Use, Group, Handle, HandleFunc, ListenAndServe, Calling
<1>4. ASSUME NEW p \in Procs,
             \/ \E i \in DOMAIN routes, in \in program.inputs : Arrive(p, i, in)
             \/ Load(p) \/ LoadOrStore(p) \/ BindRequest(p)
             \/ HandlerReturns(p, "ok", <<>>) \/ HandlerReturns(p, "panic", <<>>)
             \/ HandlerReturns(p, "abort", <<>>)
             \/ \E e \in program.errors : HandlerReturns(p, "error", e)
             \/ HandlerDecorates(p)
             \/ WriteResponse(p)
      PROVE  Serving'
  BY <1>4, OkAfterArrive, OkAfterLoad, OkAfterLoadOrStore, OkAfterBindRequest, OkAfterHandlerReturns,
     OkAfterHandlerDecorates, OkAfterWriteResponse
<1> QED BY <1>1, <1>2, <1>3, <1>4 DEF Next

\* In every state the slices hold what was put into them, and every request
\* has come to what its place in the code says.
THEOREM ServingAlways == Spec => [](IInv /\ Wired /\ Serving)
<1>1. Init => Serving
  BY DEF Init, Serving, Idle
<1> QED BY <1>1, InitInv, InitWired, StepInv, StepWired, StepServing, PTL DEF Spec

-----------------------------------------------------------------------------
(* What callers are answered. *)

\* Without hooks of the suite's, the writer and the coercer are the libraries'.
LEMMA Library ==
    ASSUME IInv, Wired, ~DoesAsItLikes
    PROVE  config.writer \in {"default", "custom"} /\ config.coercer \in {"default", "cher", "oops"}
BY ProgramsAssumption DEF IInv, Declared, Wired, DoesAsItLikes

LEMMA BoundOrNamed ==
    ASSUME IInv, Serving, NEW p \in Procs, req[p].pc # "idle",
           NEW T, T = TypeOf(p), NEW r, r = req[p].in, NEW err, err = Binding(req[p])
    PROVE  \/ err = <<>> /\ BadInputs(config.parser, T, r) = {}
           \/ Preempts(err)
           \/ \E rs : /\ err = WithReasons(New("invalid_request"), rs) /\ rs # <<>>
                      /\ Tells(rs, BadInputs(config.parser, T, r)) /\ (KeysOnce(T) => NoneTwice(rs))
<1>1. Route(p).type \in DOMAIN Types
  BY RequestFacts
<1>2. IsType(T)
  BY <1>1, TypesAssumption DEF IsType, TypeOf
<1>3. r \in program.inputs
  BY DEF Serving, RequestOK
<1>4. IsFiniteSet(DOMAIN r.body)
  BY <1>3, ProgramsAssumption DEF IInv, Declared
<1>5. err = Bind(config.parser, BuildBinder(T), r)
  BY DEF Binding, TypeOf, Route
<1> QED BY <1>2, <1>4, <1>5, BindNamesEveryBadInput

LEMMA ConflictStatus == StatusCode(New("conflict")) = 400
<1>1. New("conflict")[1].status = 0 /\ New("conflict")[1].code = "conflict"
  BY NewIs
<1>2. "conflict" \notin DOMAIN CodeStatuses
  BY DEF CodeStatuses
<1> QED BY <1>1, <1>2 DEF StatusCode

LEMMA ConflictIs ==
    ASSUME NEW p, NEW w \in {"default", "custom"}, NEW c \in {"default", "cher", "oops"}
    PROVE  Write(w, c, WithReasons(New("conflict"), <<"a", "b", "c", p>>))
               = Response(400, "conflict", <<"a", "b", "c", p>>)
<1>1. PICK rs : rs = <<"a", "b", "c", p>>
  OBVIOUS
<1>2. rs \in Seq({"a", "b", "c", p})
  BY <1>1
<1>3. StatusCode(New("conflict")) = 400
  BY ConflictStatus
<1>4. Write(w, c, WithReasons(New("conflict"), rs)) = Response(StatusCode(New("conflict")), "conflict", rs)
  BY <1>2, ReasonsServed
<1> QED BY <1>1, <1>3, <1>4

\* An outcome with reasons of its own is the shared error's, of a handler that ran.
LEMMA OwnOutcome ==
    ASSUME NEW h, NEW p, NEW q, Outcome(h, p, q), q.out.own # NilSlice
    PROVE  ~Stops(Chain(q)) /\ Own(h, p, q.out) /\ q.ran = TRUE
<1>1. \A kind, err : q.out # Out(kind, err)
  BY ErrorOut
<1> QED BY <1>1 DEF Outcome, Handled

LEMMA OwnIs ==
    ASSUME NEW h, NEW p, NEW out, Own(h, p, out)
    PROVE  out.kind = "error" /\ out.err = New("conflict") /\ out.own # NilSlice
<1>1. PICK mine : mine = out.own
  OBVIOUS
<1>2. out = [Out("error", New("conflict")) EXCEPT !.own = mine]
  BY <1>1 DEF Own
<1>3. /\ [Out("error", New("conflict")) EXCEPT !.own = mine].err = New("conflict")
      /\ [Out("error", New("conflict")) EXCEPT !.own = mine].kind = "error"
  BY DEF Out
<1>4. out.own.arr # 0 /\ NilSlice.arr = 0
  BY DEF Own, NilSlice
<1> QED BY <1>2, <1>3, <1>4

\* Requests that decorate one shared error at the same time are each answered
\* with the error's reasons and their own.
THEOREM ReasonsStayOwn == Spec => []ReasonsAreOwn
<1>1. IInv /\ Wired /\ Serving => ReasonsAreOwn
  <2> SUFFICES ASSUME IInv, Wired, Serving, ~DoesAsItLikes,
                      NEW p \in Procs, req[p].pc = "done", req[p].out.own # NilSlice
               PROVE  req[p].resp = Response(400, "conflict", <<"a", "b", "c", p>>)
    BY DEF ReasonsAreOwn, Reached
  <2>1. Outcome(heap, p, req[p]) /\ Answered(p, req[p])
    BY DEF Serving, RequestOK
  <2>2. ~Stops(Chain(req[p])) /\ req[p].out.kind = "error"
    BY <2>1, OwnOutcome, OwnIs
  <2>3. req[p].resp = WrittenError(WithReasons(New("conflict"), <<"a", "b", "c", p>>))
    BY <2>1, <2>2 DEF Answered
  <2> QED BY <2>3, Library, ConflictIs DEF WrittenError
<1> QED BY <1>1, ServingAlways, PTL

\* An error of a Req type that cannot be bound is none of the writers' types.
LEMMA UnbindableIs ==
    ASSUME NEW u \in Unbindable
    PROVE  /\ u # <<>> /\ Unwrapped(u) # "invalid_request"
           /\ \E S : u \in Seq(S) /\ \A n \in S : n.kind = "plain"
<1>1. PICK n : n = Node("plain", "", 0, "none", "req")
  OBVIOUS
<1>2. PICK f : f = Node("plain", "", 0, "one", "field")
  OBVIOUS
<1>3. PICK g : g = Node("plain", "", 0, "none", "unsupported_field_type")
  OBVIOUS
<1>4. /\ n.kind = "plain" /\ n.wraps = "none"
      /\ f.kind = "plain"
      /\ g.kind = "plain" /\ g.says = "unsupported_field_type"
  BY <1>1, <1>2, <1>3 DEF Node
<1>5. u = <<n>> \/ u = <<f, g>>
  BY <1>1, <1>2, <1>3 DEF Unbindable, BuildError
<1>6. CASE u = <<n>>
  <2>1. u \in Seq({n}) /\ u # <<>> /\ u[1] = n
    BY <1>6
  <2>2. Unwrapped(u) # "invalid_request"
    BY <1>4, <2>1 DEF Unwrapped
  <2>3. \E S : u \in Seq(S) /\ \A m \in S : m.kind = "plain"
    <3> WITNESS {n}
    <3> QED BY <1>4, <2>1
  <2> QED BY <2>1, <2>2, <2>3
<1>7. CASE u = <<f, g>>
  <2>1. u \in Seq({f, g}) /\ u # <<>> /\ u[2] = g
    BY <1>7
  <2>2. Unwrapped(u) # "invalid_request"
    BY <1>4, <2>1 DEF Unwrapped
  <2>3. \E S : u \in Seq(S) /\ \A m \in S : m.kind = "plain"
    <3> WITNESS {f, g}
    <3> QED BY <1>4, <2>1
  <2> QED BY <2>1, <2>2, <2>3
<1> QED BY <1>5, <1>6, <1>7

LEMMA OutcomeErrors ==
    ASSUME IInv, Wired, Serving, NEW p \in Procs, req[p].pc = "done", ~Stops(Chain(req[p])),
           req[p].out.kind = "error", req[p].out.own = NilSlice
    PROVE  \E S : req[p].out.err \in Seq(S)
<1> DEFINE q == req[p]
           err == q.out.err
<1>1. Outcome(heap, p, q)
  BY DEF Serving, RequestOK
<1>2. err \in Unbindable \/ err = Binding(q) \/ err \in program.errors
  <2>1. ~Own(heap, p, q.out)
    BY OwnIs
  <2>2. \A kind \in {"ok", "panic", "abort"} : q.out # Out(kind, <<>>)
    BY ErrorOut
  <2>3. \/ \E u \in Unbindable : q.out = Out("error", u)
        \/ q.out = Out("error", Binding(q))
        \/ \E e \in program.errors : q.out = Out("error", e)
    <3> HIDE DEF q
    <3> QED BY <1>1, <2>1, <2>2 DEF Outcome, Handled, q
  <2> HIDE DEF q
  <2> QED BY <2>3, ErrorOut
<1>3. CASE err \in Unbindable
  BY <1>3, UnbindableIs
<1>4. CASE err = Binding(q)
  <2>1. PICK b : b = Binding(q)
    OBVIOUS
  <2>2. b = <<>> \/ Preempts(b) \/ \E rs : b = WithReasons(New("invalid_request"), rs) /\ rs \in Seq(Range(rs))
    BY <2>1, BoundOrNamed DEF Tells
  <2>3. \E S : b \in Seq(S)
    <3>1. CASE b = <<>>
      <4>1. <<>> \in Seq({})
        BY EmptySeq
      <4> QED BY <3>1, <4>1
    <3>2. CASE Preempts(b)
      <4>1. \E code : b = New(code)
        BY <3>2 DEF Preempts, DecodeError
      <4> QED BY <4>1, NewIs
    <3>3. ASSUME NEW rs, rs \in Seq(Range(rs)), b = WithReasons(New("invalid_request"), rs) PROVE \E S : b \in Seq(S)
      <4>1. b \in Seq({b[1]})
        BY <3>3, WithReasonsIs
      <4> QED BY <4>1
    <3> QED BY <2>2, <3>1, <3>2, <3>3
  <2> QED BY <1>4, <2>1, <2>3
<1>5. CASE err \in program.errors
  <2>1. err \in Seq(Range(err))
    BY <1>5, ProgramsAssumption DEF IInv, Declared
  <2> QED BY <2>1
<1> QED BY <1>2, <1>3, <1>4, <1>5

\* A response that keeps a ReqError's status, as far as it encodes.
KeepsSide(resp, e) ==
    IF config.writer = "default" /\ ~e[1].encodes THEN resp = Bare500 ELSE resp.status = StatusCode(e)

\* Whatever error a handler, or the binding, comes up with, of whatever type
\* and however wrapped, and whichever coercer and writer are configured: a
\* ReqError keeps its status, or is a 500 without a body where the default
\* writer finds that it does not encode, and only an error meant for the caller
\* reads as the caller's fault; a panic is a 500 or no answer.
THEOREM SidesKept == Spec => []ErrorsKeepTheirSide
<1>1. IInv /\ Wired /\ Serving => ErrorsKeepTheirSide
  <2> SUFFICES ASSUME IInv, Wired, Serving, ~DoesAsItLikes,
                      NEW p \in Procs, req[p].pc = "done", ~Stops(Route(p).chain)
               PROVE  LET err == req[p].out.err
                          own == config.writer = "custom" /\ Has(err, "api")
                      IN  /\ req[p].out.kind = "error" =>
                                 /\ Has(err, "req") /\ ~own => KeepsSide(req[p].resp, AsType(err, "req"))
                                 /\ req[p].resp.status < 500 => own \/ Has(err, "req") \/ Has(err, "cher")
                          /\ req[p].out.kind = "panic" => req[p].resp.status \in {0, 500}
    BY DEF ErrorsKeepTheirSide, Reached, KeepsSide
  <2> DEFINE q == req[p]
             err == q.out.err
             own == config.writer = "custom" /\ Has(err, "api")
  <2>1. Outcome(heap, p, q) /\ Answered(p, q) /\ ~Stops(Chain(q))
    BY DEF Serving, RequestOK, Chain, Route
  <2>2. config.writer \in {"default", "custom"} /\ config.coercer \in {"default", "cher", "oops"}
    BY Library
  <2>3. ASSUME q.out.kind = "error", q.out.own = NilSlice
        PROVE  /\ Has(err, "req") /\ ~own => KeepsSide(q.resp, AsType(err, "req"))
               /\ q.resp.status < 500 => own \/ Has(err, "req") \/ Has(err, "cher")
    <3>1. q.resp = WrittenError(err)
      BY <2>1, <2>3 DEF Answered
    <3>2. PICK S : err \in Seq(S)
      BY <2>1, <2>3, OutcomeErrors
    <3>3. /\ Has(err, "req") /\ ~own => WrittenError(err) = Served(config.writer, AsType(err, "req"))
          /\ WrittenError(err).status < 500 => own \/ Has(err, "req") \/ Has(err, "cher")
      <4>1. PICK o : o = (config.writer = "custom" /\ Has(err, "api"))
        OBVIOUS
      <4>2. PICK e : e = err
        OBVIOUS
      <4>3. /\ Has(e, "req") /\ ~o => Write(config.writer, config.coercer, e) = Served(config.writer, AsType(e, "req"))
            /\ Write(config.writer, config.coercer, e).status < 500 => o \/ Has(e, "req") \/ Has(e, "cher")
        <5>1. PICK w \in {"default", "custom"}, c \in {"default", "cher", "oops"} :
                  w = config.writer /\ c = config.coercer
          BY <2>2
        <5>2. e \in Seq(S) /\ o = (w = "custom" /\ Has(e, "api"))
          BY <3>2, <4>1, <4>2, <5>1, Zenon
        <5>3. /\ Has(e, "req") /\ ~o => Write(w, c, e) = Served(w, AsType(e, "req"))
              /\ Write(w, c, e).status < 500 => o \/ Has(e, "req") \/ Has(e, "cher")
          BY <5>2, WritersKeepTheSide
        <5> QED BY <5>1, <5>3, Zenon
      <4> QED BY <4>1, <4>2, <4>3, Zenon DEF WrittenError
    <3>4. \A e : KeepsSide(Served(config.writer, e), e)
      BY DEF KeepsSide, Served, Response
    <3> QED BY <3>1, <3>3, <3>4
  <2>4. ASSUME q.out.own # NilSlice
        PROVE  Has(err, "req") /\ q.resp.status = 400 /\ KeepsSide(q.resp, AsType(err, "req")) /\ q.out.kind = "error"
    <3>1. err = New("conflict") /\ q.out.kind = "error"
      <4>1. Own(heap, p, q.out)
        BY <2>1, <2>4, OwnOutcome, Zenon
      <4> QED BY <4>1, OwnIs, Zenon
    <3>2. q.resp = WrittenError(WithReasons(New("conflict"), <<"a", "b", "c", p>>))
      BY <2>1, <2>4, <3>1 DEF Answered
    <3>3. q.resp = Response(400, "conflict", <<"a", "b", "c", p>>)
      BY <2>2, <3>2, ConflictIs DEF WrittenError
    <3>4. q.resp.status = 400
      BY <3>3 DEF Response
    <3>5. Has(New("conflict"), "req") /\ AsType(New("conflict"), "req") = New("conflict")
      BY <2>2, NewServed
    <3>6. StatusCode(New("conflict")) = 400
      BY ConflictStatus
    <3>7. New("conflict")[1].encodes
      BY NewIs
    <3> QED BY <3>1, <3>4, <3>5, <3>6, <3>7 DEF KeepsSide
  <2>5. ASSUME q.out.kind = "panic" PROVE q.resp.status \in {0, 500}
    <3>1. q.resp \in {Response(0, "", <<>>), WrittenError(New("unknown"))}
      BY <2>1, <2>5 DEF Answered
    <3>2. Response(0, "", <<>>).status = 0
      BY DEF Response
    <3>3. StatusCode(New("unknown")) = 500
      BY UnknownIs
    <3>4. WrittenError(New("unknown")) = Response(StatusCode(New("unknown")), "unknown", <<>>)
      BY <2>2, NewServed DEF WrittenError
    <3>5. WrittenError(New("unknown")).status = 500
      BY <3>3, <3>4 DEF Response
    <3>6. CASE q.resp = Response(0, "", <<>>)
      BY <3>2, <3>6, Zenon
    <3>7. CASE q.resp = WrittenError(New("unknown"))
      BY <3>5, <3>7, Zenon
    <3> QED BY <3>1, <3>6, <3>7, Zenon
  <2>6. CASE q.out.own = NilSlice
    BY <2>3, <2>5, <2>6
  <2>7. CASE q.out.own # NilSlice
    BY <2>4, <2>7
  <2> QED BY <2>6, <2>7
<1> QED BY <1>1, ServingAlways, PTL

\* What a request whose handler never ran is answered.
LEMMA Unrun ==
    ASSUME IInv, Wired, Serving, ~DoesAsItLikes, NEW p \in Procs, req[p].pc = "done", ~req[p].ran,
           req[p].resp.code = "invalid_request"
    PROVE  \E rs : /\ req[p].resp.reasons = rs
                   /\ Tells(rs, BadInputs(config.parser, TypeOf(p), req[p].in))
                   /\ KeysOnce(TypeOf(p)) => NoneTwice(rs)
<1> DEFINE q == req[p]
<1>1. Outcome(heap, p, q) /\ Answered(p, q)
  BY DEF Serving, RequestOK
<1>2. config.writer \in {"default", "custom"} /\ config.coercer \in {"default", "cher", "oops"}
  BY Library
<1>3. \A code : WrittenError(New(code)) = Response(StatusCode(New(code)), code, <<>>)
  BY <1>2, NewServed DEF WrittenError
<1>4. \A code : q.resp = WrittenError(New(code)) => code = "invalid_request"
  <2>1. \A code : WrittenError(New(code)).code = code
    BY <1>3 DEF Response
  <2> QED BY <2>1
<1> HIDE DEF q
<1>5. ~Stops(Chain(q))
  <2>1. q.resp # WrittenError(New("unauthorized"))
    BY <1>4
  <2> QED BY <1>1, <2>1 DEF Answered
<1>6. \/ \E u \in Unbindable : q.out = Out("error", u)
      \/ q.out = Out("error", Binding(q)) /\ Binding(q) # <<>>
  BY <1>1, <1>5 DEF Outcome, q
<1>7. q.resp = WrittenError(q.out.err)
  <2>1. q.out.kind = "error" /\ q.out.own = NilSlice
    BY <1>6, ErrorOut
  <2> QED BY <1>1, <1>5, <2>1 DEF Answered
<1>8. ASSUME NEW u \in Unbindable, q.out = Out("error", u) PROVE FALSE
  <2>1. q.resp = WrittenError(u)
    BY <1>7, <1>8, ErrorOut
  <2>2. PICK S : u \in Seq(S) /\ \A n \in S : n.kind = "plain"
    BY UnbindableIs
  <2>3. u # <<>> /\ Unwrapped(u) # "invalid_request"
    BY UnbindableIs
  <2>4. Write(config.writer, config.coercer, u).code # "invalid_request"
    BY <1>2, <2>2, <2>3, PlainServed
  <2>5. q.resp.code = "invalid_request"
    BY DEF q
  <2> QED BY <2>1, <2>4, <2>5 DEF WrittenError
<1>9. CASE q.out = Out("error", Binding(q)) /\ Binding(q) # <<>>
  <2>1. PICK b : b = Binding(q)
    OBVIOUS
  <2>2. q.resp = WrittenError(b) /\ b # <<>>
    BY <1>7, <1>9, <2>1, ErrorOut
  <2>3. \/ Preempts(b)
        \/ \E rs : /\ b = WithReasons(New("invalid_request"), rs)
                   /\ Tells(rs, BadInputs(config.parser, TypeOf(p), req[p].in))
                   /\ KeysOnce(TypeOf(p)) => NoneTwice(rs)
    BY <2>1, <2>2, BoundOrNamed DEF q
  <2>4. ~Preempts(b)
    <3>1. Preempts(b) => b = New("bad_payload") \/ b = New("unsupported_media_type")
      BY DEF Preempts, DecodeError
    <3> QED BY <1>4, <2>2, <3>1
  <2>5. PICK rs : /\ b = WithReasons(New("invalid_request"), rs)
                  /\ Tells(rs, BadInputs(config.parser, TypeOf(p), req[p].in))
                  /\ KeysOnce(TypeOf(p)) => NoneTwice(rs)
    BY <2>3, <2>4
  <2>6. q.resp = Response(StatusCode(New("invalid_request")), "invalid_request", rs)
    <3>1. rs \in Seq(Range(rs))
      BY <2>5 DEF Tells
    <3> QED BY <1>2, <2>2, <2>5, <3>1, ReasonsServed DEF WrittenError
  <2>7. q.resp.reasons = rs
    BY <2>6 DEF Response
  <2> QED BY <2>5, <2>7 DEF q
<1> QED BY <1>6, <1>8, <1>9

\* One response names every bad input of a request and nothing else, each once
\* where the type names no key twice, and no handler runs on a bad input; of
\* any Req type and any request.
THEOREM EveryInputNamed == Spec => []EveryBadInputNamed
<1>1. IInv /\ Wired /\ Serving => EveryBadInputNamed
  <2> SUFFICES ASSUME IInv, Wired, Serving, NEW p \in Procs
               PROVE  /\ req[p].pc = "handle" => BadInputs(config.parser, TypeOf(p), req[p].in) = {}
                      /\ req[p].pc = "done" /\ ~req[p].ran /\ req[p].resp.code = "invalid_request" /\ ~DoesAsItLikes =>
                             LET rs == req[p].resp.reasons
                                 bad == BadInputs(config.parser, TypeOf(p), req[p].in)
                             IN  /\ {<<rs[i].in, rs[i].field>> : i \in DOMAIN rs} = bad
                                 /\ KeysOnce(TypeOf(p)) => Cardinality(bad) = Len(rs)
    BY DEF EveryBadInputNamed, Reached
  <2>1. ASSUME req[p].pc = "handle" PROVE BadInputs(config.parser, TypeOf(p), req[p].in) = {}
    <3>1. PICK b : b = Binding(req[p])
      OBVIOUS
    <3>2. b = <<>>
      BY <2>1, <3>1 DEF Serving, RequestOK
    <3>3. ~Preempts(b)
      <4>1. New("bad_payload") # <<>> /\ New("unsupported_media_type") # <<>>
        BY NewIs
      <4> QED BY <3>2, <4>1 DEF Preempts, DecodeError
    <3>4. ASSUME NEW rs, b = WithReasons(New("invalid_request"), rs), Tells(rs, BadInputs(config.parser, TypeOf(p), req[p].in))
          PROVE  FALSE
      <4>1. rs \in Seq(Range(rs))
        BY <3>4 DEF Tells
      <4> QED BY <3>2, <3>4, <4>1, WithReasonsIs
    <3> QED BY <2>1, <3>1, <3>3, <3>4, BoundOrNamed
  <2>2. SUFFICES ASSUME req[p].pc = "done", ~req[p].ran, req[p].resp.code = "invalid_request", ~DoesAsItLikes
                 PROVE  LET rs == req[p].resp.reasons
                            bad == BadInputs(config.parser, TypeOf(p), req[p].in)
                        IN  /\ {<<rs[i].in, rs[i].field>> : i \in DOMAIN rs} = bad
                            /\ KeysOnce(TypeOf(p)) => Cardinality(bad) = Len(rs)
    BY <2>1
  <2> DEFINE bad == BadInputs(config.parser, TypeOf(p), req[p].in)
  <2>3. PICK rs : req[p].resp.reasons = rs /\ Tells(rs, bad) /\ (KeysOnce(TypeOf(p)) => NoneTwice(rs))
    BY <2>2, Unrun
  <2> HIDE DEF bad
  <2>4. {<<rs[i].in, rs[i].field>> : i \in DOMAIN rs} = bad /\ (NoneTwice(rs) => Cardinality(bad) = Len(rs))
    BY <2>3, Counted
  <2> QED BY <2>3, <2>4 DEF bad
<1> QED BY <1>1, ServingAlways, PTL
-----------------------------------------------------------------------------
(* Wiring: where each router and each route comes from. *)

\* Calls and Named of a given log.
CallsIn(g, ops) == Only([n \in DOMAIN g |-> n], {n \in DOMAIN g : g[n].op \in ops})

UsesIn(g, r, n) ==
    Only([k \in 1 .. n - 1 |-> k], {k \in 1 .. n - 1 : g[k].op = "use" /\ g[k].on = r})

NamedIn(g, r, n) == [i \in DOMAIN UsesIn(g, r, n) |-> g[UsesIn(g, r, n)[i]].mw[1]]

\* Every use on the log names a middleware.
Names(g) == \A i \in 1 .. Len(g) : g[i].op = "use" => g[i].mw # <<>>

\* The number of the call that made router r, the router it was made on, and
\* what it starts with; s is what every router starts with.
Made(g, r) == CallsIn(g, {"group"})[r - 1]
Parent(g, r) == g[Made(g, r)].on
Root == [chain |-> <<>>, prefix |-> <<>>]
Child(g, s, r) ==
    [chain |-> s[Parent(g, r)].chain \o NamedIn(g, Parent(g, r), Made(g, r)),
     prefix |-> Append(s[Parent(g, r)].prefix, Made(g, r))]

Starts(g, n, s) == s = [r \in 1 .. n |-> IF r = 1 THEN Root ELSE Child(g, s, r)]

\* The log of a program with n routers: as many as its groups and the root,
\* each call on one of them, a group's on an older one.
Wires(g, n) ==
    /\ g \in Seq(CallType) /\ Names(g)
    /\ n = Len(CallsIn(g, {"group"})) + 1
    /\ \A i \in 1 .. Len(g) : g[i].on \in 1 .. n
    /\ \A r \in 2 .. n : Parent(g, r) \in 1 .. r - 1

\* A route registered by call number n.
RouteIs(g, s, route, n) ==
    /\ route.chain = s[g[n].on].chain \o NamedIn(g, g[n].on, n) \o g[n].mw
    /\ route.prefix = s[g[n].on].prefix

Registering == CallsIn(log, {"handle", "handleFunc"})

\* A router's middleware are those it started with and those named on it since.
RoutersKeep(s) ==
    \A r \in 1 .. Len(routers) :
        /\ s[r].chain \in Seq(MiddlewareType)
        /\ Elements(heap, routers[r].mw) = s[r].chain \o NamedIn(log, r, Len(log) + 1)
        /\ routers[r].prefix = s[r].prefix

RoutesKeep(s) ==
    phase # "panicked" => \A i \in 1 .. Len(routes) : RouteIs(log, s, routes[i], Registering[i])

Lineage ==
    /\ Wires(log, Len(routers))
    /\ phase # "panicked" => Len(routes) = Len(Registering)
    /\ \E s : Starts(log, Len(routers), s)
    /\ \A s : Starts(log, Len(routers), s) => RoutersKeep(s) /\ RoutesKeep(s)

LEMMA UpToNow ==
    ASSUME NEW n \in Nat
    PROVE  /\ [k \in 1 .. n |-> k] \in Seq(1 .. n) /\ Len([k \in 1 .. n |-> k]) = n
           /\ [k \in 1 .. n |-> k] \in Seq(Nat)
           /\ Append([k \in 1 .. n |-> k], n + 1) = [k \in 1 .. n + 1 |-> k]
<1> DEFINE up == [k \in 1 .. n |-> k]
           more == [k \in 1 .. n + 1 |-> k]
<1>1. up \in [1 .. n -> 1 .. n] /\ up \in [1 .. n -> Nat] /\ more \in [1 .. n + 1 -> Nat] /\ n + 1 \in Nat
  OBVIOUS
<1>2. (\A k \in 1 .. n : up[k] = k) /\ \A k \in 1 .. n + 1 : more[k] = k
  OBVIOUS
<1> HIDE DEF up, more
<1>3. up \in Seq(1 .. n) /\ Len(up) = n /\ up \in Seq(Nat)
  BY <1>1, Written
<1>4. more \in Seq(Nat) /\ Len(more) = n + 1
  BY <1>1, Written
<1>5. Append(up, n + 1) \in Seq(Nat) /\ Len(Append(up, n + 1)) = n + 1
      /\ \A k \in 1 .. n + 1 : Append(up, n + 1)[k] = more[k]
  <2>1. /\ Append(up, n + 1) \in Seq(Nat) /\ Len(Append(up, n + 1)) = Len(up) + 1
        /\ (\A k \in 1 .. Len(up) : Append(up, n + 1)[k] = up[k]) /\ Append(up, n + 1)[Len(up) + 1] = n + 1
    BY <1>1, <1>3, AppendProperties
  <2> QED BY <1>2, <1>3, <2>1
<1>6. Append(up, n + 1) = more
  BY <1>4, <1>5, SeqEqual
<1> QED BY <1>3, <1>6 DEF up, more

\* Log k is log g and one call more.
Adds(g, call, k) == g \in Seq(CallType) /\ call \in CallType /\ k = Append(g, call)

LEMMA LogAppend ==
    ASSUME NEW g, NEW call, NEW k, Adds(g, call, k)
    PROVE  /\ g \in Seq(CallType) /\ call \in CallType /\ k \in Seq(CallType) /\ Len(k) = Len(g) + 1 /\ Len(g) \in Nat
           /\ DOMAIN g = 1 .. Len(g) /\ DOMAIN k = 1 .. Len(g) + 1
           /\ \A n \in 1 .. Len(g) : k[n] = g[n]
           /\ k[Len(g) + 1] = call
BY AppendProperties, LenProperties DEF Adds

LEMMA CallsGrow ==
    ASSUME NEW g, NEW call, NEW k, Adds(g, call, k), NEW ops
    PROVE  /\ call.op \in ops => CallsIn(k, ops) = Append(CallsIn(g, ops), Len(g) + 1)
           /\ call.op \notin ops => CallsIn(k, ops) = CallsIn(g, ops)
<1> DEFINE n == Len(g)
           up == [i \in 1 .. n |-> i]
           old == {i \in DOMAIN g : g[i].op \in ops}
           new == {i \in DOMAIN k : k[i].op \in ops}
<1>1. /\ n \in Nat /\ DOMAIN g = 1 .. n /\ DOMAIN k = 1 .. n + 1
      /\ (\A i \in 1 .. n : k[i] = g[i]) /\ k[n + 1] = call
  BY LogAppend
<1>2. up \in Seq(Nat) /\ Len(up) = n /\ Append(up, n + 1) = [i \in 1 .. n + 1 |-> i] /\ n + 1 \in Nat
  BY <1>1, UpToNow
<1>3. CallsIn(g, ops) = Only(up, old) /\ CallsIn(k, ops) = Only(Append(up, n + 1), new)
  BY <1>1, <1>2 DEF CallsIn
<1>4. n + 1 \in new <=> call.op \in ops
  BY <1>1
<1>5. \A i \in 1 .. Len(up) : up[i] \in new <=> up[i] \in old
  BY <1>1, <1>2
<1> HIDE DEF up, old, new
<1>6. Only(up, new) = Only(up, old)
  BY <1>2, <1>5, OnlyAgrees
<1>7. PICK next \in Nat : next = n + 1
  BY <1>2
<1>8. Only(Append(up, next), new) = IF next \in new THEN Append(Only(up, new), next) ELSE Only(up, new)
  BY <1>2, OnlyOfAppend
<1> QED BY <1>3, <1>4, <1>6, <1>7, <1>8, Zenon

LEMMA CallsType == ASSUME NEW g \in Seq(CallType), NEW ops PROVE CallsIn(g, ops) \in Seq(1 .. Len(g))
<1>1. Len(g) \in Nat /\ DOMAIN g = 1 .. Len(g)
  BY LenProperties
<1>2. [i \in 1 .. Len(g) |-> i] \in Seq(1 .. Len(g))
  BY <1>1, UpToNow
<1> QED BY <1>1, <1>2, OnlyPicks DEF CallsIn

LEMMA UsesType == ASSUME NEW g, NEW r, NEW n \in Nat \ {0} PROVE UsesIn(g, r, n) \in Seq(1 .. n - 1)
<1>1. [i \in 1 .. n - 1 |-> i] \in Seq(1 .. n - 1)
  BY UpToNow
<1> QED BY <1>1, OnlyPicks DEF UsesIn

\* What was named ahead of a call is not changed by a later one.
LEMMA NamedStays ==
    ASSUME NEW g, NEW call, NEW k, Adds(g, call, k), NEW r, NEW n \in 1 .. Len(g) + 1
    PROVE  UsesIn(k, r, n) = UsesIn(g, r, n) /\ NamedIn(k, r, n) = NamedIn(g, r, n)
<1>1. Len(g) \in Nat /\ \A i \in 1 .. Len(g) : k[i] = g[i]
  BY LogAppend
<1>2. n \in Nat \ {0} /\ \A i \in 1 .. n - 1 : i \in 1 .. Len(g) /\ k[i] = g[i]
  BY <1>1
<1>3. {i \in 1 .. n - 1 : k[i].op = "use" /\ k[i].on = r} = {i \in 1 .. n - 1 : g[i].op = "use" /\ g[i].on = r}
  BY <1>2
<1>4. UsesIn(k, r, n) = UsesIn(g, r, n)
  BY <1>3, Zenon DEF UsesIn
<1> DEFINE uses == UsesIn(g, r, n)
<1>5. \A i \in DOMAIN uses : uses[i] \in 1 .. n - 1
  <2>1. uses \in Seq(1 .. n - 1)
    BY <1>2, UsesType
  <2> HIDE DEF uses
  <2> QED BY <2>1, LenProperties, ElementOfSeq
<1>6. NamedIn(k, r, n) = [i \in DOMAIN uses |-> k[uses[i]].mw[1]]
  BY <1>4, Zenon DEF NamedIn
<1>7. NamedIn(g, r, n) = [i \in DOMAIN uses |-> g[uses[i]].mw[1]]
  BY DEF NamedIn
<1>8. \A i \in DOMAIN uses : k[uses[i]] = g[uses[i]]
  BY <1>2, <1>5
<1> HIDE DEF uses
<1> QED BY <1>4, <1>6, <1>7, <1>8

LEMMA NamedType ==
    ASSUME NEW g \in Seq(CallType), Names(g), NEW r, NEW n \in 1 .. Len(g) + 1
    PROVE  NamedIn(g, r, n) \in Seq(MiddlewareType) /\ Len(NamedIn(g, r, n)) = Len(UsesIn(g, r, n))
<1> DEFINE uses == UsesIn(g, r, n)
           use == {i \in 1 .. n - 1 : g[i].op = "use" /\ g[i].on = r}
           up == [k \in 1 .. n - 1 |-> k]
<1>1. Len(g) \in Nat /\ n \in Nat \ {0} /\ n - 1 \in Nat
  BY LenProperties
<1>2. uses \in Seq(1 .. n - 1) /\ Len(uses) \in Nat /\ DOMAIN uses = 1 .. Len(uses)
  BY <1>1, UsesType, LenProperties
<1>3. Range(uses) = Range(up) \cap use
  <2>1. up \in Seq(1 .. n - 1)
    BY <1>1, UpToNow
  <2>2. uses = Only(up, use)
    BY DEF UsesIn
  <2> HIDE DEF up, use, uses
  <2> QED BY <2>1, <2>2, OnlyRange
<1>4. ASSUME NEW i \in 1 .. Len(uses) PROVE g[uses[i]].mw[1] \in MiddlewareType
  <2>1. uses[i] \in use
    BY <1>2, <1>3 DEF Range
  <2>2. uses[i] \in 1 .. Len(g) /\ g[uses[i]].op = "use"
    BY <1>1, <2>1
  <2>3. g[uses[i]] \in CallType /\ g[uses[i]].mw # <<>>
    BY <2>2, ElementOfSeq DEF Names
  <2>4. g[uses[i]].mw \in Seq(MiddlewareType)
    BY <2>3 DEF CallType
  <2>5. PICK mw \in Seq(MiddlewareType) : mw = g[uses[i]].mw /\ mw # <<>>
    BY <2>3, <2>4
  <2>6. Len(mw) \in Nat \ {0}
    BY <2>5, EmptySeq, LenProperties
  <2>7. mw[1] \in MiddlewareType
    BY <2>6, ElementOfSeq
  <2> QED BY <2>5, <2>7
<1>5. [i \in 1 .. Len(uses) |-> g[uses[i]].mw[1]] \in [1 .. Len(uses) -> MiddlewareType]
  BY <1>4
<1>6. NamedIn(g, r, n) = [i \in 1 .. Len(uses) |-> g[uses[i]].mw[1]]
  BY <1>2 DEF NamedIn
<1> DEFINE named == [i \in 1 .. Len(uses) |-> g[uses[i]].mw[1]]
<1>7. Len(uses) \in Nat /\ named \in [1 .. Len(uses) -> MiddlewareType]
  BY <1>2, <1>5
<1> HIDE DEF uses, named
<1>8. named \in Seq(MiddlewareType) /\ Len(named) = Len(uses)
  BY <1>7, Written
<1> QED BY <1>6, <1>8 DEF uses, named

\* A use on the router adds to what is named on it, and nothing else does.
LEMMA NamedGrows ==
    ASSUME NEW g, Names(g), NEW call, NEW k, Adds(g, call, k), call.op = "use" => call.mw # <<>>, NEW r
    PROVE  /\ Names(k)
           /\ call.op = "use" /\ call.on = r =>
                  NamedIn(k, r, Len(k) + 1) = Append(NamedIn(g, r, Len(g) + 1), call.mw[1])
           /\ ~(call.op = "use" /\ call.on = r) => NamedIn(k, r, Len(k) + 1) = NamedIn(g, r, Len(g) + 1)
<1> DEFINE n == Len(g)
           up == [i \in 1 .. n |-> i]
           old == {i \in 1 .. n : g[i].op = "use" /\ g[i].on = r}
           new == {i \in 1 .. n + 1 : k[i].op = "use" /\ k[i].on = r}
           was == UsesIn(g, r, n + 1)
           is == UsesIn(k, r, Len(k) + 1)
<1>1. /\ n \in Nat /\ Len(k) = n + 1 /\ (\A i \in 1 .. n : k[i] = g[i]) /\ k[n + 1] = call
      /\ k \in Seq(CallType) /\ g \in Seq(CallType) /\ call \in CallType
  BY LogAppend
<1>2. Names(k)
  BY <1>1 DEF Names
<1>3. up \in Seq(Nat) /\ Len(up) = n /\ Append(up, n + 1) = [i \in 1 .. n + 1 |-> i] /\ n + 1 \in Nat
  BY <1>1, UpToNow
<1>4. was = Only(up, old) /\ is = Only(Append(up, n + 1), new)
  <2>1. PICK l \in Nat : l = Len(k) + 1 /\ l - 1 = n + 1
    BY <1>1
  <2>2. PICK m \in Nat : m = n + 1 /\ m - 1 = n
    BY <1>1
  <2>3. UsesIn(k, r, l) = Only([i \in 1 .. l - 1 |-> i], {i \in 1 .. l - 1 : k[i].op = "use" /\ k[i].on = r})
    BY DEF UsesIn
  <2>4. UsesIn(g, r, m) = Only([i \in 1 .. m - 1 |-> i], {i \in 1 .. m - 1 : g[i].op = "use" /\ g[i].on = r})
    BY DEF UsesIn
  <2>5. is = Only(Append(up, n + 1), new)
    BY <1>3, <2>1, <2>3, Zenon
  <2>6. was = Only(up, old)
    BY <2>2, <2>4, Zenon
  <2> QED BY <2>5, <2>6
<1>5. n + 1 \in new <=> call.op = "use" /\ call.on = r
  BY <1>1
<1>6. \A i \in 1 .. Len(up) : up[i] \in new <=> up[i] \in old
  BY <1>1, <1>3
<1>7. is = IF n + 1 \in new THEN Append(was, n + 1) ELSE was
  <2> HIDE DEF up, old, new, was, is
  <2>1. Only(up, new) = Only(up, old)
    BY <1>3, <1>6, OnlyAgrees
  <2>2. PICK next \in Nat : next = n + 1
    BY <1>3
  <2>3. Only(Append(up, next), new) = IF next \in new THEN Append(Only(up, new), next) ELSE Only(up, new)
    BY <1>3, OnlyOfAppend
  <2> QED BY <1>4, <2>1, <2>2, <2>3, Zenon
<1>8. was \in Seq(1 .. n) /\ Len(was) \in Nat /\ DOMAIN was = 1 .. Len(was) /\ \A i \in 1 .. Len(was) : was[i] \in 1 .. n
  <2>1. was \in Seq(1 .. n + 1 - 1) /\ n + 1 - 1 = n
    BY <1>1, UsesType
  <2> HIDE DEF was
  <2> QED BY <2>1, LenProperties, ElementOfSeq
<1> DEFINE before == NamedIn(g, r, n + 1)
           after == NamedIn(k, r, Len(k) + 1)
<1>9. before \in Seq(MiddlewareType) /\ Len(before) = Len(was) /\ after \in Seq(MiddlewareType) /\ Len(after) = Len(is)
  <2>1. n + 1 \in 1 .. Len(g) + 1 /\ Len(k) + 1 \in 1 .. Len(k) + 1
    BY <1>1
  <2> QED BY <1>1, <1>2, <2>1, NamedType
<1>10. before = [i \in DOMAIN was |-> g[was[i]].mw[1]] /\ after = [i \in DOMAIN is |-> k[is[i]].mw[1]]
  BY DEF NamedIn
<1> HIDE DEF new, old, up, was, is, before, after
<1>11. CASE n + 1 \notin new
  <2>1. is = was
    BY <1>7, <1>11
  <2>2. \A i \in DOMAIN was : k[was[i]] = g[was[i]]
    BY <1>1, <1>8
  <2>3. after = before
    BY <1>10, <2>1, <2>2
  <2> QED BY <1>2, <1>5, <1>11, <2>3 DEF before, after
<1>12. CASE n + 1 \in new
  <2>1. is = Append(was, n + 1)
    BY <1>7, <1>12
  <2>2. /\ Len(is) = Len(was) + 1 /\ is[Len(was) + 1] = n + 1 /\ DOMAIN is = 1 .. Len(was) + 1
        /\ \A i \in 1 .. Len(was) : is[i] = was[i]
    <3>1. was \in Seq(Nat) /\ n + 1 \in Nat
      BY <1>1, <1>8, SeqMonotonic
    <3> QED BY <2>1, <3>1, AppendProperties, LenProperties
  <2>3. call.mw[1] \in MiddlewareType
    <3>1. call.mw \in Seq(MiddlewareType) /\ call.mw # <<>>
      BY <1>1, <1>5, <1>12 DEF CallType
    <3>2. Len(call.mw) \in Nat \ {0}
      BY <3>1, EmptySeq, LenProperties
    <3> QED BY <3>1, <3>2, ElementOfSeq
  <2>4. /\ Append(before, call.mw[1]) \in Seq(MiddlewareType) /\ Len(Append(before, call.mw[1])) = Len(was) + 1
        /\ \A i \in 1 .. Len(was) : Append(before, call.mw[1])[i] = before[i]
        /\ Append(before, call.mw[1])[Len(was) + 1] = call.mw[1]
    BY <1>9, <2>3, AppendProperties
  <2>5. ASSUME NEW i \in 1 .. Len(was) + 1 PROVE after[i] = Append(before, call.mw[1])[i]
    <3>1. after[i] = k[is[i]].mw[1]
      BY <1>10, <2>2
    <3>2. CASE i \in 1 .. Len(was)
      <4>1. before[i] = g[was[i]].mw[1] /\ k[was[i]] = g[was[i]]
        BY <1>1, <1>8, <1>10, <3>2
      <4> QED BY <2>2, <2>4, <3>1, <3>2, <4>1
    <3>3. CASE i = Len(was) + 1
      BY <1>1, <2>2, <2>4, <3>1, <3>3
    <3>4. i \in 1 .. Len(was) \/ i = Len(was) + 1
      BY <1>8
    <3> QED BY <3>2, <3>3, <3>4
  <2>6. after = Append(before, call.mw[1])
    BY <1>9, <2>2, <2>4, <2>5, SeqEqual
  <2> QED BY <1>2, <1>5, <1>12, <2>6 DEF before, after
<1> QED BY <1>11, <1>12

LEMMA NamedNone ==
    ASSUME NEW g \in Seq(CallType), Names(g), NEW r, \A i \in 1 .. Len(g) : g[i].on # r
    PROVE  NamedIn(g, r, Len(g) + 1) = <<>>
<1> DEFINE n == Len(g)
           up == [i \in 1 .. n |-> i]
           use == {i \in 1 .. n : g[i].op = "use" /\ g[i].on = r}
<1>1. n \in Nat /\ n + 1 \in 1 .. n + 1 /\ n + 1 - 1 = n
  BY LenProperties
<1>2. up \in Seq(Nat) /\ use = {}
  BY <1>1, UpToNow
<1>3. UsesIn(g, r, n + 1) = Only(up, use)
  BY <1>1 DEF UsesIn
<1> HIDE DEF up, use
<1>4. Range(Only(up, use)) = {} /\ Only(up, use) \in Seq(Nat)
  BY <1>2, OnlyRange, OnlyPicks
<1>5. Only(up, use) = <<>>
  BY <1>4, RangeEmpty
<1>6. Len(NamedIn(g, r, n + 1)) = 0 /\ NamedIn(g, r, n + 1) \in Seq(MiddlewareType)
  <2>1. Len(<<>>) = 0
    BY EmptySeq
  <2> QED BY <1>1, <1>3, <1>5, <2>1, NamedType
<1> QED BY <1>6, EmptySeq

\* Whoever was there before a call has been made as it was.
LEMMA MadeStays ==
    ASSUME NEW g, NEW n, Wires(g, n), NEW call, NEW k, Adds(g, call, k), NEW r \in 2 .. n, NEW s
    PROVE  /\ Made(k, r) = Made(g, r) /\ Made(g, r) \in 1 .. Len(g)
           /\ Parent(k, r) = Parent(g, r) /\ Parent(g, r) \in 1 .. r - 1
           /\ Child(k, s, r) = Child(g, s, r)
<1> DEFINE groups == CallsIn(g, {"group"})
           more == CallsIn(k, {"group"})
<1>1. /\ g \in Seq(CallType) /\ Len(g) \in Nat /\ n = Len(groups) + 1 /\ Parent(g, r) \in 1 .. r - 1
      /\ \A i \in 1 .. Len(g) : k[i] = g[i]
  BY LogAppend DEF Wires
<1>2. groups \in Seq(1 .. Len(g)) /\ groups \in Seq(Nat) /\ Len(groups) \in Nat
  <2>1. groups \in Seq(1 .. Len(g))
    BY <1>1, CallsType
  <2> HIDE DEF groups
  <2>2. 1 .. Len(g) \subseteq Nat
    BY <1>1
  <2> QED BY <2>1, <2>2, SeqMonotonic, LenProperties
<1>3. more = groups \/ more = Append(groups, Len(g) + 1)
  BY <1>1, CallsGrow
<1>4. \A i \in 1 .. Len(groups) : more[i] = groups[i] /\ groups[i] \in 1 .. Len(g)
  <2> HIDE DEF groups, more
  <2>1. \A i \in 1 .. Len(groups) : groups[i] \in 1 .. Len(g)
    BY <1>2, ElementOfSeq
  <2>2. Len(g) + 1 \in Nat
    BY <1>1
  <2>3. \A i \in 1 .. Len(groups) : Append(groups, Len(g) + 1)[i] = groups[i]
    BY <1>2, <2>2, AppendProperties
  <2> QED BY <1>3, <2>1, <2>3
<1>5. r - 1 \in 1 .. Len(groups)
  BY <1>1, <1>2
<1>6. Made(k, r) = Made(g, r) /\ Made(g, r) \in 1 .. Len(g)
  BY <1>4, <1>5 DEF Made
<1>7. Parent(k, r) = Parent(g, r)
  BY <1>1, <1>6 DEF Parent
<1>8. PICK m \in 1 .. Len(g) + 1 : m = Made(g, r)
  BY <1>1, <1>6
<1>9. PICK p : p = Parent(g, r)
  OBVIOUS
<1>10. NamedIn(k, p, m) = NamedIn(g, p, m)
  BY <1>1, NamedStays
<1>11. Child(k, s, r) = Child(g, s, r)
  BY <1>6, <1>7, <1>8, <1>9, <1>10, Zenon DEF Child
<1> QED BY <1>1, <1>6, <1>7, <1>11

LEMMA RouteStays ==
    ASSUME NEW g, NEW call, NEW k, Adds(g, call, k), NEW s, NEW t, NEW route, NEW n \in 1 .. Len(g), s[g[n].on] = t[g[n].on], RouteIs(g, s, route, n)
    PROVE  RouteIs(k, t, route, n)
<1>1. k[n] = g[n] /\ n \in 1 .. Len(g) + 1
  <2>1. Len(g) \in Nat /\ k[n] = g[n]
    BY LogAppend
  <2> QED BY <2>1
<1>2. PICK r : r = g[n].on
  OBVIOUS
<1>3. NamedIn(k, r, n) = NamedIn(g, r, n)
  BY <1>1, NamedStays
<1> QED BY <1>1, <1>2, <1>3, Zenon DEF RouteIs

\* A call that makes no router leaves what the routers start with.
LEMMA WiresOn ==
    ASSUME NEW g, NEW n, Wires(g, n), NEW call, NEW k, Adds(g, call, k),
           call.op # "group", call.op = "use" => call.mw # <<>>, call.on \in 1 .. n
    PROVE  Wires(k, n) /\ \A s : Starts(k, n, s) <=> Starts(g, n, s)
<1>1. /\ g \in Seq(CallType) /\ Names(g) /\ k \in Seq(CallType) /\ Len(k) = Len(g) + 1 /\ Len(g) \in Nat
      /\ (\A i \in 1 .. Len(g) : k[i] = g[i]) /\ k[Len(g) + 1] = call
  BY LogAppend DEF Wires
<1>2. CallsIn(k, {"group"}) = CallsIn(g, {"group"})
  BY <1>1, CallsGrow
<1>3. Names(k)
  BY <1>1 DEF Names
<1>4. \A i \in 1 .. Len(k) : k[i].on \in 1 .. n
  <2>1. \A i \in 1 .. Len(g) : g[i].on \in 1 .. n
    BY DEF Wires
  <2>2. \A i \in 1 .. Len(k) : i \in 1 .. Len(g) \/ i = Len(g) + 1
    BY <1>1
  <2> QED BY <1>1, <2>1, <2>2, Zenon
<1>5. \A r \in 2 .. n : Parent(k, r) \in 1 .. r - 1
  BY MadeStays
<1>6. Wires(k, n)
  BY <1>1, <1>2, <1>3, <1>4, <1>5 DEF Wires
<1>7. ASSUME NEW s PROVE Starts(k, n, s) <=> Starts(g, n, s)
  <2>1. n \in Nat
    BY <1>1, CallsType, LenProperties DEF Wires
  <2>2. \A r \in 1 .. n : r = 1 \/ r \in 2 .. n
    BY <2>1
  <2>3. \A r \in 1 .. n : r # 1 => Child(k, s, r) = Child(g, s, r)
    BY <2>2, MadeStays
  <2>4. [r \in 1 .. n |-> IF r = 1 THEN Root ELSE Child(k, s, r)]
        = [r \in 1 .. n |-> IF r = 1 THEN Root ELSE Child(g, s, r)]
    BY <2>3, Zenon
  <2> QED BY <2>4, Zenon DEF Starts
<1> QED BY <1>6, <1>7

\* A group's router starts with what its parent has, the others as before.
Inherits(g, n, parent, t) ==
    /\ t[n + 1].chain = t[parent].chain \o NamedIn(g, parent, Len(g) + 1)
    /\ t[n + 1].prefix = Append(t[parent].prefix, Len(g) + 1)
    /\ \E s : Starts(g, n, s) /\ \A r \in 1 .. n : t[r] = s[r]

LEMMA WiresGroup ==
    ASSUME NEW g, NEW n, Wires(g, n), NEW call, NEW k, Adds(g, call, k),
           call.op = "group", call.on \in 1 .. n
    PROVE  /\ Wires(k, n + 1) /\ n \in Nat
           /\ Made(k, n + 1) = Len(g) + 1 /\ Parent(k, n + 1) = call.on
           /\ (\E s : Starts(g, n, s)) => \E t : Starts(k, n + 1, t)
           /\ \A t : Starts(k, n + 1, t) => Inherits(g, n, call.on, t)
<1> DEFINE groups == CallsIn(g, {"group"})
           new == n + 1
<1>1. /\ g \in Seq(CallType) /\ Names(g) /\ k \in Seq(CallType) /\ Len(k) = Len(g) + 1 /\ Len(g) \in Nat
      /\ (\A i \in 1 .. Len(g) : k[i] = g[i]) /\ k[Len(g) + 1] = call
  BY LogAppend DEF Wires
<1>2. CallsIn(k, {"group"}) = Append(groups, Len(g) + 1)
  BY <1>1, CallsGrow
<1>3. groups \in Seq(Nat) /\ Len(groups) \in Nat /\ n = Len(groups) + 1
  <2>1. groups \in Seq(1 .. Len(g)) /\ n = Len(groups) + 1
    BY <1>1, CallsType DEF Wires
  <2> HIDE DEF groups
  <2>2. 1 .. Len(g) \subseteq Nat
    BY <1>1
  <2> QED BY <2>1, <2>2, SeqMonotonic, LenProperties
<1>4. n \in Nat /\ new \in Nat /\ new = n + 1 /\ new - 1 = Len(groups) + 1 /\ new # 1 /\ new \in 2 .. new
      /\ new \notin 1 .. n
  BY <1>3
<1> HIDE DEF groups
<1>5. Len(Append(groups, Len(g) + 1)) = n /\ Append(groups, Len(g) + 1)[n] = Len(g) + 1
  <2>1. Len(g) + 1 \in Nat
    BY <1>1
  <2> QED BY <1>3, <2>1, AppendProperties
<1>6. Made(k, new) = Len(g) + 1 /\ Parent(k, new) = call.on
  BY <1>1, <1>2, <1>3, <1>4, <1>5 DEF Made, Parent
<1>7. Wires(k, new)
  <2>1. Names(k)
    BY <1>1 DEF Names
  <2>2. \A i \in 1 .. Len(k) : k[i].on \in 1 .. new
    <3>1. \A i \in 1 .. Len(k) : i \in 1 .. Len(g) \/ i = Len(g) + 1
      BY <1>1
    <3>2. \A i \in 1 .. Len(k) : k[i].on \in 1 .. n
      BY <1>1, <3>1 DEF Wires
    <3> QED BY <1>4, <3>2
  <2>3. \A r \in 2 .. n : Parent(k, r) \in 1 .. r - 1
    BY MadeStays
  <2>4. ASSUME NEW r \in 2 .. new PROVE Parent(k, r) \in 1 .. r - 1
    <3>1. r \in 2 .. n \/ r = new
      BY <1>4
    <3>2. Parent(k, new) \in 1 .. new - 1
      BY <1>4, <1>6
    <3> QED BY <2>3, <3>1, <3>2
  <2>5. new = Len(CallsIn(k, {"group"})) + 1
    BY <1>2, <1>5
  <2> QED BY <1>1, <2>1, <2>2, <2>4, <2>5 DEF Wires
<1>8. \A r \in 1 .. n : r # 1 => r \in 2 .. n
  BY <1>4
<1>9. \A s : \A r \in 2 .. n : Child(k, s, r) = Child(g, s, r) /\ Parent(g, r) \in 1 .. n
  <2>1. \A s : \A r \in 2 .. n : Child(k, s, r) = Child(g, s, r) /\ Parent(g, r) \in 1 .. r - 1
    BY MadeStays
  <2>2. \A r \in 2 .. n : \A p \in 1 .. r - 1 : p \in 1 .. n
    BY <1>4
  <2> QED BY <2>1, <2>2
<1>10. \A s, t : (\A r \in 1 .. n : s[r] = t[r]) => \A r \in 2 .. n : Child(k, t, r) = Child(g, s, r)
  <2> SUFFICES ASSUME NEW s, NEW t, \A r \in 1 .. n : s[r] = t[r], NEW r \in 2 .. n
               PROVE  Child(k, t, r) = Child(g, s, r)
    OBVIOUS
  <2>1. Child(k, t, r) = Child(g, t, r) /\ s[Parent(g, r)] = t[Parent(g, r)]
    BY <1>9
  <2> QED BY <2>1, Zenon DEF Child
<1>11. ASSUME NEW s, Starts(g, n, s) PROVE \E t : Starts(k, new, t)
  <2> DEFINE t == [r \in 1 .. new |-> IF r = new THEN Child(k, s, new) ELSE s[r]]
  <2>1. DOMAIN t = 1 .. new /\ (\A r \in 1 .. n : t[r] = s[r]) /\ t[new] = Child(k, s, new)
        /\ \A r \in 1 .. new : r \in 1 .. n \/ r = new
    BY <1>4
  <2>2. \A r \in 1 .. n : s[r] = IF r = 1 THEN Root ELSE Child(g, s, r)
    BY <1>11 DEF Starts
  <2>3. Child(k, t, new) = Child(k, s, new)
    <3>1. t[Parent(k, new)] = s[Parent(k, new)]
      BY <1>6, <2>1
    <3> QED BY <3>1, Zenon DEF Child
  <2>4. \A r \in 2 .. n : Child(k, t, r) = Child(g, s, r)
    BY <1>10, <2>1
  <2> HIDE DEF t
  <2>5. ASSUME NEW r \in 1 .. new PROVE t[r] = IF r = 1 THEN Root ELSE Child(k, t, r)
    <3>1. CASE r = new
      BY <1>4, <2>1, <2>3, <3>1, Zenon
    <3>2. CASE r \in 1 .. n
      BY <1>8, <2>1, <2>2, <2>4, <3>2, Zenon
    <3> QED BY <2>1, <3>1, <3>2
  <2>6. t = [r \in 1 .. new |-> IF r = 1 THEN Root ELSE Child(k, t, r)]
    <3>1. t = [r \in 1 .. new |-> t[r]]
      BY DEF t
    <3> QED BY <2>5, <3>1, Zenon
  <2> QED BY <2>6, Zenon DEF Starts
<1>12. ASSUME NEW t, Starts(k, new, t)
       PROVE  /\ t[new].chain = t[call.on].chain \o NamedIn(g, call.on, Len(g) + 1)
              /\ t[new].prefix = Append(t[call.on].prefix, Len(g) + 1)
              /\ \E s : Starts(g, n, s) /\ \A r \in 1 .. n : t[r] = s[r]
  <2>1. \A r \in 1 .. new : t[r] = IF r = 1 THEN Root ELSE Child(k, t, r)
    BY <1>12 DEF Starts
  <2>2. t[new] = Child(k, t, new)
    BY <1>4, <2>1
  <2>3. PICK m \in 1 .. Len(g) + 1 : m = Len(g) + 1
    BY <1>1
  <2>4. NamedIn(k, call.on, m) = NamedIn(g, call.on, m)
    BY <1>1, NamedStays
  <2>5. /\ t[new].chain = t[call.on].chain \o NamedIn(g, call.on, Len(g) + 1)
        /\ t[new].prefix = Append(t[call.on].prefix, Len(g) + 1)
    <3>1. Child(k, t, new) = [chain |-> t[call.on].chain \o NamedIn(k, call.on, m),
                              prefix |-> Append(t[call.on].prefix, m)]
      BY <1>6, <2>3, Zenon DEF Child
    <3>2. t[new] = [chain |-> t[call.on].chain \o NamedIn(g, call.on, Len(g) + 1),
                    prefix |-> Append(t[call.on].prefix, Len(g) + 1)]
      BY <2>2, <2>3, <2>4, <3>1, Zenon
    <3> DEFINE chain == t[call.on].chain \o NamedIn(g, call.on, Len(g) + 1)
               prefix == Append(t[call.on].prefix, Len(g) + 1)
    <3>3. t[new] = [chain |-> chain, prefix |-> prefix]
      BY <3>2
    <3> HIDE DEF chain, prefix
    <3>4. t[new].chain = chain /\ t[new].prefix = prefix
      BY <3>3
    <3> QED BY <3>4 DEF chain, prefix
  <2> DEFINE s == [r \in 1 .. n |-> t[r]]
  <2>6. \A r \in 1 .. n : t[r] = s[r] /\ r \in 1 .. new
    BY <1>4
  <2>7. \A r \in 2 .. n : Child(k, t, r) = Child(g, s, r)
    BY <1>10, <2>6
  <2>8. \A r \in 1 .. n : t[r] = IF r = 1 THEN Root ELSE Child(g, s, r)
    BY <1>8, <2>1, <2>6, <2>7, Zenon
  <2>9. Starts(g, n, s)
    <3>1. [r \in 1 .. n |-> t[r]] = [r \in 1 .. n |-> IF r = 1 THEN Root ELSE Child(g, s, r)]
      BY <2>8, Zenon
    <3> QED BY <3>1, Zenon DEF Starts
  <2> HIDE DEF s
  <2> QED BY <2>5, <2>6, <2>9
<1> QED BY <1>4, <1>6, <1>7, <1>11, <1>12 DEF Inherits

LEMMA LineageFacts ==
    ASSUME IInv, Lineage
    PROVE  /\ log \in Seq(CallType) /\ Len(log) \in Nat /\ Names(log) /\ Wires(log, Len(routers))
           /\ DOMAIN routers = 1 .. Len(routers) /\ Len(routers) \in Nat
           /\ DOMAIN routes = 1 .. Len(routes) /\ Len(routes) \in Nat /\ routes \in Seq(RouteType)
           /\ Registering \in Seq(Nat)
           /\ \A i \in 1 .. Len(Registering) :
                  Registering[i] \in 1 .. Len(log) /\ log[Registering[i]].on \in 1 .. Len(routers)
<1>1. /\ log \in Seq(CallType) /\ Len(log) \in Nat /\ Names(log) /\ Wires(log, Len(routers))
      /\ DOMAIN routers = 1 .. Len(routers) /\ Len(routers) \in Nat
      /\ DOMAIN routes = 1 .. Len(routes) /\ Len(routes) \in Nat /\ routes \in Seq(RouteType)
  BY LenProperties DEF IInv, Declared, SlicesApart, Lineage, Wires
<1>2. Registering \in Seq(1 .. Len(log))
  BY <1>1, CallsType DEF Registering
<1>3. 1 .. Len(log) \subseteq Nat
  BY <1>1
<1>4. Registering \in Seq(Nat)
  BY <1>2, <1>3, SeqMonotonic
<1>5. \A i \in 1 .. Len(Registering) : Registering[i] \in 1 .. Len(log)
  BY <1>2, ElementOfSeq
<1> QED BY <1>1, <1>4, <1>5 DEF Wires

\* What is registered stays what it is, whatever call comes next.
LEMMA RoutesStay ==
    ASSUME IInv, Lineage, phase # "panicked", NEW call, Adds(log, call, log'),
           NEW s, RoutesKeep(s), NEW t, \A r \in 1 .. Len(routers) : s[r] = t[r]
    PROVE  \A i \in 1 .. Len(routes) : RouteIs(log', t, routes[i], Registering[i])
<1> SUFFICES ASSUME NEW i \in 1 .. Len(routes) PROVE RouteIs(log', t, routes[i], Registering[i])
  OBVIOUS
<1>1. Registering[i] \in 1 .. Len(log) /\ log[Registering[i]].on \in 1 .. Len(routers)
  BY LineageFacts DEF Lineage
<1>2. RouteIs(log, s, routes[i], Registering[i])
  BY DEF RoutesKeep
<1>3. PICK n \in 1 .. Len(log) : n = Registering[i]
  BY <1>1
<1>4. log \in Seq(CallType) /\ s[log[n].on] = t[log[n].on] /\ RouteIs(log, s, routes[i], n)
  BY <1>1, <1>2, <1>3, LineageFacts
<1>5. PICK k : k = log' /\ Adds(log, call, k)
  OBVIOUS
<1>6. RouteIs(k, t, routes[i], n)
  BY <1>4, <1>5, RouteStays
<1> QED BY <1>3, <1>5, <1>6

LEMMA RegisteringGrows ==
    ASSUME NEW call, Adds(log, call, log')
    PROVE  /\ call.op \in {"handle", "handleFunc"} => Registering' = Append(Registering, Len(log) + 1)
           /\ call.op \notin {"handle", "handleFunc"} => Registering' = Registering
<1>1. PICK k : k = log' /\ Adds(log, call, k)
  OBVIOUS
<1> DEFINE ops == {"handle", "handleFunc"}
<1>2. /\ call.op \in ops => CallsIn(k, ops) = Append(CallsIn(log, ops), Len(log) + 1)
      /\ call.op \notin ops => CallsIn(k, ops) = CallsIn(log, ops)
  <2> HIDE DEF ops
  <2> QED BY <1>1, CallsGrow
<1> QED BY <1>1, <1>2, Zenon DEF Registering

LEMMA UseLineage ==
    ASSUME IInv, Lineage, NEW r \in DOMAIN routers, NEW kind \in program.kinds, Use(r, kind)
    PROVE  Lineage'
<1> DEFINE one == <<Middleware(kind)>>
           n == Len(routers)
<1>1. PICK mw \in MiddlewareType : one = <<mw>>
  <2>1. one \in Seq(MiddlewareType) /\ Len(one) = 1 /\ one[1] = Middleware(kind)
    BY MiddlewareIs
  <2>2. Middleware(kind) \in MiddlewareType
    BY <2>1, ElementOfSeq
  <2> QED BY <2>2
<1>2. PICK call \in CallType : /\ call.op = "use" /\ call.on = r /\ call.mw = one /\ Adds(log, call, log')
                               /\ phase = "wiring"
  <2> DEFINE c == [op |-> "use", on |-> r, mw |-> one]
  <2>1. c \in CallType
    <3>1. one \in Seq(MiddlewareType) /\ r \in Nat
      <4>1. one \in Seq(MiddlewareType)
        BY MiddlewareIs
      <4> HIDE DEF one
      <4> QED BY <4>1, LineageFacts
    <3> HIDE DEF one
    <3> QED BY <3>1 DEF CallType
  <2>2. Calling(c)
    BY DEF Use
  <2>3. c.op = "use" /\ c.on = r /\ c.mw = one
    OBVIOUS
  <2> HIDE DEF c
  <2> QED BY <2>1, <2>2, <2>3, LineageFacts DEF Calling, Adds
<1> HIDE DEF one
<1>3. phase' = phase /\ routes' = routes
  BY DEF Use
<1>4. /\ DOMAIN routers' = DOMAIN routers
      /\ Elements(heap', routers'[r].mw) = Elements(heap, routers[r].mw) \o one
      /\ \A q \in DOMAIN routers :
             /\ routers'[q].prefix = routers[q].prefix
             /\ q # r => Elements(heap', routers'[q].mw) = Elements(heap, routers[q].mw)
  BY UseElements DEF one
<1>5. Len(routers') = n /\ r \in 1 .. n /\ DOMAIN routers = 1 .. n /\ n \in Nat
  <2>1. IInv'
    BY StepUse
  <2>2. routers' \in Seq(RouterType)
    BY <2>1 DEF IInv, SlicesApart
  <2>3. DOMAIN routers' = 1 .. Len(routers') /\ Len(routers') \in Nat
    BY <2>2, LenProperties
  <2> QED BY <1>4, <2>3, LineageFacts
<1>6. PICK k : k = log' /\ Adds(log, call, k)
  BY <1>2
<1>7. call.mw # <<>> /\ call.mw[1] = mw /\ call.op # "group" /\ log \in Seq(CallType) /\ Names(log) /\ Wires(log, n)
  <2>1. <<mw>> # <<>> /\ <<mw>>[1] = mw
    OBVIOUS
  <2> QED BY <1>1, <1>2, <2>1, LineageFacts
<1>8. Wires(k, n) /\ \A s : Starts(k, n, s) <=> Starts(log, n, s)
  BY <1>2, <1>5, <1>6, <1>7, WiresOn
<1>9. Registering' = Registering
  BY <1>2, RegisteringGrows
<1>10. ASSUME NEW s, Starts(log, n, s) PROVE RoutersKeep(s)' /\ RoutesKeep(s)'
  <2>1. RoutersKeep(s) /\ RoutesKeep(s)
    BY <1>10 DEF Lineage
  <2>2. RoutesKeep(s)'
    <3>1. \A i \in 1 .. Len(routes) : RouteIs(log', s, routes[i], Registering[i])
      BY <1>2, <2>1, RoutesStay
    <3> QED BY <1>3, <1>9, <3>1 DEF RoutesKeep
  <2>3. ASSUME NEW q \in 1 .. n PROVE /\ s[q].chain \in Seq(MiddlewareType)
                                      /\ Elements(heap', routers'[q].mw) = s[q].chain \o NamedIn(k, q, Len(k) + 1)
                                      /\ routers'[q].prefix = s[q].prefix
    <3> DEFINE named == NamedIn(log, q, Len(log) + 1)
               chain == s[q].chain
    <3>1. chain \in Seq(MiddlewareType) /\ Elements(heap, routers[q].mw) = chain \o named
          /\ routers[q].prefix = s[q].prefix
      BY <2>1 DEF RoutersKeep
    <3>2. named \in Seq(MiddlewareType)
      <4>1. Len(log) + 1 \in 1 .. Len(log) + 1
        BY LineageFacts
      <4> QED BY <1>7, <4>1, NamedType
    <3>3. /\ call.op = "use" /\ call.on = q => NamedIn(k, q, Len(k) + 1) = Append(named, call.mw[1])
          /\ ~(call.op = "use" /\ call.on = q) => NamedIn(k, q, Len(k) + 1) = named
      BY <1>6, <1>7, NamedGrows
    <3> HIDE DEF named, chain
    <3>4. CASE q = r
      <4>1. (chain \o named) \o <<mw>> = chain \o (named \o <<mw>>) /\ named \o <<mw>> = Append(named, mw)
        <5>1. <<mw>> \in Seq(MiddlewareType)
          OBVIOUS
        <5> QED BY <3>1, <3>2, <5>1, ConcatAssociative, AppendIsConcat
      <4>2. NamedIn(k, q, Len(k) + 1) = Append(named, mw)
        BY <1>2, <1>7, <3>3, <3>4, Zenon
      <4>3. Elements(heap', routers'[q].mw) = chain \o NamedIn(k, q, Len(k) + 1)
        BY <1>1, <1>4, <3>1, <3>4, <4>1, <4>2, Zenon
      <4> QED BY <1>4, <1>5, <3>1, <4>3 DEF chain
    <3>5. CASE q # r
      <4>1. NamedIn(k, q, Len(k) + 1) = named
        BY <1>2, <3>3, <3>5, Zenon
      <4> QED BY <1>4, <1>5, <3>1, <3>5, <4>1 DEF chain
    <3> QED BY <3>4, <3>5
  <2> QED BY <1>5, <1>6, <2>2, <2>3 DEF RoutersKeep
<1>11. phase' # "panicked" => Len(routes') = Len(Registering')
  BY <1>3, <1>9 DEF Lineage
<1>12. \E s : Starts(log, n, s)
  BY DEF Lineage
<1>13. (\E s : Starts(k, n, s)) /\ \A s : Starts(k, n, s) => RoutersKeep(s)' /\ RoutesKeep(s)'
  BY <1>8, <1>10, <1>12
<1> QED BY <1>5, <1>6, <1>8, <1>11, <1>13 DEF Lineage

LEMMA GroupLineage ==
    ASSUME IInv, Lineage, NEW r \in DOMAIN routers, Group(r)
    PROVE  Lineage'
<1> DEFINE n == Len(routers)
           named == NamedIn(log, r, Len(log) + 1)
<1>1. PICK call \in CallType : /\ call.op = "group" /\ call.on = r /\ Adds(log, call, log')
                               /\ phase = "wiring"
  <2> DEFINE c == [op |-> "group", on |-> r, mw |-> <<>>]
  <2>1. c \in CallType
    <3>1. r \in Nat
      BY RouterFacts
    <3> QED BY <3>1 DEF CallType
  <2>2. Calling(c)
    BY DEF Group
  <2>3. c.op = "group" /\ c.on = r
    OBVIOUS
  <2> HIDE DEF c
  <2> QED BY <2>1, <2>2, <2>3, LineageFacts DEF Calling, Adds
<1>2. phase' = phase /\ routes' = routes
  BY DEF Group
<1>3. PICK g : /\ routers' = Append(routers, g) /\ g.prefix = Append(routers[r].prefix, Len(log) + 1)
               /\ Elements(heap', g.mw) = Elements(heap, routers[r].mw)
               /\ \A q \in DOMAIN routers : Elements(heap', routers[q].mw) = Elements(heap, routers[q].mw)
  BY GroupElements
<1>4. r \in 1 .. n /\ DOMAIN routers = 1 .. n /\ n \in Nat /\ log \in Seq(CallType) /\ Len(log) \in Nat
      /\ Names(log) /\ Wires(log, n)
  BY LineageFacts
<1>5. Len(routers') = n + 1 /\ routers'[n + 1] = g /\ \A q \in 1 .. n : routers'[q] = routers[q]
  <2> DEFINE S == RouterType \cup {g}
  <2>1. routers \in Seq(S) /\ g \in S
    BY SeqMonotonic DEF IInv, SlicesApart
  <2> HIDE DEF S
  <2> QED BY <1>3, <1>4, <2>1, AppendProperties, LenProperties
<1>6. PICK k : k = log' /\ Adds(log, call, k)
  BY <1>1
<1>7. k \in Seq(CallType) /\ Len(k) = Len(log) + 1 /\ (\A i \in 1 .. Len(log) : k[i] = log[i]) /\ k[Len(log) + 1] = call
  BY <1>4, <1>6, LogAppend
<1>8. /\ Wires(k, n + 1)
      /\ (\E s : Starts(log, n, s)) => \E t : Starts(k, n + 1, t)
      /\ \A t : Starts(k, n + 1, t) => Inherits(log, n, r, t)
  <2>1. call.op = "group" /\ call.on \in 1 .. n /\ call.on = r
    BY <1>1, <1>4
  <2>2. /\ Wires(k, n + 1)
        /\ (\E s : Starts(log, n, s)) => \E t : Starts(k, n + 1, t)
        /\ \A t : Starts(k, n + 1, t) => Inherits(log, n, call.on, t)
    BY <1>4, <1>6, <2>1, WiresGroup
  <2> QED BY <2>1, <2>2
<1>9. Registering' = Registering
  BY <1>1, RegisteringGrows
<1>10. named \in Seq(MiddlewareType)
  <2>1. Len(log) + 1 \in 1 .. Len(log) + 1
    BY <1>4
  <2> QED BY <1>4, <2>1, NamedType
<1>11. Names(k) /\ \A q : NamedIn(k, q, Len(k) + 1) = NamedIn(log, q, Len(log) + 1)
  BY <1>1, <1>4, <1>6, NamedGrows
<1>12. NamedIn(k, n + 1, Len(k) + 1) = <<>>
  <2>1. \A i \in 1 .. Len(k) : k[i].on \in 1 .. n
    <3>1. \A i \in 1 .. Len(k) : i \in 1 .. Len(log) \/ i = Len(log) + 1
      BY <1>4, <1>7
    <3> QED BY <1>1, <1>4, <1>7, <3>1 DEF Wires
  <2>2. \A i \in 1 .. Len(k) : k[i].on # n + 1
    BY <1>4, <2>1
  <2> QED BY <1>7, <1>11, <2>2, NamedNone
<1> HIDE DEF named
<1>13. ASSUME NEW t, Starts(k, n + 1, t) PROVE RoutersKeep(t)' /\ RoutesKeep(t)'
  <2>1. PICK s : Starts(log, n, s) /\ \A q \in 1 .. n : t[q] = s[q]
    BY <1>8, <1>13 DEF Inherits
  <2>2. RoutersKeep(s) /\ RoutesKeep(s)
    BY <2>1 DEF Lineage
  <2>3. RoutesKeep(t)'
    <3>1. \A i \in 1 .. Len(routes) : RouteIs(log', t, routes[i], Registering[i])
      BY <1>1, <2>1, <2>2, RoutesStay
    <3> QED BY <1>2, <1>9, <3>1 DEF RoutesKeep
  <2>4. \A q \in 1 .. n :
            /\ t[q].chain \in Seq(MiddlewareType)
            /\ Elements(heap, routers[q].mw) = t[q].chain \o NamedIn(log, q, Len(log) + 1)
            /\ routers[q].prefix = t[q].prefix
    BY <2>1, <2>2 DEF RoutersKeep
  <2>5. ASSUME NEW q \in 1 .. n PROVE /\ t[q].chain \in Seq(MiddlewareType)
                                      /\ Elements(heap', routers'[q].mw) = t[q].chain \o NamedIn(k, q, Len(k) + 1)
                                      /\ routers'[q].prefix = t[q].prefix
    BY <1>3, <1>4, <1>5, <1>11, <2>4
  <2>6. /\ t[n + 1].chain \in Seq(MiddlewareType)
        /\ Elements(heap', routers'[n + 1].mw) = t[n + 1].chain \o NamedIn(k, n + 1, Len(k) + 1)
        /\ routers'[n + 1].prefix = t[n + 1].prefix
    <3>1. t[n + 1].chain = t[r].chain \o named /\ t[n + 1].prefix = Append(t[r].prefix, Len(log) + 1)
      BY <1>8, <1>13 DEF Inherits, named
    <3>2. t[r].chain \in Seq(MiddlewareType) /\ Elements(heap, routers[r].mw) = t[r].chain \o named
          /\ routers[r].prefix = t[r].prefix
      BY <1>4, <2>4 DEF named
    <3>3. t[n + 1].chain \in Seq(MiddlewareType)
      BY <1>10, <3>1, <3>2, ConcatProperties
    <3>4. t[n + 1].chain \o <<>> = t[n + 1].chain
      BY <3>3, ConcatEmptySeq
    <3>5. Elements(heap', routers'[n + 1].mw) = t[n + 1].chain
      BY <1>3, <1>5, <3>1, <3>2
    <3> QED BY <1>3, <1>5, <1>12, <3>1, <3>2, <3>3, <3>4, <3>5
  <2>7. \A q \in 1 .. n + 1 : q \in 1 .. n \/ q = n + 1
    BY <1>4
  <2>8. \A q \in 1 .. n + 1 : /\ t[q].chain \in Seq(MiddlewareType)
                              /\ Elements(heap', routers'[q].mw) = t[q].chain \o NamedIn(k, q, Len(k) + 1)
                              /\ routers'[q].prefix = t[q].prefix
    BY <2>5, <2>6, <2>7
  <2> QED BY <1>5, <1>6, <2>3, <2>8 DEF RoutersKeep
<1>14. phase' # "panicked" => Len(routes') = Len(Registering')
  BY <1>2, <1>9 DEF Lineage
<1>15. \E t : Starts(k, n + 1, t)
  BY <1>8 DEF Lineage
<1> QED BY <1>5, <1>6, <1>8, <1>13, <1>14, <1>15 DEF Lineage

\* A registration adds a route of the router as it stands, unless it panics.
LEMMA HandleLineage ==
    ASSUME IInv, Lineage, NEW r \in DOMAIN routers, NEW t, NEW own, Handle(r, t, own) \/ HandleFunc(r, t, own)
    PROVE  Lineage'
<1> DEFINE n == Len(routers)
           own1 == PerRoute(own)
<1>1. PICK call \in CallType : /\ call.op \in {"handle", "handleFunc"} /\ call.on = r /\ call.mw = own1
                               /\ Adds(log, call, log') /\ phase = "wiring"
  <2>1. PICK op \in {"handle", "handleFunc"} : Calling([op |-> op, on |-> r, mw |-> own1])
    BY DEF Handle, HandleFunc
  <2> DEFINE c == [op |-> op, on |-> r, mw |-> own1]
  <2>2. c \in CallType
    BY RegisteringCall
  <2>3. c.op = op /\ c.on = r /\ c.mw = own1 /\ Calling(c)
    BY <2>1
  <2> HIDE DEF c
  <2>4. Adds(log, c, log') /\ phase = "wiring"
    BY <2>2, <2>3, LineageFacts DEF Calling, Adds
  <2>5. c.op \in {"handle", "handleFunc"}
    BY <2>3
  <2> QED BY <2>2, <2>3, <2>4, <2>5
<1> HIDE DEF own1
<1>2. heap' = heap /\ routers' = routers
  BY DEF Handle, HandleFunc
<1>3. \/ phase' = "panicked"
      \/ /\ phase' = phase
         /\ \E typed : routes' = Append(routes, [chain |-> Elements(heap, routers[r].mw) \o own1,
                                                 prefix |-> routers[r].prefix, type |-> t, typed |-> typed])
  BY DEF Handle, HandleFunc, Register, own1
<1>4. r \in 1 .. n /\ DOMAIN routers = 1 .. n /\ n \in Nat /\ log \in Seq(CallType) /\ Len(log) \in Nat
      /\ Names(log) /\ Wires(log, n) /\ routes \in Seq(RouteType) /\ Len(routes) \in Nat
      /\ Registering \in Seq(Nat)
  BY LineageFacts
<1>5. PICK k : k = log' /\ Adds(log, call, k)
  BY <1>1
<1>6. Wires(k, n) /\ \A s : Starts(k, n, s) <=> Starts(log, n, s)
  BY <1>1, <1>4, <1>5, WiresOn
<1>7. Registering' = Append(Registering, Len(log) + 1)
  BY <1>1, RegisteringGrows
<1>8. \A q : NamedIn(k, q, Len(k) + 1) = NamedIn(log, q, Len(log) + 1)
  BY <1>1, <1>4, <1>5, NamedGrows
<1>9. /\ Len(Registering') = Len(Registering) + 1 /\ Registering'[Len(Registering) + 1] = Len(log) + 1
      /\ \A i \in 1 .. Len(Registering) : Registering'[i] = Registering[i]
  <2>1. Len(log) + 1 \in Nat
    BY <1>4
  <2> QED BY <1>4, <1>7, <2>1, AppendProperties
<1>10. Len(routes) = Len(Registering)
  BY <1>1 DEF Lineage
<1>11. ASSUME phase' # "panicked"
       PROVE  \E route : /\ Len(routes') = Len(routes) + 1 /\ routes'[Len(routes) + 1] = route
                         /\ \A i \in 1 .. Len(routes) : routes'[i] = routes[i]
                         /\ route.chain = Elements(heap, routers[r].mw) \o own1 /\ route.prefix = routers[r].prefix
  <2>1. PICK typed : routes' = Append(routes, [chain |-> Elements(heap, routers[r].mw) \o own1,
                                               prefix |-> routers[r].prefix, type |-> t, typed |-> typed])
    BY <1>3, <1>11
  <2> DEFINE route == [chain |-> Elements(heap, routers[r].mw) \o own1,
                       prefix |-> routers[r].prefix, type |-> t, typed |-> typed]
             S == RouteType \cup {route}
  <2>2. routes' = Append(routes, route) /\ route.chain = Elements(heap, routers[r].mw) \o own1
        /\ route.prefix = routers[r].prefix
    BY <2>1
  <2>3. routes \in Seq(S) /\ route \in S
    BY <1>4, SeqMonotonic
  <2> HIDE DEF S, route
  <2> QED BY <2>2, <2>3, AppendProperties
<1>12. ASSUME NEW s, Starts(log, n, s) PROVE RoutersKeep(s)' /\ RoutesKeep(s)'
  <2>1. RoutersKeep(s) /\ RoutesKeep(s)
    BY <1>12 DEF Lineage
  <2>2. RoutersKeep(s)'
    BY <1>2, <1>5, <1>8, <2>1 DEF RoutersKeep
  <2>3. ASSUME phase' # "panicked" PROVE \A i \in 1 .. Len(routes') : RouteIs(log', s, routes'[i], Registering'[i])
    <3>1. PICK route : /\ Len(routes') = Len(routes) + 1 /\ routes'[Len(routes) + 1] = route
                       /\ \A i \in 1 .. Len(routes) : routes'[i] = routes[i]
                       /\ route.chain = Elements(heap, routers[r].mw) \o own1 /\ route.prefix = routers[r].prefix
      BY <1>11, <2>3
    <3>2. \A i \in 1 .. Len(routes) : RouteIs(log', s, routes[i], Registering[i])
      BY <1>1, <2>1, RoutesStay
    <3>3. RouteIs(k, s, route, Len(log) + 1)
      <4>1. k[Len(log) + 1] = call
        BY <1>4, <1>5, LogAppend
      <4>2. PICK m \in 1 .. Len(log) + 1 : m = Len(log) + 1
        BY <1>4
      <4>3. NamedIn(k, r, m) = NamedIn(log, r, m)
        BY <1>4, <1>5, NamedStays
      <4>4. Elements(heap, routers[r].mw) = s[r].chain \o NamedIn(log, r, m) /\ routers[r].prefix = s[r].prefix
        BY <1>4, <2>1, <4>2 DEF RoutersKeep
      <4>5. k[m].on = r /\ k[m].mw = own1
        BY <1>1, <4>1, <4>2
      <4>6. RouteIs(k, s, route, m)
        BY <3>1, <4>3, <4>4, <4>5, Zenon DEF RouteIs
      <4> QED BY <4>2, <4>6
    <3>4. \A i \in 1 .. Len(routes') : i \in 1 .. Len(routes) \/ i = Len(routes) + 1
      BY <1>4, <3>1
    <3>5. \A i \in 1 .. Len(routes) : RouteIs(log', s, routes'[i], Registering'[i])
      BY <1>9, <1>10, <3>1, <3>2
    <3>6. RouteIs(log', s, routes'[Len(routes) + 1], Registering'[Len(routes) + 1])
      BY <1>5, <1>9, <1>10, <3>1, <3>3
    <3> QED BY <3>4, <3>5, <3>6
  <2> QED BY <2>2, <2>3 DEF RoutesKeep
<1>13. phase' # "panicked" => Len(routes') = Len(Registering')
  BY <1>9, <1>10, <1>11
<1>14. (\E s : Starts(k, n, s)) /\ \A s : Starts(k, n, s) => RoutersKeep(s)' /\ RoutesKeep(s)'
  BY <1>6, <1>12 DEF Lineage
<1> QED BY <1>2, <1>5, <1>6, <1>13, <1>14 DEF Lineage

\* A step of the serving changes no middleware and no route.
LEMMA LineageStays ==
    ASSUME Lineage, UNCHANGED <<routers, routes, log>>, phase' # "panicked" => phase # "panicked",
           \A r \in 1 .. Len(routers) : Elements(heap', routers[r].mw) = Elements(heap, routers[r].mw)
    PROVE  Lineage'
<1>1. Registering' = Registering
  BY DEF Registering
<1>2. \A s : RoutersKeep(s) => RoutersKeep(s)'
  BY DEF RoutersKeep
<1>3. \A s : RoutesKeep(s) => RoutesKeep(s)'
  BY <1>1 DEF RoutesKeep
<1> QED BY <1>1, <1>2, <1>3 DEF Lineage

LEMMA InitLineage == Init => Lineage
<1> SUFFICES ASSUME Init PROVE Lineage
  OBVIOUS
<1>1. log = <<>> /\ routes = <<>> /\ routers = <<[mw |-> NilSlice, prefix |-> <<>>]>>
  BY DEF Init
<1>2. PICK g \in Seq(CallType) : g = <<>>
  BY EmptySeq
<1>3. Len(g) = 0 /\ log = g /\ Len(routers) = 1 /\ Len(routes) = 0
  BY <1>1, <1>2, EmptySeq
<1>4. \A ops : CallsIn(g, ops) = <<>>
  <2> SUFFICES ASSUME NEW ops PROVE CallsIn(g, ops) = <<>>
    OBVIOUS
  <2>1. CallsIn(g, ops) \in Seq(1 .. Len(g))
    BY CallsType
  <2>2. Len(CallsIn(g, ops)) = 0
    <3>1. CallsIn(g, ops) # <<>> => Len(CallsIn(g, ops)) \in Nat \ {0} /\ CallsIn(g, ops)[1] \in 1 .. Len(g)
      BY <2>1, EmptySeq, ElementOfSeq
    <3> QED BY <1>3, <3>1, EmptySeq
  <2> QED BY <2>1, <2>2, EmptySeq
<1>5. Wires(g, 1)
  <2>1. Len(CallsIn(g, {"group"})) = 0
    BY <1>3, <1>4
  <2> QED BY <1>3, <2>1 DEF Wires, Names
<1>6. NamedIn(g, 1, Len(g) + 1) = <<>>
  <2>1. Names(g) /\ \A i \in 1 .. Len(g) : g[i].on # 1
    BY <1>3 DEF Names
  <2> QED BY <2>1, NamedNone
<1>7. \A s : Starts(g, 1, s) => s[1] = Root
  BY DEF Starts
<1>8. Starts(g, 1, [r \in 1 .. 1 |-> Root])
  <2> DEFINE s == [r \in 1 .. 1 |-> Root]
  <2>1. \A r \in 1 .. 1 : r = 1
    OBVIOUS
  <2>2. s = [r \in 1 .. 1 |-> IF r = 1 THEN Root ELSE Child(g, s, r)]
    BY <2>1, Zenon
  <2> QED BY <2>2, Zenon DEF Starts
<1>9. ASSUME NEW s, Starts(g, 1, s) PROVE RoutersKeep(s) /\ RoutesKeep(s)
  <2>1. s[1].chain = <<>> /\ s[1].prefix = <<>>
    BY <1>7, <1>9 DEF Root
  <2>2. routers[1].mw = NilSlice /\ routers[1].prefix = <<>>
    BY <1>1
  <2>3. Elements(heap, routers[1].mw) = <<>>
    BY <2>2 DEF Elements, NilSlice
  <2>4. <<>> \o <<>> = <<>> /\ <<>> \in Seq(MiddlewareType)
    BY EmptySeq, ConcatEmptySeq
  <2>5. \A r \in 1 .. Len(routers) : r = 1
    BY <1>3
  <2>6. RoutersKeep(s)
    BY <1>3, <1>6, <2>1, <2>2, <2>3, <2>4, <2>5 DEF RoutersKeep
  <2> QED BY <1>3, <2>6 DEF RoutesKeep
<1>10. Len(routes) = Len(Registering)
  BY <1>3, <1>4 DEF Registering
<1> QED BY <1>3, <1>5, <1>8, <1>9, <1>10 DEF Lineage

LEMMA StepLineage == IInv /\ Lineage /\ [Next]_vars => Lineage'
<1> SUFFICES ASSUME IInv, Lineage, [Next]_vars PROVE Lineage'
  OBVIOUS
<1>1. ASSUME NEW r \in DOMAIN routers, NEW k \in program.kinds, Use(r, k) PROVE Lineage'
  BY <1>1, UseLineage
<1>2. ASSUME NEW r \in DOMAIN routers, Group(r) PROVE Lineage'
  BY <1>2, GroupLineage
<1>3. ASSUME NEW r \in DOMAIN routers, NEW t, NEW own, Handle(r, t, own) \/ HandleFunc(r, t, own) PROVE Lineage'
  BY <1>3, HandleLineage
<1>4. ASSUME UNCHANGED <<routers, routes, log>>, phase' # "panicked" => phase # "panicked" PROVE Lineage'
  <2>1. \A r \in DOMAIN routers : Elements(heap', routers[r].mw) = Elements(heap, routers[r].mw)
    BY <1>4, StepUndisturbed DEF Undisturbed, vars
  <2> QED BY <1>4, <2>1, LineageFacts, LineageStays
<1>5. ListenAndServe \/ UNCHANGED vars =>
          UNCHANGED <<routers, routes, log>> /\ (phase' # "panicked" => phase # "panicked")
  BY DEF ListenAndServe, vars
<1>6. ASSUME NEW p \in Procs, NEW i, NEW in, NEW kind, NEW err,
             Arrive(p, i, in) \/ Load(p) \/ LoadOrStore(p) \/ BindRequest(p)
                 \/ HandlerReturns(p, kind, err) \/ HandlerDecorates(p) \/ WriteResponse(p)
      PROVE  UNCHANGED <<routers, routes, log, phase>>
  BY <1>6 DEF Arrive, Load, LoadOrStore, BindRequest, HandlerReturns, HandlerDecorates, WriteResponse, Moves
<1> QED BY <1>1, <1>2, <1>3, <1>4, <1>5, <1>6 DEF Next

\* Every router has the middleware it started with and those named on it
\* since, every route those of its router as of its registration and its own.
THEOREM LineageAlways == Spec => [](IInv /\ Lineage)
<1>1. Init => IInv /\ Lineage
  BY InitInv, InitLineage
<1>2. IInv /\ Lineage /\ [Next]_vars => IInv' /\ Lineage'
  BY StepInv, StepLineage
<1> QED BY <1>1, <1>2, PTL DEF Spec

\* A route runs the middleware its router had when it was registered, and its
\* own, under its ancestors' prefixes, whatever is wired after it.
THEOREM RoutesKeepTheirChains == Spec => []RouteKeepsItsChain
<1>1. IInv /\ Lineage => RouteKeepsItsChain
  <2> SUFFICES ASSUME IInv, Lineage, phase # "panicked" PROVE RouteKeepsItsChain
    BY DEF RouteKeepsItsChain
  <2>1. \A ops : Calls(ops) = CallsIn(log, ops)
    BY DEF Calls, CallsIn
  <2>2. \A r, n : Named(r, n) = NamedIn(log, r, n)
    BY DEF Named, NamedIn, UsesIn
  <2>3. Starts(log, Len(routers), Inherited)
    <3> DEFINE Is(start) ==
                   start = [r \in DOMAIN routers |->
                               IF r = 1 THEN [chain |-> <<>>, prefix |-> <<>>]
                               ELSE LET made == Calls({"group"})[r - 1]
                                        parent == log[made].on
                                    IN  [chain |-> start[parent].chain \o Named(parent, made),
                                         prefix |-> Append(start[parent].prefix, made)]]
    <3>1. Inherited = CHOOSE start : Is(start)
      BY DEF Inherited
    <3>2. DOMAIN routers = 1 .. Len(routers)
      BY LineageFacts
    <3>3. \A s : Is(s) <=> Starts(log, Len(routers), s)
      BY <2>1, <2>2, <3>2, Zenon DEF Starts, Root, Child, Parent, Made
    <3>4. \E s : Starts(log, Len(routers), s)
      BY DEF Lineage
    <3> HIDE DEF Is
    <3> QED BY <3>1, <3>3, <3>4, Zenon
  <2>4. RoutesKeep(Inherited)
    BY <2>3 DEF Lineage
  <2>5. \A i \in 1 .. Len(routes) : RouteIs(log, Inherited, routes[i], Registering[i])
    BY <2>4 DEF RoutesKeep
  <2>6. DOMAIN routes = 1 .. Len(routes) /\ Registering = Calls({"handle", "handleFunc"})
    BY <2>1, LineageFacts DEF Registering
  <2> QED BY <2>2, <2>5, <2>6, Zenon DEF RouteKeepsItsChain, RouteIs
<1> QED BY <1>1, LineageAlways, PTL
=============================================================================
