--------------------------- MODULE VersionsProofs ---------------------------
(***************************************************************************)
(* Versions for any scheme, routes, requests and number of declarations:   *)
(* the sorted list answers as the set of declarations does.  A list is     *)
(* sorted and can be searched, and an insertion keeps it so: that the      *)
(* binary search has an answer is an invariant of the declarations, not an *)
(* induction over the list.                                                *)
(***************************************************************************)
EXTENDS Versions, TLAPS

Sorted(vs) == \A i, j \in DOMAIN vs : i < j => vs[i].version < vs[j].version

\* Place i parts the list at version v.
Split(vs, v, i) ==
    /\ i \in 1 .. Len(vs) + 1
    /\ \A j \in DOMAIN vs : j < i => vs[j].version < v
    /\ \A j \in DOMAIN vs : j >= i => vs[j].version >= v

Searchable(vs) == \A v \in Nat : \E i \in Nat : Split(vs, v, i)

\* A sorted list that every version parts.
Listing(vs) == vs \in Seq(Variant) /\ Sorted(vs) /\ Searchable(vs)

-----------------------------------------------------------------------------
(* The list. *)

LEMMA Element ==
    ASSUME NEW vs \in Seq(Variant), NEW j \in DOMAIN vs
    PROVE  vs[j] \in Variant /\ vs[j].version \in Nat /\ vs[j].handle \in {Nil, Handle}
<1>1. vs[j] \in Variant
  OBVIOUS
<1> QED BY <1>1 DEF Variant

\* The search finds where a version parts the list.
LEMMA AtSplits ==
    ASSUME NEW vs \in Seq(Variant), NEW v \in Nat, NEW i \in Nat, Split(vs, v, i)
    PROVE  At(vs, v) = i
<1> DEFINE P(k) == /\ k = Len(vs) + 1 \/ vs[k].version >= v
                   /\ \A j \in 1 .. k - 1 : vs[j].version < v
<1>1. i \in 1 .. Len(vs) + 1 /\ P(i)
  BY DEF Split
<1>2. ASSUME NEW k \in 1 .. Len(vs) + 1, P(k) PROVE k = i
  <2>1. CASE k < i
    <3>1. k \in DOMAIN vs
      BY <2>1, <1>1
    <3>2. vs[k] \in Variant
      BY <3>1
    <3>3. vs[k].version < v /\ vs[k].version >= v
      BY <1>1, <1>2, <2>1, <3>1
    <3> QED BY <3>2, <3>3 DEF Variant
  <2>2. CASE i < k
    <3>1. i \in DOMAIN vs
      BY <2>2, <1>1
    <3>2. vs[i] \in Variant
      BY <3>1
    <3>3. vs[i].version < v /\ vs[i].version >= v
      BY <1>1, <1>2, <2>2, <3>1
    <3> QED BY <3>2, <3>3 DEF Variant
  <2> QED BY <2>1, <2>2, <1>1
<1> HIDE DEF P
<1>3. At(vs, v) = CHOOSE k \in 1 .. Len(vs) + 1 : P(k)
  BY DEF At, P
<1> QED BY <1>1, <1>2, <1>3

LEMMA AtSplit ==
    ASSUME NEW vs, Listing(vs), NEW v \in Nat
    PROVE  Split(vs, v, At(vs, v))
BY AtSplits DEF Listing, Searchable

\* What is found is what has the version.
LEMMA FoundIff ==
    ASSUME NEW vs, Listing(vs), NEW v \in Nat
    PROVE  Found(vs, v) <=> \E j \in DOMAIN vs : vs[j].version = v
<1> DEFINE i == At(vs, v)
<1>1. Split(vs, v, i)
  BY AtSplit
<1>2. vs \in Seq(Variant) /\ Sorted(vs)
  BY DEF Listing
<1>3. \A j \in DOMAIN vs : vs[j].version \in Nat
  BY <1>2, Element
<1>4. ASSUME NEW j \in DOMAIN vs, vs[j].version = v PROVE i = j
  <2>1. ~(j < i)
    BY <1>1, <1>3, <1>4 DEF Split
  <2>2. CASE i < j
    <3>1. i \in DOMAIN vs
      BY <1>1, <1>2, <2>2 DEF Split
    <3>2. vs[i].version < v
      BY <1>2, <1>4, <2>2, <3>1 DEF Sorted
    <3>3. vs[i].version >= v
      BY <1>1, <3>1 DEF Split
    <3> QED BY <1>3, <3>1, <3>2, <3>3
  <2> QED BY <1>1, <1>2, <2>1, <2>2 DEF Split
<1>5. ASSUME NEW j \in DOMAIN vs, vs[j].version = v PROVE Found(vs, v)
  BY <1>2, <1>4, <1>5 DEF Found
<1>6. ASSUME Found(vs, v) PROVE \E j \in DOMAIN vs : vs[j].version = v
  BY <1>1, <1>2, <1>6 DEF Found, Split
<1> QED BY <1>5, <1>6

\* An insertion, place by place.
LEMMA InsertPlaces ==
    ASSUME NEW vs \in Seq(Variant), NEW v \in Nat, NEW h \in {Nil, Handle},
           At(vs, v) \in 1 .. Len(vs) + 1
    PROVE  LET is == Insert(vs, v, h)
               new == [version |-> v, handle |-> h]
           IN  /\ is \in Seq(Variant) /\ Len(is) = Len(vs) + 1
               /\ \A k \in 1 .. Len(vs) + 1 :
                     is[k] = IF k < At(vs, v) THEN vs[k] ELSE IF k = At(vs, v) THEN new ELSE vs[k - 1]
<1> DEFINE i == At(vs, v)
           new == [version |-> v, handle |-> h]
           front == SubSeq(vs, 1, i - 1)
           back == SubSeq(vs, i, Len(vs))
           is == front \o <<new>> \o back
<1>1. new \in Variant /\ i \in 1 .. Len(vs) + 1
  BY DEF Variant
<1>2. front \in Seq(Variant) /\ Len(front) = i - 1 /\ \A k \in 1 .. i - 1 : front[k] = vs[k]
  BY <1>1
<1>3. back \in Seq(Variant) /\ Len(back) = Len(vs) - i + 1
      /\ \A k \in 1 .. Len(vs) - i + 1 : back[k] = vs[i + k - 1]
  BY <1>1
<1>4. Insert(vs, v, h) = is
  BY DEF Insert, InsertAt
<1> HIDE DEF front, back, new, i
<1>5. is \in Seq(Variant) /\ Len(is) = Len(vs) + 1
  <2>1. front \o <<new>> \in Seq(Variant) /\ Len(front \o <<new>>) = i
    BY <1>1, <1>2
  <2>2. is \in Seq(Variant)
    BY <1>3, <2>1
  <2>3. Len(is) = i + (Len(vs) - i + 1)
    <3> DEFINE head == front \o <<new>>
    <3> HIDE DEF head
    <3>1. head \in Seq(Variant) /\ Len(head) = i
      BY <2>1 DEF head
    <3>2. is = head \o back
      BY DEF head
    <3>3. Len(head \o back) = Len(head) + Len(back)
      BY <1>3, <3>1
    <3> HIDE DEF is
    <3> QED BY <1>3, <3>1, <3>2, <3>3
  <2>4. i + (Len(vs) - i + 1) = Len(vs) + 1
    BY <1>1
  <2> QED BY <2>2, <2>3, <2>4
<1>6. ASSUME NEW k \in 1 .. Len(vs) + 1
      PROVE  is[k] = IF k < i THEN vs[k] ELSE IF k = i THEN new ELSE vs[k - 1]
  <2>1. CASE k < i
    BY <1>1, <1>2, <1>3, <2>1
  <2>2. CASE k = i
    BY <1>1, <1>2, <1>3, <2>2
  <2>3. CASE k > i
    <3>1. is[k] = back[k - i]
      BY <1>1, <1>2, <1>3, <2>3
    <3>2. k - i \in 1 .. Len(vs) - i + 1
      BY <1>1, <2>3
    <3>3. back[k - i] = vs[k - 1]
      BY <1>1, <1>3, <3>2
    <3>4. i \in Nat /\ k \in Nat /\ ~(k < i) /\ k # i
      BY <1>1, <2>3
    <3> HIDE DEF is
    <3> QED BY <3>1, <3>3, <3>4
  <2>4. k < i \/ k = i \/ k > i
    BY <1>1
  <2> HIDE DEF is
  <2> QED BY <2>1, <2>2, <2>3, <2>4
<1> HIDE DEF is
<1> QED BY <1>4, <1>5, <1>6 DEF i, new
\* An insertion keeps a list a listing, and adds what it inserts.
LEMMA InsertKeeps ==
    ASSUME NEW vs, Listing(vs), NEW v \in Nat, NEW h \in {Nil, Handle}, ~Found(vs, v)
    PROVE  LET is == Insert(vs, v, h)
           IN  Listing(is) /\ Range(is) = Range(vs) \cup {[version |-> v, handle |-> h]}
<1> DEFINE i == At(vs, v)
           is == Insert(vs, v, h)
           new == [version |-> v, handle |-> h]
<1>1. vs \in Seq(Variant) /\ Sorted(vs) /\ Split(vs, v, i)
  BY AtSplit DEF Listing
<1>2. i \in 1 .. Len(vs) + 1 /\ i \in Nat /\ Len(vs) \in Nat /\ DOMAIN vs = 1 .. Len(vs)
  BY <1>1 DEF Split
<1>3. /\ is \in Seq(Variant) /\ Len(is) = Len(vs) + 1 /\ DOMAIN is = 1 .. Len(vs) + 1
      /\ \A k \in DOMAIN is : is[k] = IF k < i THEN vs[k] ELSE IF k = i THEN new ELSE vs[k - 1]
  <2>1. /\ is \in Seq(Variant) /\ Len(is) = Len(vs) + 1
        /\ \A k \in 1 .. Len(vs) + 1 :
              is[k] = IF k < i THEN vs[k] ELSE IF k = i THEN new ELSE vs[k - 1]
    BY <1>1, <1>2, InsertPlaces
  <2> HIDE DEF new, is, i
  <2>2. DOMAIN is = 1 .. Len(vs) + 1
    BY <2>1
  <2> QED BY <2>1, <2>2
<1>4. \A j \in DOMAIN vs : vs[j].version \in Nat /\ vs[j].version # v
  BY <1>1, Element, FoundIff
<1>5. new.version = v
  OBVIOUS
<1>6. /\ \A k \in DOMAIN is : k < i => k \in DOMAIN vs /\ is[k] = vs[k] /\ vs[k].version < v
      /\ is[i].version = v /\ is[i] = new /\ i \in DOMAIN is
      /\ \A k \in DOMAIN is : i < k => k - 1 \in DOMAIN vs /\ is[k] = vs[k - 1] /\ v < vs[k - 1].version
  <2> HIDE DEF new, is, i
  <2>1. ASSUME NEW k \in DOMAIN is, k < i
        PROVE  k \in DOMAIN vs /\ is[k] = vs[k] /\ vs[k].version < v
    BY <1>1, <1>2, <1>3, <2>1 DEF Split
  <2>2. ASSUME NEW k \in DOMAIN is, i < k
        PROVE  k - 1 \in DOMAIN vs /\ is[k] = vs[k - 1] /\ v < vs[k - 1].version
    <3>1. k - 1 \in DOMAIN vs /\ k - 1 >= i
      BY <1>2, <1>3, <2>2
    <3>2. is[k] = vs[k - 1]
      BY <1>2, <1>3, <2>2
    <3>3. vs[k - 1].version >= v
      BY <1>1, <3>1 DEF Split
    <3> QED BY <1>4, <3>1, <3>2, <3>3
  <2>3. i \in DOMAIN is /\ is[i] = new
    BY <1>2, <1>3
  <2> QED BY <1>5, <2>1, <2>2, <2>3
<1> HIDE DEF new, is, i
<1>7. Sorted(is)
  <2> SUFFICES ASSUME NEW a \in DOMAIN is, NEW b \in DOMAIN is, a < b
               PROVE  is[a].version < is[b].version
    BY DEF Sorted
  <2>1. a \in Nat /\ b \in Nat
    BY <1>3
  <2>2. CASE b < i
    BY <1>1, <1>2, <1>6, <2>1, <2>2 DEF Sorted
  <2>3. CASE b = i
    BY <1>6, <2>3
  <2>4. CASE i < b /\ a < i
    <3>1. is[a].version < v /\ is[a].version \in Nat
      BY <1>4, <1>6, <2>4
    <3>2. v < is[b].version /\ is[b].version \in Nat
      BY <1>4, <1>6, <2>4
    <3> QED BY <3>1, <3>2
  <2>5. CASE i < b /\ a = i
    BY <1>6, <2>5
  <2>6. CASE i < b /\ i < a
    <3>1. a - 1 < b - 1
      BY <2>1
    <3> QED BY <1>1, <1>6, <2>6, <3>1 DEF Sorted
  <2> QED BY <1>2, <2>1, <2>2, <2>3, <2>4, <2>5, <2>6
<1>8. Searchable(is)
  <2> SUFFICES ASSUME NEW w \in Nat PROVE \E p \in Nat : Split(is, w, p)
    BY DEF Searchable
  <2>1. PICK q \in Nat : Split(vs, w, q)
    BY DEF Listing, Searchable
  <2>2. q \in 1 .. Len(vs) + 1
    BY <2>1 DEF Split
  <2>3. CASE w <= v
    <3>1. q <= i
      <4> SUFFICES ASSUME i < q PROVE FALSE
        BY <1>2
      <4>1. i \in DOMAIN vs /\ vs[i].version < w
        BY <1>2, <2>1, <2>2 DEF Split
      <4>2. vs[i].version >= v
        BY <1>1, <1>2, <4>1 DEF Split
      <4> QED BY <1>4, <2>3, <4>1, <4>2
    <3>2. ASSUME NEW k \in DOMAIN is, k < q PROVE is[k].version < w
      <4>1. k \in Nat /\ k < i /\ k \in DOMAIN vs
        BY <1>2, <1>6, <2>2, <3>1, <3>2
      <4>2. is[k] = vs[k]
        BY <1>6, <3>2, <4>1
      <4> QED BY <2>1, <3>2, <4>1, <4>2 DEF Split
    <3>3. ASSUME NEW k \in DOMAIN is, k >= q PROVE is[k].version >= w
      <4>1. CASE k < i
        BY <1>6, <2>1, <3>3, <4>1 DEF Split
      <4>2. CASE k = i
        BY <1>6, <2>3, <4>2
      <4>3. CASE i < k
        <5>1. is[k].version \in Nat /\ v < is[k].version
          BY <1>4, <1>6, <4>3
        <5> QED BY <2>3, <5>1
      <4> QED BY <1>2, <1>3, <4>1, <4>2, <4>3
    <3>4. Split(is, w, q)
      BY <1>3, <2>2, <3>2, <3>3 DEF Split
    <3> QED BY <3>4
  <2>4. CASE v < w
    <3>1. i <= q
      <4> SUFFICES ASSUME q < i PROVE FALSE
        BY <1>2
      <4>1. q \in DOMAIN vs /\ vs[q].version < v
        BY <1>1, <1>2, <2>2 DEF Split
      <4>2. vs[q].version >= w
        BY <2>1, <4>1 DEF Split
      <4> QED BY <1>4, <2>4, <4>1, <4>2
    <3>2. ASSUME NEW k \in DOMAIN is, k < q + 1 PROVE is[k].version < w
      <4>1. CASE k < i
        <5>1. is[k].version \in Nat /\ is[k].version < v
          BY <1>4, <1>6, <4>1
        <5> QED BY <2>4, <5>1
      <4>2. CASE k = i
        BY <1>6, <2>4, <4>2
      <4>3. CASE i < k
        <5>1. k - 1 < q
          BY <1>3, <3>2
        <5> QED BY <1>6, <2>1, <4>3, <5>1 DEF Split
      <4> QED BY <1>2, <1>3, <4>1, <4>2, <4>3
    <3>3. ASSUME NEW k \in DOMAIN is, k >= q + 1 PROVE is[k].version >= w
      <4>1. i < k /\ k - 1 >= q
        BY <1>2, <1>3, <3>1, <3>3
      <4> QED BY <1>6, <2>1, <4>1 DEF Split
    <3>4. Split(is, w, q + 1)
      BY <1>3, <2>2, <3>2, <3>3 DEF Split
    <3> QED BY <3>4
  <2> QED BY <2>3, <2>4
<1>9. Range(is) = Range(vs) \cup {new}
  <2>1. ASSUME NEW k \in DOMAIN is PROVE is[k] \in Range(vs) \cup {new}
    <3>1. k < i \/ k = i \/ i < k
      BY <1>2, <1>3
    <3> QED BY <1>6, <3>1 DEF Range
  <2>2. ASSUME NEW j \in DOMAIN vs PROVE \E k \in DOMAIN is : is[k] = vs[j]
    <3>1. CASE j < i
      <4>1. j \in DOMAIN is
        BY <1>2, <1>3
      <4> QED BY <1>6, <3>1, <4>1
    <3>2. CASE i <= j
      <4>1. j + 1 \in DOMAIN is /\ i < j + 1 /\ (j + 1) - 1 = j
        BY <1>2, <1>3, <3>2
      <4> QED BY <1>6, <4>1
    <3> QED BY <1>2, <3>1, <3>2
  <2> QED BY <1>6, <2>1, <2>2 DEF Range
<1> QED BY <1>3, <1>7, <1>8, <1>9 DEF Listing, is, new
-----------------------------------------------------------------------------
(* The invariant. *)

\* Every route's list is a listing, of what was declared on the route.
ListsAreDeclared ==
    \A r \in Routes :
        /\ Listing(endpoints[r].variants)
        /\ Range(endpoints[r].variants) = DeclaredOn(r)

\* Versions are what the scheme parses, and there is a newest one.
DeclaredAreVersions ==
    /\ \A d \in declared : d[2] = Zero \/ d[2] \in Versions
    /\ declared # {} => \E d \in declared : \A c \in declared : c[2] <= d[2]

\* An endpoint is ordered, and mounted once the program serves.
EndpointsMounted ==
    /\ \A r \in Routes : endpoints[r] # NoEndpoint => r \in Range(order)
    /\ \A r \in held : endpoints[r] # NoEndpoint
    /\ phase = "serving" => Range(order) \subseteq Range(mounted)

\* A fallback means something.
FallbackMeans == rv.fallback # Blank => rv.fallback \in rv.latest \cup rv.preview \cup DOMAIN Parse

IInv == TypeOK /\ ListsAreDeclared /\ DeclaredAreVersions /\ EndpointsMounted /\ FallbackMeans

\* A version is a positive number.
LEMMA ParsePositive ==
    ASSUME scheme \in Schemes, NEW raw \in DOMAIN Parse
    PROVE  raw \in Raws /\ Parse[raw] \in Nat /\ Parse[raw] # Zero /\ Parse[raw] \in Versions
<1>1. CASE scheme = "sequential"
  BY <1>1, SchemeAssumption DEF Parse, Parses, SeqScheme, Schemes, Versions, Zero
<1>2. CASE scheme = "dates"
  BY <1>2, SchemeAssumption DEF Parse, Parses, DateScheme, Schemes, Versions, Zero
<1>3. CASE scheme = "ordered"
  BY <1>3, SchemeAssumption DEF Parse, Parses, OrderedScheme, Schemes, Versions, Zero
<1> QED BY <1>1, <1>2, <1>3 DEF Schemes

LEMMA EmptyListing == Listing(<<>>) /\ Range(<<>>) = {}
<1>1. \A v \in Nat : Split(<<>>, v, 1)
  BY DEF Split
<1> QED BY <1>1 DEF Listing, Sorted, Searchable, Range

\* An Endpoint made anew has the variants of none.
LEMMA MadeFacts ==
    ASSUME TypeOK, NEW r \in Routes
    PROVE  Made(r) \in Endpoint /\ Made(r).variants = endpoints[r].variants
<1>1. CASE endpoints[r] = NoEndpoint
  <2>1. NewEndpoint \in Endpoint
    BY DEF NewEndpoint, Endpoint
  <2> QED BY <1>1, <2>1 DEF Made, NewEndpoint, NoEndpoint
<1>2. CASE endpoints[r] # NoEndpoint
  BY <1>2 DEF TypeOK, Made
<1> QED BY <1>1, <1>2

LEMMA NoEndpointIsNone == NoEndpoint \notin Endpoint
BY DEF NoEndpoint, Endpoint, Nil, Handle

LEMMA OrderedFacts ==
    ASSUME TypeOK, EndpointsMounted, NEW r \in Routes
    PROVE  /\ Ordered(r) \in Seq(Routes)
           /\ Range(Ordered(r)) = Range(order) \cup {r}
           /\ endpoints[r] # NoEndpoint => Ordered(r) = order
<1>1. order \in Seq(Routes)
  BY DEF TypeOK
<1>2. CASE endpoints[r] = NoEndpoint
  <2>1. Ordered(r) = Append(order, r)
    BY <1>2 DEF Ordered
  <2>2. Range(Append(order, r)) = Range(order) \cup {r}
    BY <1>1 DEF Range
  <2> QED BY <1>1, <1>2, <2>1, <2>2
<1>3. CASE endpoints[r] # NoEndpoint
  BY <1>1, <1>3 DEF Ordered, EndpointsMounted
<1> QED BY <1>2, <1>3

LEMMA InitInv == Init => IInv
<1> SUFFICES ASSUME Init PROVE IInv
  OBVIOUS
<1>1. \A r \in Routes : endpoints[r] = NoEndpoint /\ endpoints[r].variants = <<>> /\ DeclaredOn(r) = {}
  BY DEF Init, NoEndpoint, DeclaredOn
<1>2. TypeOK
  BY SchemeAssumption DEF Init, TypeOK
<1>3. ListsAreDeclared
  BY <1>1, EmptyListing DEF ListsAreDeclared
<1>4. DeclaredAreVersions /\ EndpointsMounted /\ FallbackMeans
  BY <1>1 DEF Init, DeclaredAreVersions, EndpointsMounted, FallbackMeans
<1> QED BY <1>2, <1>3, <1>4 DEF IInv

-----------------------------------------------------------------------------
(* Its steps, by what they change. *)

\* What leaves the endpoints and the declarations alone.
Rests == UNCHANGED <<scheme, endpoints, order, held, declared>>

LEMMA RestsKeeps ==
    ASSUME IInv, Rests
    PROVE  ListsAreDeclared' /\ DeclaredAreVersions'
<1>1. \A r \in Routes : DeclaredOn(r)' = DeclaredOn(r)
  BY DEF Rests, DeclaredOn
<1>2. Versions' = Versions
  BY DEF Rests, Versions, Parse
<1> QED BY <1>1, <1>2 DEF IInv, Rests, ListsAreDeclared, DeclaredAreVersions

LEMMA PanicStep ==
    ASSUME IInv, Panic, UNCHANGED scheme, calls' \in Nat
    PROVE  IInv'
<1>1. Rests /\ UNCHANGED <<match, rv, mounted>> /\ phase' = "panicked"
  BY DEF Panic, Rests
<1>2. TypeOK'
  BY <1>1 DEF IInv, TypeOK, Rests
<1>3. EndpointsMounted' /\ FallbackMeans'
  BY <1>1 DEF IInv, EndpointsMounted, FallbackMeans, Rests, Parse
<1> QED BY <1>1, <1>2, <1>3, RestsKeeps DEF IInv

LEMMA ConfiguredStep ==
    ASSUME IInv, NEW new, Configured(new), UNCHANGED scheme, calls' \in Nat,
           new \in [latest : SUBSET Raws, preview : SUBSET Raws, fallback : Raws,
                    status : BOOLEAN, warn : BOOLEAN],
           new.fallback # Blank => new.fallback \in new.latest \cup new.preview \cup DOMAIN Parse
    PROVE  IInv'
<1>1. Rests /\ UNCHANGED <<phase, match, mounted>> /\ rv' = new
  BY DEF Configured, Rests
<1>2. TypeOK'
  BY <1>1 DEF IInv, TypeOK, Rests
<1>3. EndpointsMounted' /\ FallbackMeans'
  BY <1>1 DEF IInv, EndpointsMounted, FallbackMeans, Rests, Parse
<1> QED BY <1>1, <1>2, <1>3, RestsKeeps DEF IInv

\* Only what is fetched is declared on once the program serves.
May(r) == phase = "wiring" \/ r \in held

\* The part every declaration changes alike.
LEMMA DeclaredKeeps ==
    ASSUME IInv, NEW r \in Routes, May(r), NEW e \in Endpoint, NEW v \in Nat, NEW h \in {Nil, Handle},
           UNCHANGED <<scheme, phase, match, rv, held, mounted>>, calls' \in Nat,
           endpoints' = [endpoints EXCEPT ![r] = e], order' = Ordered(r),
           declared' = declared \cup {<<r, v, h>>},
           v = Zero \/ v \in Versions
    PROVE  TypeOK' /\ DeclaredAreVersions' /\ EndpointsMounted' /\ FallbackMeans'
<1>1. TypeOK /\ EndpointsMounted /\ DeclaredAreVersions /\ FallbackMeans
  BY DEF IInv
<1>2. Ordered(r) \in Seq(Routes) /\ Range(Ordered(r)) = Range(order) \cup {r}
      /\ (endpoints[r] # NoEndpoint => Ordered(r) = order)
  BY <1>1, OrderedFacts
<1>3. TypeOK'
  <2>1. endpoints' \in [Routes -> Endpoint \cup {NoEndpoint}]
    BY <1>1 DEF TypeOK
  <2>2. declared' \subseteq Routes \X Nat \X {Nil, Handle}
    BY <1>1 DEF TypeOK
  <2> QED BY <1>1, <1>2, <2>1, <2>2 DEF TypeOK
<1>4. DeclaredAreVersions'
  <2>1. Versions' = Versions
    BY DEF Versions, Parse
  <2>2. \A d \in declared' : d[2] = Zero \/ d[2] \in Versions
    BY <1>1 DEF DeclaredAreVersions
  <2>3. \E d \in declared' : \A c \in declared' : c[2] <= d[2]
    <3>1. \A c \in declared' : c \in declared \/ c = <<r, v, h>>
      OBVIOUS
    <3>2. <<r, v, h>>[2] = v
      OBVIOUS
    <3>3. CASE declared = {}
      BY <3>1, <3>2, <3>3
    <3>4. CASE declared # {}
      <4>1. PICK d \in declared : \A c \in declared : c[2] <= d[2]
        BY <1>1, <3>4 DEF DeclaredAreVersions
      <4>2. \A c \in declared : c[2] \in Nat
        BY <1>1 DEF TypeOK
      <4>3. CASE v <= d[2]
        BY <3>1, <3>2, <4>1, <4>3
      <4>4. CASE ~(v <= d[2])
        <5>1. \A c \in declared : c[2] <= v
          BY <4>1, <4>2, <4>4
        <5>2. \A c \in declared' : c[2] <= <<r, v, h>>[2]
          BY <3>1, <3>2, <5>1
        <5> QED BY <5>2
      <4> QED BY <4>3, <4>4
    <3> QED BY <3>3, <3>4
  <2> QED BY <2>1, <2>2, <2>3 DEF DeclaredAreVersions
<1>5. EndpointsMounted'
  <2>1. \A q \in Routes : endpoints'[q] # NoEndpoint => q \in Range(order)'
    BY <1>1, <1>2 DEF TypeOK, EndpointsMounted
  <2>2. \A q \in held : endpoints'[q] # NoEndpoint
    BY <1>1, NoEndpointIsNone DEF TypeOK, EndpointsMounted
  <2>3. phase = "serving" => Range(order)' \subseteq Range(mounted)
    BY <1>1, <1>2 DEF May, EndpointsMounted
  <2> QED BY <2>1, <2>2, <2>3 DEF EndpointsMounted
<1>6. FallbackMeans'
  BY <1>1 DEF FallbackMeans, Parse
<1> QED BY <1>3, <1>4, <1>5, <1>6

LEMMA InsertStep ==
    ASSUME IInv, NEW r \in Routes, NEW raw, NEW h \in {Nil, Handle}, May(r),
           InsertVariant(r, raw, h), UNCHANGED scheme, calls' \in Nat
    PROVE  IInv'
<1>1. CASE raw \notin DOMAIN Parse \/ Found(Made(r).variants, Parse[raw])
  BY <1>1, PanicStep DEF InsertVariant
<1>2. CASE raw \in DOMAIN Parse /\ ~Found(Made(r).variants, Parse[raw])
  <2> DEFINE v == Parse[raw]
             vs == endpoints[r].variants
             e == [Made(r) EXCEPT !.variants = Insert(@, v, h)]
  <2>1. Made(r) \in Endpoint /\ Made(r).variants = vs
    BY MadeFacts DEF IInv
  <2>2. v \in Nat /\ v # Zero /\ v \in Versions
    BY <1>2, ParsePositive DEF IInv, TypeOK
  <2>3. Listing(vs) /\ Range(vs) = DeclaredOn(r)
    BY DEF IInv, ListsAreDeclared
  <2> HIDE DEF v, vs
  <2>4. Listing(Insert(vs, v, h)) /\ Range(Insert(vs, v, h)) = Range(vs) \cup {[version |-> v, handle |-> h]}
    BY <1>2, <2>1, <2>2, <2>3, InsertKeeps DEF v
  <2>5. e \in Endpoint /\ e.variants = Insert(vs, v, h)
    BY <2>1, <2>4 DEF Endpoint, Listing
  <2> HIDE DEF e
  <2>6. /\ UNCHANGED <<scheme, phase, match, rv, held, mounted>>
        /\ endpoints' = [endpoints EXCEPT ![r] = e] /\ order' = Ordered(r)
        /\ declared' = declared \cup {<<r, v, h>>}
    BY <1>2 DEF InsertVariant, e, v
  <2>7. TypeOK' /\ DeclaredAreVersions' /\ EndpointsMounted' /\ FallbackMeans'
    BY <2>2, <2>5, <2>6, DeclaredKeeps
  <2>8. ListsAreDeclared'
    <3> SUFFICES ASSUME NEW q \in Routes
                 PROVE  Listing(endpoints'[q].variants) /\ Range(endpoints'[q].variants) = DeclaredOn(q)'
      BY DEF ListsAreDeclared
    <3>1. CASE q = r
      <4>1. endpoints'[q] = e
        BY <2>6, <3>1 DEF IInv, TypeOK
      <4>2. DeclaredOn(q)' = DeclaredOn(q) \cup {[version |-> v, handle |-> h]}
        <5> DEFINE d == <<r, v, h>>
        <5>1. d[1] = q /\ d[2] = v /\ d[3] = h /\ v # Zero
          BY <2>2, <3>1
        <5> HIDE DEF d
        <5>2. declared' = declared \cup {d}
          BY <2>6 DEF d
        <5>3. ASSUME NEW x \in DeclaredOn(q)' PROVE x \in DeclaredOn(q) \cup {[version |-> v, handle |-> h]}
          BY <5>1, <5>2, <5>3 DEF DeclaredOn
        <5>4. ASSUME NEW x \in DeclaredOn(q) \cup {[version |-> v, handle |-> h]} PROVE x \in DeclaredOn(q)'
          BY <5>1, <5>2, <5>4 DEF DeclaredOn
        <5> QED BY <5>3, <5>4
      <4> QED BY <2>3, <2>4, <2>5, <3>1, <4>1, <4>2
    <3>2. CASE q # r
      <4>1. endpoints'[q] = endpoints[q]
        BY <2>6, <3>2 DEF IInv, TypeOK
      <4>2. DeclaredOn(q)' = DeclaredOn(q)
        BY <2>6, <3>2 DEF DeclaredOn
      <4> QED BY <4>1, <4>2 DEF IInv, ListsAreDeclared
    <3> QED BY <3>1, <3>2
  <2> QED BY <2>7, <2>8 DEF IInv
<1> QED BY <1>1, <1>2

LEMMA HandleStep ==
    ASSUME IInv, NEW r \in Routes, NEW raw, May(r), HandleOn(r, raw), UNCHANGED scheme, calls' \in Nat
    PROVE  IInv'
<1>1. CASE raw \notin rv.preview
  BY <1>1, InsertStep DEF HandleOn
<1>2. CASE raw \in rv.preview /\ Made(r).preview # Nil
  BY <1>2, PanicStep DEF HandleOn
<1>3. CASE raw \in rv.preview /\ Made(r).preview = Nil
  <2> DEFINE e == [Made(r) EXCEPT !.preview = Handle]
  <2>1. e \in Endpoint /\ e.variants = endpoints[r].variants
    BY MadeFacts DEF IInv, Endpoint
  <2> HIDE DEF e
  <2>2. /\ UNCHANGED <<scheme, phase, match, rv, held, mounted>>
        /\ endpoints' = [endpoints EXCEPT ![r] = e] /\ order' = Ordered(r)
        /\ declared' = declared \cup {<<r, Zero, Handle>>}
    BY <1>3 DEF HandleOn, e
  <2>3. TypeOK' /\ DeclaredAreVersions' /\ EndpointsMounted' /\ FallbackMeans'
    BY <2>1, <2>2, DeclaredKeeps DEF Zero
  <2>4. \A q \in Routes : DeclaredOn(q)' = DeclaredOn(q) /\ endpoints'[q].variants = endpoints[q].variants
    BY <2>1, <2>2 DEF DeclaredOn, IInv, TypeOK
  <2>5. ListsAreDeclared'
    BY <2>4 DEF IInv, ListsAreDeclared
  <2> QED BY <2>3, <2>5 DEF IInv
<1> QED BY <1>1, <1>2, <1>3

LEMMA WithdrawStep ==
    ASSUME IInv, NEW r \in Routes, NEW raw, May(r), WithdrawOn(r, raw), UNCHANGED scheme, calls' \in Nat
    PROVE  IInv'
BY PanicStep, InsertStep DEF WithdrawOn

LEMMA FetchStep ==
    ASSUME IInv, NEW r \in Routes, Fetch(r), calls' \in Nat
    PROVE  IInv'
<1>1. Made(r) \in Endpoint /\ Made(r).variants = endpoints[r].variants
  BY MadeFacts DEF IInv
<1>2. /\ UNCHANGED <<scheme, phase, match, rv, mounted, declared>> /\ phase = "wiring"
      /\ endpoints' = [endpoints EXCEPT ![r] = Made(r)] /\ order' = Ordered(r)
      /\ held' = held \cup {r}
  BY DEF Fetch, Wiring, Called
<1>3. Ordered(r) \in Seq(Routes) /\ Range(Ordered(r)) = Range(order) \cup {r}
  BY OrderedFacts DEF IInv
<1>4. TypeOK'
  <2>1. endpoints' \in [Routes -> Endpoint \cup {NoEndpoint}]
    BY <1>1, <1>2 DEF IInv, TypeOK
  <2> QED BY <1>2, <1>3, <2>1 DEF IInv, TypeOK
<1>5. \A q \in Routes : DeclaredOn(q)' = DeclaredOn(q) /\ endpoints'[q].variants = endpoints[q].variants
  BY <1>1, <1>2 DEF DeclaredOn, IInv, TypeOK
<1>6. ListsAreDeclared'
  BY <1>5 DEF IInv, ListsAreDeclared
<1>7. DeclaredAreVersions' /\ FallbackMeans'
  BY <1>2 DEF IInv, DeclaredAreVersions, FallbackMeans, Versions, Parse
<1>8. EndpointsMounted'
  <2>1. \A q \in Routes : endpoints'[q] # NoEndpoint => q \in Range(order)'
    BY <1>2, <1>3 DEF IInv, TypeOK, EndpointsMounted
  <2>2. \A q \in held' : endpoints'[q] # NoEndpoint
    BY <1>1, <1>2, NoEndpointIsNone DEF IInv, TypeOK, EndpointsMounted
  <2> QED BY <1>2, <2>1, <2>2 DEF EndpointsMounted
<1> QED BY <1>4, <1>6, <1>7, <1>8 DEF IInv

LEMMA BuildStep == ASSUME IInv, Build PROVE IInv'
<1>1. Rests /\ UNCHANGED <<match, rv, calls>> /\ phase' = "serving" /\ mounted' = mounted \o order
  BY DEF Build, Rests
<1>2. order \in Seq(Routes) /\ mounted \in Seq(Routes)
  BY DEF IInv, TypeOK
<1>3. mounted' \in Seq(Routes)
  BY <1>1, <1>2
<1>4. Range(order) \subseteq Range(mounted')
  <2> SUFFICES ASSUME NEW i \in DOMAIN order PROVE \E j \in DOMAIN mounted' : mounted'[j] = order[i]
    BY DEF Range
  <2>1. Len(mounted) + i \in DOMAIN mounted' /\ mounted'[Len(mounted) + i] = order[i]
    BY <1>1, <1>2
  <2> QED BY <2>1
<1>5. TypeOK'
  BY <1>1, <1>3 DEF IInv, TypeOK, Rests
<1>6. EndpointsMounted' /\ FallbackMeans'
  BY <1>1, <1>4 DEF IInv, EndpointsMounted, FallbackMeans, Rests, Parse
<1> QED BY <1>1, <1>5, <1>6, RestsKeeps DEF IInv

LEMMA OptionsSteps ==
    ASSUME IInv, NEW l \in Options, AllowLatest(l) \/ AllowPreview(l) \/ Fallback(l)
    PROVE  IInv'
<1>1. /\ UNCHANGED scheme /\ calls' \in Nat /\ l \in Raws
      /\ rv \in [latest : SUBSET Raws, preview : SUBSET Raws, fallback : Raws, status : BOOLEAN, warn : BOOLEAN]
      /\ rv.fallback # Blank => rv.fallback \in rv.latest \cup rv.preview \cup DOMAIN Parse
  BY SchemeAssumption DEF AllowLatest, AllowPreview, Fallback, Wiring, Called, IInv, TypeOK, FallbackMeans
<1>2. CASE AllowLatest(l)
  <2>1. CASE LiteralRefused(l)
    BY <1>1, <1>2, <2>1, PanicStep DEF AllowLatest
  <2>2. CASE ~LiteralRefused(l)
    <3> DEFINE new == [rv EXCEPT !.latest = @ \cup {l}]
    <3>1. Configured(new)
      BY <1>2, <2>2 DEF AllowLatest
    <3>2. /\ new \in [latest : SUBSET Raws, preview : SUBSET Raws, fallback : Raws, status : BOOLEAN, warn : BOOLEAN]
          /\ new.fallback # Blank => new.fallback \in new.latest \cup new.preview \cup DOMAIN Parse
      BY <1>1
    <3> HIDE DEF new
    <3> QED BY <1>1, <3>1, <3>2, ConfiguredStep
  <2> QED BY <2>1, <2>2
<1>3. CASE AllowPreview(l)
  <2>1. CASE LiteralRefused(l)
    BY <1>1, <1>3, <2>1, PanicStep DEF AllowPreview
  <2>2. CASE ~LiteralRefused(l)
    <3> DEFINE new == [rv EXCEPT !.preview = @ \cup {l}]
    <3>1. Configured(new)
      BY <1>3, <2>2 DEF AllowPreview
    <3>2. /\ new \in [latest : SUBSET Raws, preview : SUBSET Raws, fallback : Raws, status : BOOLEAN, warn : BOOLEAN]
          /\ new.fallback # Blank => new.fallback \in new.latest \cup new.preview \cup DOMAIN Parse
      BY <1>1
    <3> HIDE DEF new
    <3> QED BY <1>1, <3>1, <3>2, ConfiguredStep
  <2> QED BY <2>1, <2>2
<1>4. CASE Fallback(l)
  <2> DEFINE new == [rv EXCEPT !.fallback = l]
  <2>1. Panic \/ (Configured(new) /\ l \in rv.latest \cup rv.preview \cup DOMAIN Parse)
    BY <1>4 DEF Fallback
  <2>2. /\ new \in [latest : SUBSET Raws, preview : SUBSET Raws, fallback : Raws, status : BOOLEAN, warn : BOOLEAN]
        /\ new.fallback = l /\ new.latest = rv.latest /\ new.preview = rv.preview
    BY <1>1
  <2> HIDE DEF new
  <2>3. CASE Panic
    BY <1>1, <2>3, PanicStep
  <2>4. CASE Configured(new) /\ l \in rv.latest \cup rv.preview \cup DOMAIN Parse
    BY <1>1, <2>2, <2>4, ConfiguredStep
  <2> QED BY <2>1, <2>3, <2>4
<1> QED BY <1>2, <1>3, <1>4

LEMMA HeadersSteps ==
    ASSUME IInv, StatusHeader \/ WarnUnpinned
    PROVE  IInv'
<1>1. /\ UNCHANGED scheme /\ calls' \in Nat
      /\ rv \in [latest : SUBSET Raws, preview : SUBSET Raws, fallback : Raws, status : BOOLEAN, warn : BOOLEAN]
      /\ rv.fallback # Blank => rv.fallback \in rv.latest \cup rv.preview \cup DOMAIN Parse
  BY DEF StatusHeader, WarnUnpinned, Wiring, Called, IInv, TypeOK, FallbackMeans
<1>2. ASSUME NEW new \in {[rv EXCEPT !.status = TRUE], [rv EXCEPT !.warn = TRUE]}, Configured(new)
      PROVE  IInv'
  <2>1. /\ new \in [latest : SUBSET Raws, preview : SUBSET Raws, fallback : Raws, status : BOOLEAN, warn : BOOLEAN]
        /\ new.fallback # Blank => new.fallback \in new.latest \cup new.preview \cup DOMAIN Parse
    BY <1>1
  <2> QED BY <1>1, <1>2, <2>1, ConfiguredStep
<1>3. Panic \/ Configured([rv EXCEPT !.status = TRUE]) \/ Configured([rv EXCEPT !.warn = TRUE])
  BY DEF StatusHeader, WarnUnpinned
<1> QED BY <1>1, <1>2, <1>3, PanicStep

LEMMA StepInv == ASSUME IInv, [Next]_vars PROVE IInv'
<1>1. CASE UNCHANGED vars
  <2>1. Rests /\ UNCHANGED <<phase, match, rv, mounted, calls>>
    BY <1>1 DEF vars, Rests
  <2>2. TypeOK' /\ EndpointsMounted' /\ FallbackMeans'
    BY <2>1 DEF IInv, TypeOK, EndpointsMounted, FallbackMeans, Rests, Parse
  <2> QED BY <2>1, <2>2, RestsKeeps DEF IInv
<1>2. ASSUME NEW l \in Options, AllowLatest(l) \/ AllowPreview(l) \/ Fallback(l) PROVE IInv'
  BY <1>2, OptionsSteps
<1>3. CASE StatusHeader \/ WarnUnpinned
  BY <1>3, HeadersSteps
<1>4. calls \in Nat /\ (Called => calls' \in Nat /\ UNCHANGED scheme)
  BY DEF IInv, TypeOK, Called
<1>5. ASSUME NEW r \in Routes, Fetch(r) \/ HandleUnbindable(r) PROVE IInv'
  BY <1>4, <1>5, FetchStep, PanicStep DEF Fetch, HandleUnbindable, Wiring
<1>6. ASSUME NEW r \in Routes, NEW raw \in Declarable[r],
             HandleFunc(r, raw) \/ Withdraw(r, raw) \/ HandleLate(r, raw) \/ WithdrawLate(r, raw)
      PROVE  IInv'
  BY <1>4, <1>6, HandleStep, WithdrawStep
     DEF HandleFunc, Withdraw, HandleLate, WithdrawLate, Wiring, May
<1>7. CASE Build
  BY <1>7, BuildStep
<1>8. CASE UseBuilt
  BY <1>4, <1>8, PanicStep DEF UseBuilt
<1> QED BY <1>1, <1>2, <1>3, <1>5, <1>6, <1>7, <1>8 DEF Next

\* IInv holds initially and every step preserves it.
THEOREM InvariantHolds == Spec => []IInv
BY InitInv, StepInv, PTL DEF Spec

\* Every variable of the versions keeps its type, whatever is declared when.
THEOREM TypeCorrect == Spec => []TypeOK
<1>1. IInv => TypeOK
  BY DEF IInv
<1> QED BY <1>1, InvariantHolds, PTL

-----------------------------------------------------------------------------
(* What a request is answered. *)

\* A value under a literal, a version or neither.
LEMMA ResolveRawFacts ==
    ASSUME TypeOK, NEW raw, NEW u \in BOOLEAN
    PROVE  LET o == ResolveRaw(raw, u)
           IN  /\ o.unpinned = u
               /\ o.kind \in {"latest", "preview", "version", "invalid"}
               /\ o.kind = "version" => o.version \in Nat /\ o.version \in Versions
               /\ raw \in rv.latest \cup rv.preview \cup DOMAIN Parse => o.kind # "invalid"
<1>1. raw \in DOMAIN Parse => Parse[raw] \in Nat /\ Parse[raw] \in Versions
  BY ParsePositive DEF TypeOK
<1>2. CASE raw \in rv.latest
  BY <1>2 DEF ResolveRaw
<1>3. CASE raw \notin rv.latest /\ raw \in rv.preview
  BY <1>3 DEF ResolveRaw
<1>4. CASE raw \notin rv.latest \cup rv.preview /\ raw \in DOMAIN Parse
  BY <1>1, <1>4 DEF ResolveRaw
<1>5. CASE raw \notin rv.latest \cup rv.preview /\ raw \notin DOMAIN Parse
  BY <1>5 DEF ResolveRaw
<1> QED BY <1>2, <1>3, <1>4, <1>5

LEMMA ResolveFacts ==
    ASSUME IInv, NEW request
    PROVE  LET o == Resolve(request)
           IN  /\ o.kind \in {"latest", "preview", "version", "invalid", "missing"}
               /\ o.kind = "version" => o.version \in Nat /\ o.version \in Versions
               /\ o.kind = "invalid" => ~o.unpinned
<1> DEFINE hits == {i \in DOMAIN request : SourceHits(request[i]) /\ Trim[request[i]] # Blank}
           first == CHOOSE i \in hits : \A j \in hits : i <= j
<1>1. CASE hits # {}
  <2>1. Resolve(request) = ResolveRaw(Trim[request[first]], FALSE)
    BY <1>1 DEF Resolve
  <2> HIDE DEF hits, first
  <2> QED BY <2>1, ResolveRawFacts DEF IInv
<1>2. CASE hits = {} /\ rv.fallback # Blank
  <2>1. Resolve(request) = ResolveRaw(rv.fallback, TRUE)
    BY <1>2 DEF Resolve
  <2> QED BY <1>2, <2>1, ResolveRawFacts DEF IInv, FallbackMeans
<1>3. CASE hits = {} /\ rv.fallback = Blank
  BY <1>3 DEF Resolve
<1> QED BY <1>1, <1>2, <1>3

\* No request without a version is refused as garbled, in any program that
\* got past its wiring: the fallback was checked as it was set.
THEOREM FallbackResolvesEver == Spec => []FallbackResolves
<1>1. IInv => FallbackResolves
  BY ResolveFacts DEF FallbackResolves
<1> QED BY <1>1, InvariantHolds, PTL

-----------------------------------------------------------------------------
(* The Match rule on a listing. *)

\* What the Match rule lets answer version v.
Lets(S, v) == {x \in S : IF match = "exact" THEN x.version = v ELSE x.version <= v}

IsNewest(n, S) == n \in S /\ \A x \in S : x.version <= n.version

LEMMA VariantsAreDistinct ==
    ASSUME NEW vs, Listing(vs), NEW x \in Range(vs), NEW y \in Range(vs), x.version = y.version
    PROVE  x = y
<1>1. PICK i \in DOMAIN vs : vs[i] = x
  BY DEF Range
<1>2. PICK j \in DOMAIN vs : vs[j] = y
  BY DEF Range
<1>3. vs[i].version \in Nat /\ vs[j].version \in Nat /\ i \in Nat /\ j \in Nat
  BY Element DEF Listing
<1>4. ~(i < j) /\ ~(j < i)
  BY <1>1, <1>2, <1>3 DEF Listing, Sorted
<1> QED BY <1>1, <1>2, <1>3, <1>4

\* The reference picks the one newest of a set of variants.
LEMMA NewestIsNewest ==
    ASSUME NEW vs, Listing(vs), NEW S, S \subseteq Range(vs), NEW n, IsNewest(n, S)
    PROVE  NewestOf(S) = n
<1>1. \A x \in Range(vs) : x.version \in Nat
  BY Element DEF Listing, Range
<1>2. ASSUME NEW m \in S, \A y \in S : y.version <= m.version PROVE m = n
  <2>1. m.version = n.version
    BY <1>1, <1>2 DEF IsNewest
  <2> QED BY <2>1, VariantsAreDistinct DEF IsNewest
<1> QED BY <1>2 DEF NewestOf, IsNewest

LEMMA PickIsNewest ==
    ASSUME NEW vs, Listing(vs), NEW v \in Nat, match \in {"compatible", "exact"}
    PROVE  /\ Lets(Range(vs), v) = {} => Pick(vs, v) = NoVariant
           /\ Lets(Range(vs), v) # {} => IsNewest(Pick(vs, v), Lets(Range(vs), v))
<1> DEFINE i == At(vs, v)
           ok == Lets(Range(vs), v)
<1>1. vs \in Seq(Variant) /\ Split(vs, v, i)
  BY AtSplit DEF Listing
<1>2. i \in 1 .. Len(vs) + 1 /\ DOMAIN vs = 1 .. Len(vs) /\ Len(vs) \in Nat
  BY <1>1 DEF Split
<1>3. \A j \in DOMAIN vs : vs[j].version \in Nat
  BY <1>1, Element
<1>4. CASE Found(vs, v)
  <2>1. i \in DOMAIN vs /\ vs[i].version = v /\ Pick(vs, v) = vs[i]
    BY <1>2, <1>4 DEF Found, Pick
  <2>2. vs[i] \in ok /\ \A x \in ok : x.version <= vs[i].version
    BY <1>3, <2>1 DEF Lets, Range
  <2> QED BY <2>1, <2>2 DEF IsNewest
<1>5. CASE ~Found(vs, v)
  <2>1. \A j \in DOMAIN vs : vs[j].version # v
    BY <1>5, FoundIff
  <2>2. CASE match = "exact"
    <3>1. ok = {}
      BY <2>1, <2>2 DEF Lets, Range
    <3>2. Pick(vs, v) = NoVariant
      BY <1>5, <2>2 DEF Pick
    <3> QED BY <3>1, <3>2
  <2>3. CASE match = "compatible" /\ i = 1
    <3>1. \A j \in DOMAIN vs : vs[j].version >= v
      BY <1>1, <1>2, <2>3 DEF Split
    <3>2. ok = {}
      BY <1>3, <2>1, <2>3, <3>1 DEF Lets, Range
    <3>3. Pick(vs, v) = NoVariant
      BY <1>5, <2>3 DEF Pick
    <3> QED BY <3>2, <3>3
  <2>4. CASE match = "compatible" /\ i # 1
    <3>1. Pick(vs, v) = vs[i - 1] /\ i - 1 \in DOMAIN vs
      BY <1>2, <1>5, <2>4 DEF Pick
    <3>2. vs[i - 1].version < v
      BY <1>1, <1>2, <3>1 DEF Split
    <3>3. vs[i - 1] \in ok
      BY <1>3, <2>4, <3>1, <3>2 DEF Lets, Range
    <3>4. ASSUME NEW x \in ok PROVE x.version <= vs[i - 1].version
      <4>1. PICK j \in DOMAIN vs : vs[j] = x
        BY DEF Lets, Range
      <4>2. j < i
        <5>1. vs[j].version <= v /\ vs[j].version # v
          BY <2>1, <2>4, <4>1 DEF Lets
        <5> QED BY <1>1, <1>2, <1>3, <5>1 DEF Split
      <4>3. CASE j = i - 1
        BY <1>3, <4>1, <4>3
      <4>4. CASE j < i - 1
        BY <1>3, <3>1, <4>1, <4>4 DEF Listing, Sorted
      <4> QED BY <1>2, <4>2, <4>3, <4>4
    <3> QED BY <3>1, <3>3, <3>4 DEF IsNewest
  <2> QED BY <2>2, <2>3, <2>4
<1> QED BY <1>4, <1>5

LEMMA NewestOfAll ==
    ASSUME NEW vs, Listing(vs), vs # <<>>
    PROVE  IsNewest(Newest(vs), Range(vs))
<1>1. vs \in Seq(Variant) /\ Len(vs) \in DOMAIN vs /\ DOMAIN vs = 1 .. Len(vs)
  BY DEF Listing
<1>2. \A j \in DOMAIN vs : vs[j].version \in Nat
  BY <1>1, Element
<1>3. ASSUME NEW j \in DOMAIN vs PROVE vs[j].version <= vs[Len(vs)].version
  <2>1. CASE j = Len(vs)
    BY <1>2, <2>1
  <2>2. CASE j < Len(vs)
    BY <1>1, <1>2, <2>2 DEF Listing, Sorted
  <2> QED BY <1>1, <2>1, <2>2
<1> QED BY <1>1, <1>3 DEF IsNewest, Newest, Range

\* What becomes of the variant a request is sent to.
LEMMA DispatchFacts ==
    ASSUME NEW e, NEW o, NEW chosen, chosen = Chosen(e, o), NEW a, a = Dispatch(e, o)
    PROVE  /\ chosen = NoVariant =>
                 /\ a.code = "version_unsupported"
                 /\ a.offered = {Format(v) : v \in Supported(e.variants)}
           /\ chosen # NoVariant /\ chosen.handle = Nil =>
                 a.code = "endpoint_withdrawn" /\ a.served = chosen.version
           /\ chosen # NoVariant /\ chosen.handle # Nil =>
                 /\ a.code = "ok" /\ a.served = chosen.version
                 /\ a.latest <=> o.kind = "latest"
                 /\ o.kind = "version" => a.requested = o.version
                 /\ o.kind # "version" => a.requested = chosen.version
<1>1. ASSUME chosen = NoVariant
      PROVE  a.code = "version_unsupported" /\ a.offered = {Format(v) : v \in Supported(e.variants)}
  <2>1. a = Fails(400, "version_unsupported", o.version, {Format(v) : v \in Supported(e.variants)})
    BY <1>1 DEF Dispatch
  <2> QED BY <2>1 DEF Fails
<1>2. ASSUME chosen # NoVariant, chosen.handle = Nil
      PROVE  a.code = "endpoint_withdrawn" /\ a.served = chosen.version
  <2>1. a = [Fails(410, "endpoint_withdrawn", chosen.version, {}) EXCEPT !.channel = Channel(o)]
    BY <1>2 DEF Dispatch
  <2> QED BY <2>1 DEF Fails
<1>3. ASSUME chosen # NoVariant, chosen.handle # Nil
      PROVE  /\ a.code = "ok" /\ a.served = chosen.version
             /\ a.latest <=> o.kind = "latest"
             /\ o.kind = "version" => a.requested = o.version
             /\ o.kind # "version" => a.requested = chosen.version
  <2>1. a.code = "ok"
    BY <1>3 DEF Dispatch
  <2>2. a.served = chosen.version
    BY <1>3 DEF Dispatch, Resolved
  <2>3. a.latest = (o.kind = "latest")
    BY <1>3 DEF Dispatch, Resolved
  <2>4. a.requested = IF o.kind = "version" THEN o.version ELSE chosen.version
    BY <1>3 DEF Dispatch, Resolved
  <2> QED BY <2>1, <2>2, <2>3, <2>4
<1> QED BY <1>1, <1>2, <1>3

-----------------------------------------------------------------------------
(* The theorems. *)

LEMMA VariantFacts ==
    ASSUME NEW vs, Listing(vs), NEW x \in Range(vs)
    PROVE  x \in Variant /\ x.version \in Nat /\ x.handle \in {Nil, Handle} /\ x # NoVariant
<1>1. x \in Variant
  BY DEF Listing, Range
<1> QED BY <1>1 DEF Variant, NoVariant, Nil, Handle

\* Where something is declared, a request for a version is dispatched.
LEMMA AnswerDispatches ==
    ASSUME IInv, phase = "serving", NEW r \in Routes, NEW request, DeclaredOn(r) # {},
           Resolve(request).kind \in {"version", "latest"}
    PROVE  /\ Answer(r, request) = Dispatch(endpoints[r], Resolve(request))
           /\ endpoints[r].variants # <<>>
<1>1. Listing(endpoints[r].variants) /\ Range(endpoints[r].variants) = DeclaredOn(r)
  BY DEF IInv, ListsAreDeclared
<1>2. endpoints[r].variants # <<>>
  BY <1>1, EmptyListing
<1>3. endpoints[r] # NoEndpoint
  BY <1>2 DEF NoEndpoint
<1>4. r \in Range(mounted)
  BY <1>3 DEF IInv, EndpointsMounted
<1> QED BY <1>2, <1>4 DEF Answer, Serve

\* The newest of what may answer is what is chosen.
LEMMA ChosenIsNewest ==
    ASSUME IInv, NEW r \in Routes, NEW o, DeclaredOn(r) # {}, o.kind \in {"version", "latest"},
           o.kind = "version" => o.version \in Nat
    PROVE  /\ Eligible(r, o) = {} => Chosen(endpoints[r], o) = NoVariant
           /\ Eligible(r, o) # {} => /\ Chosen(endpoints[r], o) = NewestOf(Eligible(r, o))
                                     /\ Chosen(endpoints[r], o) \in Range(endpoints[r].variants)
<1> DEFINE vs == endpoints[r].variants
<1>1. Listing(vs) /\ Range(vs) = DeclaredOn(r) /\ match \in {"compatible", "exact"}
  BY DEF IInv, ListsAreDeclared, TypeOK
<1>2. vs # <<>>
  BY <1>1, EmptyListing
<1>3. Chosen(endpoints[r], o) = IF o.kind = "version" THEN Pick(vs, o.version) ELSE Newest(vs)
  BY <1>2 DEF Chosen
<1>4. Eligible(r, o) = IF o.kind = "version" THEN Lets(Range(vs), o.version) ELSE Range(vs)
  BY <1>1 DEF Eligible, Lets
<1> HIDE DEF vs
<1>5. CASE o.kind = "version"
  <2>1. Lets(Range(vs), o.version) \subseteq Range(vs)
    BY DEF Lets
  <2> QED BY <1>1, <1>3, <1>4, <1>5, <2>1, PickIsNewest, NewestIsNewest DEF vs, IsNewest
<1>6. CASE o.kind = "latest"
  <2>1. IsNewest(Newest(vs), Range(vs))
    BY <1>1, <1>2, NewestOfAll
  <2> QED BY <1>1, <1>3, <1>4, <1>6, <2>1, NewestIsNewest DEF vs, IsNewest
<1> QED BY <1>5, <1>6

\* In any order of declarations, early or late, a pin is answered by the
\* newest declaration its Match rule lets answer it.
THEOREM DispatchesNewestEver == Spec => []DispatchesNewest
<1>1. ASSUME IInv PROVE DispatchesNewest
  <2> SUFFICES ASSUME phase = "serving", NEW r \in Routes, NEW request \in Requests,
                      Resolve(request).kind \in {"version", "latest"}, DeclaredOn(r) # {}
               PROVE  LET o == Resolve(request)
                          a == Answer(r, request)
                      IN  IF Eligible(r, o) = {} THEN a.code = "version_unsupported"
                          ELSE LET n == NewestOf(Eligible(r, o))
                               IN  /\ a.served = n.version
                                   /\ a.code = IF n.handle = Nil THEN "endpoint_withdrawn" ELSE "ok"
                                   /\ a.code = "ok" => /\ a.requested = IF a.latest THEN n.version ELSE o.version
                                                       /\ a.latest = (o.kind = "latest")
    BY DEF DispatchesNewest
  <2> DEFINE o == Resolve(request)
             a == Answer(r, request)
             chosen == Chosen(endpoints[r], o)
  <2>1. o.kind \in {"version", "latest"} /\ (o.kind = "version" => o.version \in Nat)
    BY <1>1, ResolveFacts
  <2>2. a = Dispatch(endpoints[r], o)
    BY <1>1, AnswerDispatches
  <2> HIDE DEF o, a, chosen
  <2>3. /\ Eligible(r, o) = {} => chosen = NoVariant
        /\ Eligible(r, o) # {} => chosen = NewestOf(Eligible(r, o)) /\ chosen # NoVariant
    BY <1>1, <2>1, ChosenIsNewest, VariantFacts DEF IInv, ListsAreDeclared, chosen
  <2>4. CASE Eligible(r, o) = {}
    BY <2>2, <2>3, <2>4, DispatchFacts DEF o, a, chosen
  <2>5. CASE Eligible(r, o) # {}
    <3> DEFINE n == NewestOf(Eligible(r, o))
    <3>1. chosen = n /\ chosen # NoVariant
      BY <2>3, <2>5
    <3> HIDE DEF n
    <3>2. a.served = n.version /\ a.code = IF n.handle = Nil THEN "endpoint_withdrawn" ELSE "ok"
      BY <2>2, <3>1, DispatchFacts DEF chosen
    <3>3. ASSUME a.code = "ok"
          PROVE  a.requested = (IF a.latest THEN n.version ELSE o.version) /\ a.latest = (o.kind = "latest")
      <4>1. chosen.handle # Nil
        BY <3>1, <3>2, <3>3
      <4>2. /\ a.latest = (o.kind = "latest") /\ (o.kind = "version" => a.requested = o.version)
            /\ o.kind # "version" => a.requested = chosen.version
        BY <2>2, <3>1, <4>1, DispatchFacts DEF chosen, Dispatch, Resolved
      <4> QED BY <2>1, <3>1, <4>2
    <3> QED BY <2>5, <3>2, <3>3 DEF n, o, a
  <2> QED BY <2>4, <2>5 DEF o, a
<1> QED BY <1>1, InvariantHolds, PTL

LEMMA PickExact ==
    ASSUME NEW vs, Listing(vs), NEW x \in Range(vs)
    PROVE  Pick(vs, x.version) = x
<1> DEFINE v == x.version
           i == At(vs, v)
<1>1. v \in Nat /\ vs \in Seq(Variant)
  BY VariantFacts DEF Listing
<1>2. PICK j \in DOMAIN vs : vs[j] = x
  BY DEF Range
<1>3. Found(vs, v)
  BY <1>1, <1>2, FoundIff
<1>4. Split(vs, v, i)
  BY <1>1, AtSplit
<1>5. i \in DOMAIN vs /\ vs[i].version = v
  BY <1>1, <1>3, <1>4 DEF Found, Split
<1>6. vs[i] = x
  BY <1>5, VariantsAreDistinct DEF Range
<1>7. Pick(vs, v) = vs[i]
  BY <1>3 DEF Pick
<1> QED BY <1>6, <1>7

LEMMA FormatParses ==
    ASSUME scheme \in Schemes, NEW v \in Versions
    PROVE  Format(v) \in DOMAIN Parse /\ Parse[Format(v)] = v /\ v \in Nat
<1>1. PICK raw \in DOMAIN Parse : Parse[raw] = v
  BY DEF Versions
<1> QED BY <1>1, FormatsAssumption, ParsePositive DEF Format, Parse

\* What is declared on a route is of some version.
LEMMA DeclaredVersions ==
    ASSUME IInv, NEW r \in Routes, NEW x \in DeclaredOn(r)
    PROVE  x.version \in Versions
BY DEF DeclaredOn, IInv, DeclaredAreVersions

\* Only a pin that nothing answers is told what the endpoint supports.
LEMMA UnsupportedOffers ==
    ASSUME NEW r, NEW request, Answer(r, request).code = "version_unsupported"
    PROVE  Answer(r, request).offered = {Format(v) : v \in Supported(endpoints[r].variants)}
<1> DEFINE o == Resolve(request)
           e == endpoints[r]
           a == Answer(r, request)
<1>1. r \in Range(mounted) /\ a = Serve(e, request)
  BY DEF Answer, Fails
<1>2. ~(e.variants = <<>> /\ e.preview = Nil) /\ o.kind \notin {"missing", "invalid"}
  BY <1>1 DEF Serve, Fails
<1>3. a = Dispatch(e, o)
  BY <1>1, <1>2 DEF Serve
<1>4. Chosen(e, o) = NoVariant
  BY <1>3, DispatchFacts
<1> QED BY <1>3, <1>4, DispatchFacts

\* The versions a 400 offers are those that serve, each as it is spelled.
THEOREM OffersWorkEver == Spec => []OffersWork
<1>1. ASSUME IInv PROVE OffersWork
  <2> SUFFICES ASSUME NEW r \in Routes, NEW request \in Requests,
                      Answer(r, request).code = "version_unsupported"
               PROVE  /\ \A raw \in Answer(r, request).offered :
                             /\ raw \in DOMAIN Parse
                             /\ Pick(endpoints[r].variants, Parse[raw]) = [version |-> Parse[raw], handle |-> Handle]
                      /\ \A v \in Versions :
                             Pick(endpoints[r].variants, v).handle = Handle =>
                                Format(Pick(endpoints[r].variants, v).version) \in Answer(r, request).offered
    BY DEF OffersWork
  <2> DEFINE vs == endpoints[r].variants
             offered == Answer(r, request).offered
  <2>1. offered = {Format(v) : v \in Supported(vs)}
    BY UnsupportedOffers
  <2>2. Listing(vs) /\ Range(vs) = DeclaredOn(r) /\ scheme \in Schemes /\ match \in {"compatible", "exact"}
    BY <1>1 DEF IInv, ListsAreDeclared, TypeOK
  <2> HIDE DEF vs, offered
  <2>3. ASSUME NEW raw \in offered
        PROVE  raw \in DOMAIN Parse /\ Pick(vs, Parse[raw]) = [version |-> Parse[raw], handle |-> Handle]
    <3>1. PICK x \in Range(vs) : x.handle # Nil /\ raw = Format(x.version)
      BY <2>1, <2>3 DEF Supported
    <3>2. x.version \in Versions
      BY <1>1, <2>2, DeclaredVersions
    <3>3. raw \in DOMAIN Parse /\ Parse[raw] = x.version
      BY <2>2, <3>1, <3>2, FormatParses
    <3>4. Pick(vs, x.version) = x
      BY <2>2, PickExact
    <3>5. x \in Variant
      BY <2>2, VariantFacts
    <3>6. x = [version |-> x.version, handle |-> Handle]
      BY <3>1, <3>5 DEF Variant
    <3> QED BY <3>3, <3>4, <3>6
  <2>4. ASSUME NEW v \in Versions, Pick(vs, v).handle = Handle
        PROVE  Format(Pick(vs, v).version) \in offered
    <3>1. v \in Nat
      BY <2>2, FormatParses
    <3>2. Pick(vs, v) # NoVariant
      BY <2>4 DEF NoVariant, Handle
    <3>3. Pick(vs, v) \in Range(vs)
      BY <2>2, <3>1, <3>2, PickIsNewest DEF IsNewest, Lets
    <3>4. Pick(vs, v).version \in Supported(vs)
      BY <2>4, <3>3 DEF Supported, Handle, Nil
    <3> QED BY <2>1, <3>4
  <2> QED BY <2>3, <2>4 DEF vs, offered
<1> QED BY <1>1, InvariantHolds, PTL

\* Nothing declared on any route is newer than Registrar.Latest.
LEMMA LatestIsNewest ==
    ASSUME IInv, NEW r \in Routes, NEW x \in DeclaredOn(r)
    PROVE  Latest \in Nat /\ x.version <= Latest
<1> DEFINE all == UNION {{y.version : y \in Range(endpoints[q].variants)} : q \in Routes}
<1>1. \A q \in Routes : Range(endpoints[q].variants) = DeclaredOn(q)
  BY DEF IInv, ListsAreDeclared
<1>2. \A n \in all : n # Zero /\ n \in Nat /\ \E d \in declared : d[2] = n
  BY <1>1 DEF DeclaredOn, IInv, TypeOK
<1>3. x.version \in all
  BY <1>1
<1>4. PICK d \in declared : \A c \in declared : c[2] <= d[2]
  BY <1>2, <1>3 DEF IInv, DeclaredAreVersions
<1>5. d[1] \in Routes /\ d[2] \in Nat /\ d[2] # Zero
  <2>1. d[1] \in Routes /\ d[2] \in Nat
    BY DEF IInv, TypeOK
  <2>2. x.version <= d[2]
    BY <1>2, <1>3, <1>4
  <2> QED BY <1>2, <1>3, <2>1, <2>2 DEF Zero
<1>6. d[2] \in all
  <2>1. [version |-> d[2], handle |-> d[3]] \in DeclaredOn(d[1])
    BY <1>5 DEF DeclaredOn
  <2> QED BY <1>1, <1>5, <2>1
<1>7. \A n \in all : n <= d[2]
  BY <1>2, <1>4
<1>8. Latest = CHOOSE m \in all : \A n \in all : m >= n
  BY <1>3 DEF Latest, Max
<1> HIDE DEF all
<1>9. \E m \in all : \A n \in all : m >= n
  BY <1>2, <1>5, <1>6, <1>7
<1>10. Latest \in all /\ \A n \in all : Latest >= n
  BY <1>8, <1>9
<1> QED BY <1>2, <1>3, <1>10

\* An unpinned client is answered as one pinned to Registrar.Latest is.
THEOREM FloatsAsPinnedEver == Spec => []FloatsAsPinned
<1>1. ASSUME IInv PROVE FloatsAsPinned
  <2> SUFFICES ASSUME phase = "serving", match = "compatible", NEW r \in Range(mounted),
                      NEW request \in Requests, NEW pinned \in Requests,
                      Resolve(request).kind = "latest", Resolve(pinned).kind = "version",
                      Resolve(pinned).version = Latest, DeclaredOn(r) # {}
               PROVE  /\ Answer(r, request).code = Answer(r, pinned).code
                      /\ Answer(r, request).served = Answer(r, pinned).served
    BY DEF FloatsAsPinned
  <2> DEFINE o == Resolve(request)
             q == Resolve(pinned)
             e == endpoints[r]
  <2>1. r \in Routes
    BY <1>1 DEF IInv, TypeOK, Range
  <2>2. Answer(r, request) = Dispatch(e, o) /\ Answer(r, pinned) = Dispatch(e, q)
    BY <1>1, <2>1, AnswerDispatches
  <2>3. Latest \in Nat /\ \A x \in DeclaredOn(r) : x.version <= Latest
    BY <1>1, <2>1, LatestIsNewest
  <2> HIDE DEF o, q, e
  <2>4. o.kind = "latest" /\ q.kind = "version" /\ q.version = Latest
    BY DEF o, q
  <2>5. Eligible(r, o) = DeclaredOn(r) /\ Eligible(r, q) = DeclaredOn(r)
    BY <2>3, <2>4 DEF Eligible
  <2>6. Chosen(e, o) = NewestOf(DeclaredOn(r)) /\ Chosen(e, o) \in Range(e.variants)
    BY <1>1, <2>1, <2>4, <2>5, ChosenIsNewest DEF e
  <2>7. Chosen(e, q) = Chosen(e, o)
    BY <1>1, <2>1, <2>3, <2>4, <2>5, <2>6, ChosenIsNewest DEF e
  <2>8. Chosen(e, o) # NoVariant
    BY <1>1, <2>1, <2>6, VariantFacts DEF IInv, ListsAreDeclared, e
  <2>9. Dispatch(e, o).code = Dispatch(e, q).code /\ Dispatch(e, o).served = Dispatch(e, q).served
    <3>1. CASE Chosen(e, o).handle = Nil
      BY <2>7, <2>8, <3>1, DispatchFacts
    <3>2. CASE Chosen(e, o).handle # Nil
      BY <2>7, <2>8, <3>2, DispatchFacts
    <3> QED BY <3>1, <3>2
  <2> QED BY <2>2, <2>9
<1> QED BY <1>1, InvariantHolds, PTL

-----------------------------------------------------------------------------
(* A pin as variants land. *)

\* A list changes by an insertion only.
LEMMA InsertGrows ==
    ASSUME IInv, NEW r \in Routes, NEW q \in Routes, NEW raw, NEW h \in {Nil, Handle},
           InsertVariant(q, raw, h), endpoints'[r].variants # endpoints[r].variants
    PROVE  \E w \in Nat, g \in {Nil, Handle} :
              /\ ~Found(endpoints[r].variants, w)
              /\ endpoints'[r].variants = Insert(endpoints[r].variants, w, g)
<1>1. raw \in DOMAIN Parse /\ ~Found(Made(q).variants, Parse[raw])
  BY DEF InsertVariant, Panic
<1>2. endpoints' = [endpoints EXCEPT ![q] = [Made(q) EXCEPT !.variants = Insert(@, Parse[raw], h)]]
  BY <1>1 DEF InsertVariant
<1>3. Made(q) \in Endpoint /\ Made(q).variants = endpoints[q].variants
  BY MadeFacts DEF IInv
<1>4. q = r
  BY <1>2 DEF IInv, TypeOK
<1>5. endpoints'[r].variants = Insert(endpoints[r].variants, Parse[raw], h)
  BY <1>2, <1>3, <1>4 DEF IInv, TypeOK, Endpoint
<1>6. Parse[raw] \in Nat
  BY <1>1, ParsePositive DEF IInv, TypeOK
<1> QED BY <1>1, <1>3, <1>4, <1>5, <1>6

LEMMA HandleGrows ==
    ASSUME IInv, NEW r \in Routes, NEW q \in Routes, NEW raw, HandleOn(q, raw),
           endpoints'[r].variants # endpoints[r].variants
    PROVE  \E w \in Nat, g \in {Nil, Handle} :
              /\ ~Found(endpoints[r].variants, w)
              /\ endpoints'[r].variants = Insert(endpoints[r].variants, w, g)
<1>1. CASE raw \in rv.preview /\ Made(q).preview # Nil
  BY <1>1 DEF HandleOn, Panic
<1>2. CASE raw \in rv.preview /\ Made(q).preview = Nil
  <2>1. endpoints' = [endpoints EXCEPT ![q] = [Made(q) EXCEPT !.preview = Handle]]
    BY <1>2 DEF HandleOn
  <2>2. [Made(q) EXCEPT !.preview = Handle].variants = endpoints[q].variants
    BY MadeFacts DEF IInv, Endpoint
  <2> QED BY <2>1, <2>2 DEF IInv, TypeOK
<1>3. CASE raw \notin rv.preview
  BY <1>3, InsertGrows DEF HandleOn
<1> QED BY <1>1, <1>2, <1>3

LEMMA StepGrows ==
    ASSUME IInv, [Next]_vars, NEW r \in Routes, endpoints'[r].variants # endpoints[r].variants
    PROVE  \E w \in Nat, g \in {Nil, Handle} :
              /\ ~Found(endpoints[r].variants, w)
              /\ endpoints'[r].variants = Insert(endpoints[r].variants, w, g)
<1> DEFINE Grows == \E w \in Nat, g \in {Nil, Handle} :
                       /\ ~Found(endpoints[r].variants, w)
                       /\ endpoints'[r].variants = Insert(endpoints[r].variants, w, g)
<1> HIDE DEF Grows
<1>1. CASE UNCHANGED endpoints
  BY <1>1
<1>2. Panic \/ Build \/ UNCHANGED vars => UNCHANGED endpoints
  BY DEF Panic, Build, vars
<1>3. ASSUME NEW l \in Options, AllowLatest(l) \/ AllowPreview(l) \/ Fallback(l) PROVE UNCHANGED endpoints
  BY <1>3 DEF AllowLatest, AllowPreview, Fallback, Panic, Configured
<1>4. StatusHeader \/ WarnUnpinned \/ UseBuilt => UNCHANGED endpoints
  BY DEF StatusHeader, WarnUnpinned, UseBuilt, Panic, Configured
<1>5. ASSUME NEW q \in Routes, HandleUnbindable(q) PROVE UNCHANGED endpoints
  BY <1>5 DEF HandleUnbindable, Panic
<1>6. ASSUME NEW q \in Routes, Fetch(q) PROVE FALSE
  <2>1. endpoints' = [endpoints EXCEPT ![q] = Made(q)] /\ Made(q).variants = endpoints[q].variants
    BY <1>6, MadeFacts DEF Fetch, IInv
  <2> QED BY <2>1 DEF IInv, TypeOK
<1>7. ASSUME NEW q \in Routes, NEW raw, HandleOn(q, raw) PROVE Grows
  BY <1>7, HandleGrows DEF Grows
<1>8. ASSUME NEW q \in Routes, NEW raw, WithdrawOn(q, raw) PROVE Grows
  <2>1. UNCHANGED endpoints \/ InsertVariant(q, raw, Nil)
    BY <1>8 DEF WithdrawOn, Panic
  <2> QED BY <2>1, InsertGrows DEF Grows
<1>9. ASSUME NEW q \in Routes, NEW raw \in Declarable[q],
             HandleFunc(q, raw) \/ Withdraw(q, raw) \/ HandleLate(q, raw) \/ WithdrawLate(q, raw)
      PROVE  Grows
  BY <1>7, <1>8, <1>9 DEF HandleFunc, Withdraw, HandleLate, WithdrawLate
<1>10. Grows
  BY <1>2, <1>3, <1>4, <1>5, <1>6, <1>9 DEF Next
<1> QED BY <1>10 DEF Grows

\* Two listings of which the Match rule lets the same answer pick the same.
LEMMA SamePick ==
    ASSUME NEW before, Listing(before), NEW after, Listing(after), Range(before) \subseteq Range(after),
           NEW p \in Nat, match \in {"compatible", "exact"},
           \/ Lets(Range(after), p) = Lets(Range(before), p)
           \/ /\ Lets(Range(before), p) # {}
              /\ \A n \in Range(before) :
                    IsNewest(n, Lets(Range(before), p)) => IsNewest(n, Lets(Range(after), p))
    PROVE  Pick(after, p) = Pick(before, p)
<1>1. CASE Lets(Range(before), p) = {}
  BY <1>1, PickIsNewest
<1>2. CASE Lets(Range(before), p) # {}
  <2>1. IsNewest(Pick(before, p), Lets(Range(before), p))
    BY <1>2, PickIsNewest
  <2>2. IsNewest(Pick(before, p), Lets(Range(after), p))
    BY <2>1 DEF IsNewest, Lets
  <2>3. Lets(Range(after), p) # {} /\ Lets(Range(after), p) \subseteq Range(after)
    BY <2>2 DEF IsNewest, Lets
  <2>4. IsNewest(Pick(after, p), Lets(Range(after), p))
    BY <2>3, PickIsNewest
  <2> QED BY <2>2, <2>3, <2>4, NewestIsNewest
<1> QED BY <1>1, <1>2

\* A pin keeps its variant unless what lands is for it.
THEOREM PinKeepsBehaviourEver == Spec => PinKeepsBehaviour
<1> DEFINE Keeps ==
      \A r \in Routes : \A p, v \in Versions :
          LET before == endpoints[r].variants
              after == endpoints'[r].variants
              Has(vs) == \E x \in Range(vs) : x.version = v
              between == \E x \in Range(before) : v < x.version /\ x.version <= p
          IN  ~Has(before) /\ Has(after) /\ (p < v \/ between) =>
                  Pick(after, p) = Pick(before, p)
<1>1. ASSUME IInv, [Next]_vars PROVE Keeps
  <2> SUFFICES ASSUME NEW r \in Routes, NEW p \in Versions, NEW v \in Versions,
                      ~\E x \in Range(endpoints[r].variants) : x.version = v,
                      \E x \in Range(endpoints'[r].variants) : x.version = v,
                      \/ p < v
                      \/ \E x \in Range(endpoints[r].variants) : v < x.version /\ x.version <= p
               PROVE  Pick(endpoints'[r].variants, p) = Pick(endpoints[r].variants, p)
    OBVIOUS
  <2> DEFINE before == endpoints[r].variants
             after == endpoints'[r].variants
  <2>1. Listing(before) /\ match \in {"compatible", "exact"} /\ p \in Nat /\ v \in Nat
    BY <1>1, FormatParses DEF IInv, ListsAreDeclared, TypeOK
  <2>2. PICK w \in Nat, g \in {Nil, Handle} : ~Found(before, w) /\ after = Insert(before, w, g)
    BY <1>1, StepGrows
  <2> DEFINE new == [version |-> w, handle |-> g]
  <2>3. Listing(after) /\ Range(after) = Range(before) \cup {new}
    BY <2>1, <2>2, InsertKeeps
  <2>4. \A x \in Range(before) : x.version \in Nat
    BY <2>1, VariantFacts
  <2>5. new.version = w
    OBVIOUS
  <2> HIDE DEF before, after, new
  <2>6. w = v
    BY <2>3, <2>5 DEF before, after
  <2>7. p < v \/ \E x \in Range(before) : v < x.version /\ x.version <= p
    BY DEF before
  <2>8. CASE p < v \/ match = "exact"
    <3>1. new \notin Lets(Range(after), p)
      BY <2>1, <2>4, <2>5, <2>6, <2>7, <2>8 DEF Lets
    <3>2. Lets(Range(after), p) = Lets(Range(before), p)
      BY <2>3, <3>1 DEF Lets
    <3> QED BY <2>1, <2>3, <3>2, SamePick DEF before, after
  <2>9. CASE ~(p < v) /\ match = "compatible"
    <3>1. PICK x \in Range(before) : v < x.version /\ x.version <= p
      BY <2>7, <2>9
    <3>2. x \in Lets(Range(before), p)
      BY <2>9, <3>1 DEF Lets
    <3>3. ASSUME NEW n \in Range(before), IsNewest(n, Lets(Range(before), p))
          PROVE  IsNewest(n, Lets(Range(after), p))
      <4>1. n.version \in Nat /\ x.version \in Nat /\ x.version <= n.version
        BY <2>4, <3>2, <3>3 DEF IsNewest
      <4>2. new.version <= n.version
        BY <2>1, <2>5, <2>6, <3>1, <4>1
      <4>3. Lets(Range(after), p) \subseteq Lets(Range(before), p) \cup {new}
        BY <2>3 DEF Lets
      <4>4. n \in Lets(Range(after), p)
        BY <2>3, <3>3 DEF Lets, IsNewest
      <4> QED BY <3>3, <4>2, <4>3, <4>4 DEF IsNewest
    <3> QED BY <2>1, <2>3, <3>2, <3>3, SamePick DEF before, after
  <2> QED BY <2>1, <2>8, <2>9
<1>2. PinKeepsBehaviour <=> [][Keeps]_vars
  BY DEF PinKeepsBehaviour
<1>3. IInv /\ [Next]_vars => [Keeps]_vars
  BY <1>1
<1> HIDE DEF Keeps
<1> QED BY <1>2, <1>3, InvariantHolds, PTL DEF Spec
=============================================================================
