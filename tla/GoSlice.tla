------------------------------ MODULE GoSlice -------------------------------
(***************************************************************************)
(* Go slices, as far as aliasing goes: a heap is a sequence of backing     *)
(* arrays, a slice names one of them with a length and a capacity, and     *)
(* append writes into the shared array while the capacity lasts.  The code *)
(* that depends on it is Router.Use and Group, and ReqError.WithReasons.   *)
(***************************************************************************)
EXTENDS Integers, Sequences, SequencesExt

Unset == "unset"  \* an element of a backing array nothing was appended to

NilSlice == [arr |-> 0, len |-> 0, cap |-> 0]

Elements(heap, s) == IF s.arr = 0 THEN <<>> ELSE SubSeq(heap[s.arr], 1, s.len)

\* slices.Clip: what is appended next cannot reach the array.
Clip(s) == [s EXCEPT !.cap = s.len]

\* The capacity append grows to: double, or what is needed when that is more.
Grown(s, need) == IF 2 * s.cap < need THEN need ELSE 2 * s.cap

\* append(s, xs...): the heap and the slice after it.
AppendTo(heap, s, xs) ==
    LET need == s.len + Len(xs)
        inPlace == need <= s.cap
        old == Elements(heap, s)
        cap == Grown(s, need)
        fresh == old \o xs \o [i \in 1 .. cap - need |-> Unset]
        written == [i \in 1 .. Len(heap[s.arr]) |->
                       IF i \in s.len + 1 .. need THEN xs[i - s.len] ELSE heap[s.arr][i]]
    IN  IF xs = <<>> THEN [heap |-> heap, slice |-> s]
        ELSE IF inPlace
        THEN [heap |-> [heap EXCEPT ![s.arr] = written], slice |-> [s EXCEPT !.len = need]]
        ELSE [heap |-> Append(heap, fresh),
              slice |-> [arr |-> Len(heap) + 1, len |-> need, cap |-> cap]]
=============================================================================
