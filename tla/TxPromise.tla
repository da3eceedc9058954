----------------------------- MODULE TxPromise -----------------------------
(***************************************************************************)
(* What TxCtx and TxSerializableCtx promise their callers, whatever        *)
(* attempts, retries and rollbacks are behind it: the work of a call takes *)
(* effect as a whole, at one moment between the call and its answer, or    *)
(* not at all; the answer tells which, unless it is an error of the        *)
(* connection or the ctx; and a serializable call is only given up for     *)
(* conflicts after more than Retries others took effect, or when its ctx   *)
(* has ended.                                                              *)
(*                                                                         *)
(* PgxTx is shown to implement it.                                         *)
(***************************************************************************)
EXTENDS Naturals, FiniteSets

CONSTANTS
    Callers,            \* goroutines, each making one call
    Serializable,       \* those that call TxSerializableCtx
    Retries             \* how often a call is retried

VARIABLES
    called,             \* those whose call has begun
    dead,               \* those whose ctx has ended
    took,               \* how often a call's work took effect
    answer              \* what the call returned, panicked or exited with

vars == <<called, dead, took, answer>>

Init ==
    /\ called = {}
    /\ dead = {}
    /\ took = [c \in Callers |-> 0]
    /\ answer = [c \in Callers |-> "none"]

Begin(c) ==
    /\ c \notin called
    /\ called' = called \cup {c}
    /\ UNCHANGED <<dead, took, answer>>

Expire(c) ==
    /\ dead' = dead \cup {c}
    /\ UNCHANGED <<called, took, answer>>

Running(c) == c \in called /\ answer[c] = "none"

TakeEffect(c) ==
    /\ Running(c)
    /\ took[c] = 0
    /\ took' = [took EXCEPT ![c] = 1]
    /\ UNCHANGED <<called, dead, answer>>

\* The serializable calls that took effect.
Took == {c \in Serializable : took[c] > 0}

\* The answers a call may be given.
Truthful(c, a) ==
    \/ a = "nil" /\ took[c] = 1
    \/ a \in {"panic", "exit"} /\ took[c] = 0
    \/ /\ a = "conflict" /\ took[c] = 0
       /\ c \in Serializable
       /\ c \in dead \/ Cardinality(Took) > Retries
    \/ a = "other"

Answer(c, a) ==
    /\ Running(c)
    /\ Truthful(c, a)
    /\ answer' = [answer EXCEPT ![c] = a]
    /\ UNCHANGED <<called, dead, took>>

Next ==
    \E c \in Callers :
        \/ Begin(c) \/ Expire(c) \/ TakeEffect(c)
        \/ \E a \in {"nil", "conflict", "other", "panic", "exit"} : Answer(c, a)

Spec == Init /\ [][Next]_vars
=============================================================================
