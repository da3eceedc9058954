---------------------------- MODULE MCSqsWorker ----------------------------
(***************************************************************************)
(* SqsWorker on small instances: every message carries one event name, and *)
(* all the handlers may subscribe to it.  Messages are interchangeable, and *)
(* so are handlers; loops are not, one of them being stoppable.            *)
(***************************************************************************)
EXTENDS SqsWorker, TLC

CONSTANTS w1, w2, h1, h2, m1, m2, user

MCOneName == [m \in Msgs |-> user]
MCRegistered == {user} \X Handlers

MCSymmetry == Permutations(Handlers) \cup Permutations(Msgs)
=============================================================================
