---------------------------- MODULE MCEventPath ----------------------------
\* Small instances of EventPath: every message carries one event, which all
\* the handlers may subscribe to.
EXTENDS EventPath

CONSTANTS w1, w2, h1, m1, m2, user, e1

MCOneName == [m \in Msgs |-> user]
MCOneEvent == [m \in Msgs |-> e1]
MCRegistered == {user} \X Handlers
=============================================================================
