------------------------------ MODULE MCRetry ------------------------------
\* Small instances of Retry for TLC.
EXTENDS Retry

CONSTANTS e1, e2, w1, w2

NackOrGiveUp == [e \in Events |-> IF e = e1 THEN {"nack"} ELSE {"drop", "dead_letter"}]
AllDrop      == [e \in Events |-> {"drop"}]
=============================================================================
