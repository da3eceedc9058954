------------------------------ MODULE MCOutbox ------------------------------
\* A small instance of Outbox: two events and two relays, one stoppable.
EXTENDS Outbox

CONSTANTS e1, e2, r1, r2
=============================================================================
