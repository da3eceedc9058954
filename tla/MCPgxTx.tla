------------------------------ MODULE MCPgxTx ------------------------------
\* Small instances of PgxTx for TLC: s1 and s2 call TxSerializableCtx, p1 TxCtx.
EXTENDS PgxTx

CONSTANTS s1, s2, p1

Mixed    == {s1, s2, p1}
Plain    == {p1}
Pair     == {s1, s2}
One      == {s1}
=============================================================================
