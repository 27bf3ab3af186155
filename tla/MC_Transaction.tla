--------------------------- MODULE MC_Transaction ---------------------------
\* Two clients with a transaction on the same path.
EXTENDS TransactionRoute

CONSTANTS t1, t2
=============================================================================
