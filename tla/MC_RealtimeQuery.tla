-------------------------- MODULE MC_RealtimeQuery --------------------------
\* One query, started and stopped again, on a collection of two children.
EXTENDS RealtimeQuery
=============================================================================
