--------------------------- MODULE MC_Subscribing ---------------------------
\* Two events with a callback each, one reconnection, each request sent up
\* to twice.
EXTENDS Subscribing
=============================================================================
