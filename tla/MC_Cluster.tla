----------------------------- MODULE MC_Cluster -----------------------------
EXTENDS Cluster, TLC

CONSTANTS w1, w2

Interchangeable == Permutations(Workers)
=============================================================================
