----------------------------- MODULE MC_JsonFile -----------------------------
\* Two databases, so that one of them may be missing in the file, and two
\* rows, so that a save may replace one and keep the other.
EXTENDS JsonFileStorage, TLC
=============================================================================
