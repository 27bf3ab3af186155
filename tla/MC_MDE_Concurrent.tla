------------------------- MODULE MC_MDE_Concurrent -------------------------
\* Two calls in flight on branches that are nested or siblings; the removal
\* of a branch is an update of what is above it, and the one call that the
\* backend may refuse to read and write for.
EXTENDS MDE

CONSTANTS a, b, s1, s2, t1, o1, o2

MCPaths == {<<>>, <<a>>, <<a, a>>, <<a, b>>, <<a, a, b>>}

\* A write of the values in f, a function from some paths.
Write(mode, path, f) ==
  [mode |-> mode, path |-> path,
   value |-> [q \in MCPaths |-> IF q \in DOMAIN f THEN f[q] ELSE None]]

MCWrites ==
  { Write("SET", <<a>>, <<a>> :> Obj @@ <<a, a>> :> s2),
    Write("SET", <<a>>, <<a>> :> Null),
    Write("SET", <<a, a>>, <<a, a>> :> Obj @@ <<a, a, b>> :> s1),
    Write("UPDATE", <<a, b>>, <<a, b>> :> Obj) }

MCRefusable == {r \in MCWrites : r.value[r.path] = Null}

Calls == Permutations(Ops)
=============================================================================
