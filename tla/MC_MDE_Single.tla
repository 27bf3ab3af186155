--------------------------- MODULE MC_MDE_Single ---------------------------
\* One client that waits for each call: objects two levels deep with short
\* and long atoms, empty containers, nulls, an object and an array that
\* are replaced by a string and come back; an array with a gap before an
\* inline entry, and one without.
EXTENDS MDEImplements

CONSTANTS a, b, s1, s2, t1, o1

MCPaths == {<<>>, <<a>>, <<b>>, <<a, a>>, <<a, b>>, <<a, a, b>>,
            <<b, 0>>, <<b, 1>>, <<b, 0, a>>}

\* A write of the values in f, a function from some paths.
Write(mode, path, f) ==
  [mode |-> mode, path |-> path,
   value |-> [q \in MCPaths |-> IF q \in DOMAIN f THEN f[q] ELSE None]]

MCWrites ==
  { Write("SET", <<>>, <<>> :> Obj @@ <<b>> :> s1),
    Write("UPDATE", <<>>, <<>> :> Obj @@ <<a>> :> Null @@ <<b>> :> t1),
    Write("SET", <<a>>, <<a>> :> Obj @@ <<a, a>> :> Obj @@ <<a, b>> :> t1),
    Write("SET", <<a>>, <<a>> :> s1),
    Write("UPDATE", <<a>>, <<a>> :> Obj @@ <<a, b>> :> s2),
    Write("SET", <<b>>, <<b>> :> t1),
    Write("SET", <<a, a>>, <<a, a>> :> Obj @@ <<a, a, b>> :> s1),
    Write("UPDATE", <<a, a>>, <<a, a>> :> Obj @@ <<a, a, b>> :> t1),
    Write("SET", <<a, a>>, <<a, a>> :> Null),
    Write("SET", <<a, a, b>>, <<a, a, b>> :> s2),
    Write("SET", <<b>>, <<b>> :> Arr @@ <<b, 0>> :> Obj @@ <<b, 0, a>> :> s1 @@ <<b, 1>> :> s1),
    Write("SET", <<b>>, <<b>> :> Arr @@ <<b, 0>> :> s2 @@ <<b, 1>> :> t1),
    Write("UPDATE", <<b>>, <<b>> :> Arr @@ <<b, 0>> :> s1 @@ <<b, 1>> :> Null),
    Write("SET", <<b, 0>>, <<b, 0>> :> s2) }

\* The instance meets the conditions of the theorems of MDEProofs.
ASSUME ConditionsMet == OneCaller /\ SteadyWrites
=============================================================================
