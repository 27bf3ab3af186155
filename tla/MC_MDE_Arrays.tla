--------------------------- MODULE MC_MDE_Arrays ---------------------------
\* One client that waits for each call stores an array of two short entries
\* and edits them one at a time.
EXTENDS MDEImplements

CONSTANTS b, s1, s2, o1

MCPaths == {<<>>, <<b>>, <<b, 0>>, <<b, 1>>}

\* A write of the values in f, a function from some paths.
Write(path, f) ==
  [mode |-> "SET", path |-> path,
   value |-> [q \in MCPaths |-> IF q \in DOMAIN f THEN f[q] ELSE None]]

MCWrites ==
  { Write(<<b>>, <<b>> :> Arr @@ <<b, 0>> :> s1 @@ <<b, 1>> :> s1),
    Write(<<b, 0>>, <<b, 0>> :> s2),
    Write(<<b, 1>>, <<b, 1>> :> s2) }
=============================================================================
