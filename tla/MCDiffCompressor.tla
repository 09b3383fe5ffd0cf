-------------------------- MODULE MCDiffCompressor --------------------------
(***************************************************************************)
(* Small diffs: files with and without names, lockfiles, binary files, and *)
(* hunks of which one has a word of the query.  Removed lines may begin    *)
(* with two dashes, and those of a path with "-- a/".                      *)
(***************************************************************************)
EXTENDS DiffCompressor

Line(kind, text) ==
  [kind |-> kind, start |-> 0, text |-> text, words |-> {}, lock |-> FALSE, mark |-> "none"]

Git(lock) == [Line("git", "none") EXCEPT !.lock = lock]
Hunk(n)   == [Line("hunk", "none") EXCEPT !.start = n]
Ctx       == Line("context", "c")
Named(l)  == [l EXCEPT !.words = {"query"}]

MCChunks ==
  { <<Git(FALSE)>>,
    <<Git(TRUE)>>,
    <<Git(FALSE), Line("old", "none"), Line("new", "none"), Hunk(7), Line("plus", "a"), Ctx>>,
    <<Hunk(1), Ctx, Ctx, Line("plus", "a"), Ctx, Ctx>>,
    <<Hunk(9), Ctx, Line("minus", "a"), Line("minus3", "b")>>,
    <<Hunk(5), Named(Line("plus", "b")), Ctx, Ctx, Ctx>>,
    <<Line("old", "none")>>,
    <<Line("minus3", "b")>>,
    <<Line("binary", "none")>>,
    <<Line("rename", "none")>>,
    <<Line("nonewline", "none")>> }

MCQuery == {"query"}
=============================================================================
