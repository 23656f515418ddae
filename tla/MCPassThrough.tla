--------------------------- MODULE MCPassThrough ---------------------------
(***************************************************************************)
(* A small tree for PassThrough: two names, one of which may be a          *)
(* directory with an entry.  Inodes and handles are interchangeable.       *)
(***************************************************************************)
EXTENDS PassThrough, TLC

CONSTANTS i1, i2, h1, h2

TwoLevels == {<< >>, <<"a">>, <<"b">>, <<"a", "b">>}

(* No action looks at the answer to the call before, and properties of    *)
(* steps are checked for every step, also one that leads to a state known  *)
(* but for its answer: states that differ in that alone count as one.      *)
ButTheAnswer == <<fs, at, node, fds, handle, stream>>

Interchangeable == Permutations({i1, i2}) \cup Permutations({h1, h2})
=============================================================================
