--------------------------- MODULE MCFileSessions ---------------------------
(***************************************************************************)
(* The names in /tmp of FileSessions: every path has the same, the         *)
(* collision that hash_path gives two-letter names.  Mounts, and paths,    *)
(* are alike.                                                              *)
(***************************************************************************)
EXTENDS FileSessions, TLC

CollidingKey == [p \in Paths |-> 1]

Alike == Permutations(Mounts) \cup Permutations(Paths)
=============================================================================
