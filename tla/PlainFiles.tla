----------------------------- MODULE PlainFiles -----------------------------
(***************************************************************************)
(* What the users of the file system expect of it: every path is one file, *)
(* a write takes effect at once and for everyone, a read returns what was  *)
(* written last.  No copies, no transfers.                                 *)
(***************************************************************************)
CONSTANTS
    Paths, Blocks,
    Version(_, _)   \* Version(p, b): the values block b of path p may hold

VARIABLES
    file,       \* [Paths -> [Blocks -> value]]
    last        \* the last read or write: [by, path, block, val]

vars == <<file, last>>

Init ==
    /\ file \in [Paths -> [Blocks -> UNION {Version(p, b) : p \in Paths, b \in Blocks}]]
    /\ \A p \in Paths, b \in Blocks : file[p][b] \in Version(p, b)
    /\ last = << >>

Write(p, b, v) ==
    /\ file' = [file EXCEPT ![p][b] = v]
    /\ last' = [by |-> "write", path |-> p, block |-> b, val |-> v]

Read(p, b) ==
    /\ last' = [by |-> "read", path |-> p, block |-> b, val |-> file[p][b]]
    /\ UNCHANGED file

Next ==
    \E p \in Paths, b \in Blocks :
        \/ \E v \in Version(p, b) : Write(p, b, v)
        \/ Read(p, b)

Spec == Init /\ [][Next]_vars
=============================================================================
