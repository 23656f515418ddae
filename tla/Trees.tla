------------------------------- MODULE Trees -------------------------------
(***************************************************************************)
(* A directory tree as the system calls of Linux see it: which inode a     *)
(* path leads to, and when a call that changes the tree is allowed.  The   *)
(* calls follow no symbolic links (the kernel has followed them before it  *)
(* asks a FUSE file system) and permissions of directories other than to   *)
(* list them are left out.                                                 *)
(***************************************************************************)
EXTENDS SequencesExt

CONSTANT None

Empty == {}         \* the contents of a new file: it holds none of the data

Root == "root"      \* the inode of << >>

Free == [kind |-> "free", data |-> Empty, perm |-> TRUE]

IsDir(at, node, p) == p \in DOMAIN at /\ at[p] # None /\ node[at[p]].kind = "dir"

Entries(at, d) == {p \in DOMAIN at \ {<< >>} : at[p] # None /\ Front(p) = d}

(* The names of the directory i *)
Listing(at, i) == {Last(p) : p \in UNION {Entries(at, d) : d \in {q \in DOMAIN at : at[q] = i}}}

CanCreate(at, node, p) == at[p] = None /\ IsDir(at, node, Front(p))

CanUnlink(at, node, p) == at[p] # None /\ ~IsDir(at, node, p)

CanRmdir(at, node, p) == IsDir(at, node, p) /\ Entries(at, p) = {}

CanLink(at, node, from, to) == CanUnlink(at, node, from) /\ CanCreate(at, node, to)

CanRename(at, node, from, to) ==
    /\ at[from] # None
    /\ IsDir(at, node, Front(to))
    /\ ~IsPrefix(from, to)
    /\ at[to] # None =>
          IF IsDir(at, node, from) THEN CanRmdir(at, node, to) ELSE ~IsDir(at, node, to)

(* The path q after the rename of from, if q was below it *)
Renamed(q, from, to) ==
    IF IsPrefix(from, q) THEN to \o SubSeq(q, Len(from) + 1, Len(q)) ELSE q

(* The tree has room for what is below from. *)
HasRoom(at, from, to) ==
    \A q \in DOMAIN at : at[q] # None => Renamed(q, from, to) \in DOMAIN at

Without(at, p) == [at EXCEPT ![p] = None]

Move(at, from, to) ==
    [q \in DOMAIN at |->
        IF IsPrefix(to, q)
        THEN LET old == Renamed(q, to, from) IN IF old \in DOMAIN at THEN at[old] ELSE None
        ELSE IF IsPrefix(from, q) THEN None ELSE at[q]]

(* Inodes without a name that nobody has open are gone. *)
Collect(at, held, node) ==
    [i \in DOMAIN node |->
        IF i \in held \/ \E p \in DOMAIN at : at[p] = i THEN node[i] ELSE Free]
=============================================================================
