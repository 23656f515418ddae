----------------------------- MODULE PosixFiles -----------------------------
(***************************************************************************)
(* What the users of a mounted file system expect of it: one tree, in      *)
(* which every call takes effect as a whole or is refused without effect,  *)
(* and descriptors that stay with the file they were opened on whatever    *)
(* becomes of its name.  The weaknesses name the promises a file system    *)
(* does not keep:                                                          *)
(*   hides    a deleted file that is still open keeps a secret name, which *)
(*            a listing of its directory shows                             *)
(*   once     a directory stream can be read only once                     *)
(*   regular  a regular file is created whatever node is asked for, and    *)
(*            any other call than for a regular file is said to have failed*)
(*   rooted   the target of a symbolic link is changed                     *)
(*   local    truncate and chown do not concern the file                   *)
(*   mute     a directory that may not be listed seems empty               *)
(*   copies   an open file is read and written in a copy, which may hold   *)
(*            anything and is put back when it is released, or is not      *)
(***************************************************************************)
EXTENDS Trees

CONSTANTS Paths, SecretNames, Inodes, Handles, Streams, Data, Kinds

VARIABLES
    at,         \* [Paths -> Inodes or None]
    node,       \* [Inodes -> [kind, data, perm]]
    handle,     \* [Handles -> [st, file]]: open files
    stream,     \* [Streams -> [dir, read]]: open directories
    weak,       \* the weaknesses of the file system
    last        \* the answer to the last call

vars == <<at, node, handle, stream, weak, last>>

Answer(call, of, ok, val) == last' = [call |-> call, of |-> of, ok |-> ok, val |-> val]

Held(hs, ss) ==
    {hs[h].file : h \in {g \in Handles : hs[g].st # "none"}} \cup {ss[s].dir : s \in Streams}

Weaknesses == {"hides", "once", "regular", "rooted", "local", "mute", "copies"}

Contents == {Empty} \cup {{d} : d \in Data}

Init ==
    /\ weak \in SUBSET Weaknesses
    /\ at = [p \in Paths |-> IF p = << >> THEN Root ELSE None]
    /\ node = [i \in Inodes |-> IF i = Root THEN [Free EXCEPT !.kind = "dir"] ELSE Free]
    /\ handle = [h \in Handles |-> [st |-> "none", file |-> None]]
    /\ stream = [s \in Streams |-> [dir |-> None, read |-> FALSE]]
    /\ last = [call |-> "change", of |-> << >>, ok |-> TRUE, val |-> {}]

(* A call may be refused, for want of a descriptor or because the tree     *)
(* does not allow it. Then it has no effect.                               *)
Refuse ==
    /\ Answer("change", << >>, FALSE, {})
    /\ UNCHANGED <<at, node, handle, stream>>

(* mknod, mkdir, symlink *)
Create(p, kind, data) ==
    /\ CanCreate(at, node, p)
    /\ UNCHANGED <<handle, stream>>
    /\ \E i \in Inodes :
          /\ node[i] = Free
          /\ node' = [node EXCEPT ![i] = [kind |-> kind, data |-> data, perm |-> TRUE]]
          /\ at' = [at EXCEPT ![p] = i]

(* a call said to have failed *)
MakeRegular(p) == "regular" \in weak /\ Create(p, "file", Empty)

Symlink(to, p) ==
    Create(p, "link", {to} \cup (IF "rooted" \in weak THEN {Root} ELSE {}))

(* The tree becomes new. *)
Change(new) ==
    /\ at' = new
    /\ UNCHANGED <<handle, stream>>
    /\ node' = Collect(new, Held(handle, stream), node)

Unlink(p) == CanUnlink(at, node, p) /\ Change(Without(at, p))

Rmdir(p) == CanRmdir(at, node, p) /\ Change(Without(at, p))

Link(from, to) == CanLink(at, node, from, to) /\ Change([at EXCEPT ![to] = at[from]])

(* Two names of one file both stay, unless it is open and the system hides.*)
Rename(from, to) ==
    /\ CanRename(at, node, from, to)
    /\ \/ at[from] = at[to] /\ Change(at)
       \/ /\ at[from] = at[to] =>
                "hides" \in weak /\ \E h \in Handles : handle[h].file = at[to]
          /\ Change(Move(at, from, to))

(* chmod and the calls that write *)
Alter(i, new) ==
    /\ UNCHANGED <<at, handle, stream>>
    /\ node' = [node EXCEPT ![i] = new]

Chmod(p) == at[p] # None /\ Alter(at[p], [node[at[p]] EXCEPT !.perm = ~@])

Truncate(p) ==
    /\ "local" \notin weak
    /\ at[p] # None /\ node[at[p]].kind = "file" /\ node[at[p]].perm
    /\ Alter(at[p], [node[at[p]] EXCEPT !.data = Empty])

(* a truncate that does not concern the file, a write to a copy *)
Nothing ==
    /\ weak \cap {"local", "copies"} # {}
    /\ UNCHANGED <<at, node, handle, stream>>

Access(p) ==
    /\ at[p] # None /\ node[at[p]].perm
    /\ Answer("access", p, TRUE, {})
    /\ UNCHANGED <<at, node, handle, stream>>

Readlink(p) ==
    /\ at[p] # None /\ node[at[p]].kind = "link"
    /\ Answer("readlink", p, TRUE, node[at[p]].data)
    /\ UNCHANGED <<at, node, handle, stream>>

Open(h, p) ==
    /\ handle[h].st = "none"
    /\ at[p] # None /\ node[at[p]].kind = "file" /\ node[at[p]].perm
    /\ handle' = [handle EXCEPT ![h] = [st |-> "open", file |-> at[p]]]
    /\ UNCHANGED <<at, node, stream>>

Read(h) ==
    /\ handle[h].st = "open"
    /\ \E val \in {node[handle[h].file].data} \cup (IF "copies" \in weak THEN Contents ELSE {}) :
          Answer("read", <<h>>, TRUE, val)
    /\ UNCHANGED <<at, node, handle, stream>>

(* write and ftruncate *)
Write(h, data) ==
    /\ handle[h].st = "open"
    /\ Alter(handle[h].file, [node[handle[h].file] EXCEPT !.data = data])

Close(h) ==
    /\ handle[h].st = "open"
    /\ handle' = [handle EXCEPT ![h].st = "closed"]
    /\ UNCHANGED <<at, node, stream, last>>

(* some time later *)
Release(h) ==
    /\ handle[h].st = "closed"
    /\ handle' = [handle EXCEPT ![h] = [st |-> "none", file |-> None]]
    /\ \/ node' = Collect(at, Held(handle', stream), node)
       \/ /\ "copies" \in weak
          /\ \E data \in Contents :
                node' = Collect(at, Held(handle', stream),
                                [node EXCEPT ![handle[h].file].data = data])
    /\ UNCHANGED <<at, stream, last>>

Opendir(s, p) ==
    /\ stream[s].dir = None
    /\ IsDir(at, node, p) /\ node[at[p]].perm
    /\ stream' = [stream EXCEPT ![s] = [dir |-> at[p], read |-> FALSE]]
    /\ UNCHANGED <<at, node, handle>>

(* Secret names that may show: each is that of an open file. *)
Hidden ==
    {x \in SUBSET SecretNames :
        \E of \in [x -> {h \in Handles : handle[h].st # "none"}] : IsInjective(of)}

Shown(i) ==
    {Listing(at, i) \cup x : x \in IF "hides" \in weak THEN Hidden ELSE {{}}}

Readdir(s) ==
    /\ stream[s].dir # None
    /\ \/ \E names \in Shown(stream[s].dir) : Answer("readdir", <<s>>, TRUE, names)
       \/ /\ "once" \in weak /\ stream[s].read
          /\ \E ok \in BOOLEAN : Answer("readdir", <<s>>, ok, {})
    /\ stream' = [stream EXCEPT ![s].read = TRUE]
    /\ UNCHANGED <<at, node, handle>>

(* the listing of a file system without open directories *)
List(p) ==
    LET may == IsDir(at, node, p) /\ node[at[p]].perm IN
    /\ may \/ "mute" \in weak
    /\ \E names \in IF may THEN Shown(at[p]) ELSE {{}} : Answer("list", p, TRUE, names)
    /\ UNCHANGED <<at, node, handle, stream>>

Closedir(s) ==
    /\ stream[s].dir # None
    /\ stream' = [stream EXCEPT ![s] = [dir |-> None, read |-> FALSE]]
    /\ node' = Collect(at, Held(handle, stream'), node)
    /\ UNCHANGED <<at, handle, last>>

Named(p) ==
    \/ \E kind \in Kinds \cup {"dir"} : Create(p, kind, Empty)
    \/ \E to \in Data : Symlink(to, p)
    \/ Unlink(p) \/ Rmdir(p) \/ Chmod(p) \/ Truncate(p)
    \/ \E q \in Paths \ {<< >>} : Link(p, q) \/ Rename(p, q)
    \/ \E h \in Handles : Open(h, p)

Next ==
    /\ UNCHANGED weak
    /\ \/ Refuse
       \/ /\ Answer("change", << >>, TRUE, {})
          /\ \/ Nothing
             \/ \E p \in Paths \ {<< >>} : Named(p)
             \/ \E h \in Handles, data \in Contents : Write(h, data)
             \/ \E p \in Paths, s \in Streams : Opendir(s, p)
       \/ Answer("change", << >>, FALSE, {}) /\ \E p \in Paths \ {<< >>} : MakeRegular(p)
       \/ \E h \in Handles : Read(h) \/ Close(h) \/ Release(h)
       \/ \E s \in Streams : Readdir(s) \/ Closedir(s)
       \/ \E p \in Paths : Readlink(p) \/ Access(p) \/ List(p)

Spec == Init /\ [][Next]_vars
=============================================================================
