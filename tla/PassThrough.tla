---------------------------- MODULE PassThrough ----------------------------
(***************************************************************************)
(* File systems that hand the calls of FUSE on to another tree: bbfs       *)
(* (AOS2/src/bbfs.c) to a directory of the same machine, and the network   *)
(* file system (AOS2/client_fs.c and server_fs.c, "netfs" here) to a       *)
(* directory of the server.  An action is one call of a user: what the     *)
(* kernel and libfuse make of it and the handlers that run, one after the  *)
(* other.  `at' is the tree below the directory that is handed on.         *)
(*                                                                         *)
(* libfuse gives a file that is deleted, or replaced, while it is open a   *)
(* secret name, and deletes it when it is released.  Secret names show in  *)
(* listings; here users do not use them.                                   *)
(*                                                                         *)
(* bbfs keeps a descriptor (a DIR for directories) in fi->fh for what is   *)
(* open.  netfs has a copy on the client's machine for an open file, and   *)
(* no open directories.  What is in the copies, and the descriptors netfs  *)
(* leaves behind, are in FileSessions, the datagrams in UdpRpc: here a     *)
(* copy may hold anything, and scp may fail.                               *)
(***************************************************************************)
EXTENDS Trees, Naturals

CONSTANTS
    Systems,        \* those to look at: bbfs, netfs
    Paths,          \* paths of the mount that users name
    SecretNames,    \* names libfuse gives
    Inodes, Handles, Streams, Data, Kinds,
    MaxFds          \* descriptors the process may have, log and FUSE's aside

VARIABLES
    fs,         \* the file system that is mounted
    at, node,   \* the tree it hands on
    fds,        \* bbfs: what its descriptors are open on
    handle,     \* open files: the path libfuse has, fi->fh, references
    stream,     \* open directories
    last        \* the answer to the last call

vars == <<fs, at, node, fds, handle, stream, last>>

Fds == 1 .. MaxFds
Contents == {Empty} \cup {{d} : d \in Data}
NoFile == [st |-> "none", path |-> << >>, fh |-> 0, refs |-> 0, file |-> None]
NoDir == [fh |-> 0, dir |-> None, read |-> FALSE]

Secret(d) == {Append(d, n) : n \in SecretNames}
AllPaths == Paths \cup UNION {Secret(Front(p)) : p \in Paths \ {<< >>}}

ASSUME PassThroughAssumption ==
    /\ Systems \subseteq {"bbfs", "netfs"}
    /\ << >> \in Paths /\ \A p \in Paths \ {<< >>} : Front(p) \in Paths
    /\ \A p \in Paths : p \in Seq(Range(p) \ SecretNames)   \* users name no secret
    /\ IsFiniteSet(Handles) /\ IsFiniteSet(SecretNames)      \* libfuse finds one
    /\ Cardinality(Handles) <= Cardinality(SecretNames)
    /\ Root \in Inodes /\ None \notin Inodes
    /\ None \notin {"file", "dir", "link"} /\ Kinds \cap {"free", "dir", "link"} = {}
    /\ MaxFds \in Nat

Answer(call, of, ok, val) == last' = [call |-> call, of |-> of, ok |-> ok, val |-> val]
Done == Answer("change", << >>, TRUE, {})
Refuse == Answer("change", << >>, FALSE, {}) /\ UNCHANGED <<fs, at, node, fds, handle, stream>>
Tell(call, of, ok, val) == Answer(call, of, ok, val) /\ UNCHANGED <<fs, at, node, fds, handle, stream>>

Init ==
    /\ fs \in Systems
    /\ at = [p \in AllPaths |-> IF p = << >> THEN Root ELSE None]
    /\ node = [i \in Inodes |-> IF i = Root THEN [Free EXCEPT !.kind = "dir"] ELSE Free]
    /\ fds = [n \in Fds |-> None]
    /\ handle = [h \in Handles |-> NoFile]
    /\ stream = [s \in Streams |-> NoDir]
    /\ last = [call |-> "change", of |-> << >>, ok |-> TRUE, val |-> {}]

FreeFds == {n \in Fds : fds[n] = None}
LowestFd == CHOOSE n \in FreeFds : \A m \in FreeFds : n <= m
OpenInodes(table) == {table[n] : n \in Fds}

----------------------------------------------------------------------------
(* Calls that change names *)

Add(p, kind, data) ==
    /\ CanCreate(at, node, p)
    /\ \E i \in Inodes :
          /\ node[i] = Free
          /\ node' = [node EXCEPT ![i] = [kind |-> kind, data |-> data, perm |-> TRUE]]
          /\ at' = [at EXCEPT ![p] = i]
    /\ UNCHANGED <<fs, fds, handle, stream>>

Create(p, kind, data) == Add(p, kind, data) /\ Done

(* Slip: the descriptor is not closed. *)
MknodLeaks(p, kind) ==
    /\ fs = "bbfs"
    /\ CanCreate(at, node, p) /\ FreeFds # {}
    /\ \E i \in Inodes :
          /\ node[i] = Free
          /\ node' = [node EXCEPT ![i] = [kind |-> kind, data |-> Empty, perm |-> TRUE]]
          /\ at' = [at EXCEPT ![p] = i]
          /\ fds' = [fds EXCEPT ![LowestFd] = i]
    /\ Done
    /\ UNCHANGED <<fs, handle, stream>>

(* bbfs creates a regular file with an open() of its own, closed at once *)
Mknod(p, kind) ==
    /\ fs = "bbfs"
    /\ \/ (kind = "file" => FreeFds # {}) /\ Create(p, kind, Empty)
       \/ ((kind = "file" /\ FreeFds = {}) \/ ~CanCreate(at, node, p)) /\ Refuse

(* The server's handler looks at no type of file; the kernel, which finds  *)
(* another than it has asked for, answers EIO.                             *)
MknodServed(p, kind) ==
    /\ fs = "netfs"
    /\ \/ Add(p, "file", Empty) /\ Answer("change", << >>, kind = "file", {})
       \/ ~CanCreate(at, node, p) /\ Refuse

Mkdir(p) ==
    \/ Create(p, "dir", Empty)
    \/ ~CanCreate(at, node, p) /\ Refuse

(* A link's data is its target. *)
Symlink(to, from) ==
    /\ fs = "bbfs"
    /\ \/ Create(from, "link", {to})
       \/ ~CanCreate(at, node, from) /\ Refuse

Rooted(to) == {Root, to}

(* fullpath(f_to, to): the server puts its directory before the target *)
SymlinkServed(to, from) ==
    /\ fs = "netfs"
    /\ \/ Create(from, "link", Rooted(to))
       \/ ~CanCreate(at, node, from) /\ Refuse

(* libfuse: some handle has the file open under this path *)
IsOpen(p) == \E h \in Handles : handle[h].st # "none" /\ handle[h].path = p

SecretFor(p) == CHOOSE q \in Secret(Front(p)) : at[q] = None

Follow(table, from, to) ==
    [h \in Handles |-> [table[h] EXCEPT !.path = Renamed(@, from, to)]]

(* The tree becomes new, the paths libfuse has those of table. *)
Change(new, table) ==
    /\ at' = new
    /\ node' = Collect(new, OpenInodes(fds), node)
    /\ handle' = table
    /\ Done
    /\ UNCHANGED <<fs, fds, stream>>

(* Slip: deleted at once, open or not. *)
UnlinkAtOnce(p) ==
    \/ CanUnlink(at, node, p) /\ Change(Without(at, p), handle)
    \/ ~CanUnlink(at, node, p) /\ Refuse

(* bb_unlink, or bb_rename to a secret name *)
Unlink(p) ==
    \/ CanUnlink(at, node, p) /\ ~IsOpen(p) /\ Change(Without(at, p), handle)
    \/ /\ CanUnlink(at, node, p) /\ IsOpen(p)
       /\ Change(Move(at, p, SecretFor(p)), Follow(handle, p, SecretFor(p)))
    \/ ~CanUnlink(at, node, p) /\ Refuse

Rmdir(p) ==
    \/ CanRmdir(at, node, p) /\ Change(Without(at, p), handle)
    \/ ~CanRmdir(at, node, p) /\ Refuse

Link(from, to) ==
    \/ CanLink(at, node, from, to) /\ Change([at EXCEPT ![to] = at[from]], handle)
    \/ ~CanLink(at, node, from, to) /\ Refuse

(* rename(2) does nothing with two links of one file. *)
RenameCall(tree, from, to) == IF tree[from] = tree[to] THEN tree ELSE Move(tree, from, to)

(* bb_rename; before it, one that gives a secret name to what is replaced. *)
Rename(from, to) ==
    /\ from # to
    /\ HasRoom(at, from, to)
    /\ \/ /\ CanRename(at, node, from, to)
          /\ \/ ~IsOpen(to)
                /\ Change(RenameCall(at, from, to), Follow(handle, from, to))
             \/ IsOpen(to)
                /\ Change(RenameCall(Move(at, to, SecretFor(to)), from, to),
                          Follow(Follow(handle, to, SecretFor(to)), from, to))
       \/ ~CanRename(at, node, from, to) /\ Refuse

----------------------------------------------------------------------------
(* Calls that concern a file by its path *)

Alter(i, new) ==
    /\ node' = [node EXCEPT ![i] = new]
    /\ Done
    /\ UNCHANGED <<fs, at, fds, handle, stream>>

(* The kernel looks a path up first, and has followed links. *)
Getattr(p) == IF at[p] = None THEN None ELSE node[at[p]].kind

(* The mode is one bit, whether users may read, write and list; a call that *)
(* sets it to what it is changes nothing.                                   *)
Chmod(p) ==
    \/ Getattr(p) \notin {None, "link"} /\ Alter(at[p], [node[at[p]] EXCEPT !.perm = ~@])
    \/ at[p] = None /\ Refuse

MayWrite(p) == Getattr(p) = "file" /\ node[at[p]].perm

Truncate(p) ==
    /\ fs = "bbfs"
    /\ \/ MayWrite(p) /\ Alter(at[p], [node[at[p]] EXCEPT !.data = Empty])
       \/ ~MayWrite(p) /\ Refuse

(* truncate(path) on the client's own machine; libfuse calls it for        *)
(* ftruncate() too                                                         *)
TruncateLocal(p) ==
    /\ fs = "netfs"
    /\ \E ok \in BOOLEAN : Tell("change", << >>, ok, {})

Readlink(p) ==
    /\ Getattr(p) = "link"
    /\ Tell("readlink", p, TRUE, node[at[p]].data)

Access(p) ==
    /\ Getattr(p) # "link"
    /\ \/ at[p] # None /\ node[at[p]].perm /\ Tell("access", p, TRUE, {})
       \/ (at[p] # None => ~node[at[p]].perm) /\ Refuse

----------------------------------------------------------------------------
(* Open files; they are opened for reading and writing *)

Open(h, p) ==
    LET may == MayWrite(p) /\ FreeFds # {} IN
    /\ fs = "bbfs"
    /\ handle[h].st = "none"
    /\ \/ /\ may
          /\ fds' = [fds EXCEPT ![LowestFd] = at[p]]
          /\ handle' = [handle EXCEPT ![h] = [st |-> "open", path |-> p, fh |-> LowestFd,
                                              refs |-> 1, file |-> at[p]]]
          /\ Done
          /\ UNCHANGED <<fs, at, node, stream>>
       \/ ~may /\ Refuse

(* The server opens the file and closes it; scp makes the copy, or the     *)
(* client finds none.                                                      *)
OpenServed(h, p) ==
    /\ fs = "netfs"
    /\ handle[h].st = "none"
    /\ \/ /\ MayWrite(p)
          /\ handle' = [handle EXCEPT ![h] = [st |-> "open", path |-> p, fh |-> 0,
                                              refs |-> 1, file |-> at[p]]]
          /\ Done
          /\ UNCHANGED <<fs, at, node, fds, stream>>
       \/ Refuse

(* The copy has the name of the path libfuse has now. *)
ReadServed(h) ==
    /\ fs = "netfs"
    /\ handle[h].st = "open"
    /\ \/ \E val \in Contents : Tell("read", <<h>>, TRUE, val)
       \/ Refuse

WriteServed(h) ==
    /\ fs = "netfs"
    /\ handle[h].st = "open"
    /\ \E ok \in BOOLEAN : Tell("change", << >>, ok, {})

(* pread, pwrite and ftruncate on fi->fh *)
Read(h) ==
    LET i == fds[handle[h].fh] IN
    /\ fs = "bbfs"
    /\ handle[h].st = "open"
    /\ i # None
    /\ Tell("read", <<h>>, TRUE, node[i].data)

Write(h, d) ==
    LET i == fds[handle[h].fh] IN
    /\ fs = "bbfs"
    /\ handle[h].st = "open"
    /\ i # None
    /\ Alter(i, [node[i] EXCEPT !.data = {d}])

Ftruncate(h) ==
    LET i == fds[handle[h].fh] IN
    /\ fs = "bbfs"
    /\ handle[h].st = "open"
    /\ i # None
    /\ Alter(i, [node[i] EXCEPT !.data = Empty])

(* dup() or fork() in the user's process *)
Dup(h) ==
    /\ handle[h].st = "open" /\ handle[h].refs = 1
    /\ handle' = [handle EXCEPT ![h].refs = 2]
    /\ UNCHANGED <<fs, at, node, fds, stream, last>>

Closing(h) == IF fs = "bbfs" THEN [fds EXCEPT ![handle[h].fh] = None] ELSE fds

(* Slip: the descriptor is closed at the first flush. *)
FlushCloses(h) == fds' = Closing(h)

(* bb_flush does nothing, and netfs has none *)
Flush(h) == UNCHANGED fds

(* close(): the kernel asks for a flush each time *)
Close(h) ==
    /\ handle[h].st = "open"
    /\ Flush(h)
    /\ handle' = [handle EXCEPT ![h].refs = @ - 1,
                                ![h].st = IF handle[h].refs = 1 THEN "closed" ELSE "open"]
    /\ UNCHANGED <<fs, at, node, stream, last>>

(* What the release makes of the files: scp of netfs sends the copy back,  *)
(* whatever it holds, if the file may be written and scp does not fail.    *)
Returned(h) ==
    {node} \cup
    {[node EXCEPT ![at[handle[h].path]].data = d] :
        d \in IF fs = "netfs" /\ node[at[handle[h].path]].perm THEN Contents ELSE {}}

(* bb_release or xmp_release, some time after the last close; then libfuse *)
(* deletes a file with a secret name unless it is still open.              *)
Release(h) ==
    LET p == handle[h].path
        others == \E g \in Handles \ {h} : handle[g].st # "none" /\ handle[g].path = p
    IN
    /\ handle[h].st = "closed"
    /\ handle' = [handle EXCEPT ![h] = NoFile]
    /\ fds' = Closing(h)
    /\ at' = IF Last(p) \in SecretNames /\ ~others THEN Without(at, p) ELSE at
    /\ \E new \in Returned(h) : node' = Collect(at', OpenInodes(fds'), new)
    /\ UNCHANGED <<fs, stream, last>>

----------------------------------------------------------------------------
(* Directories *)

Opendir(s, p) ==
    LET may == IsDir(at, node, p) /\ node[at[p]].perm /\ FreeFds # {} IN
    /\ fs = "bbfs"
    /\ stream[s] = NoDir
    /\ \/ /\ may
          /\ fds' = [fds EXCEPT ![LowestFd] = at[p]]
          /\ stream' = [stream EXCEPT ![s] = [fh |-> LowestFd, dir |-> at[p], read |-> FALSE]]
          /\ Done
          /\ UNCHANGED <<fs, at, node, handle>>
       \/ ~may /\ Refuse

(* The first reading goes to the end of the DIR, which nobody rewinds.  In *)
(* the next, readdir() returns NULL at once and what is answered is -errno *)
(* as some call before has left it, 0 (no error, an empty directory)       *)
(* included.  The kernel asks for no reading of a deleted directory.       *)
Readdir(s) ==
    LET i == fds[stream[s].fh] IN
    /\ stream[s] # NoDir
    /\ \E p \in Paths : at[p] = i
    /\ \/ ~stream[s].read /\ Answer("readdir", <<s>>, TRUE, Listing(at, i))
       \/ stream[s].read /\ \E ok \in BOOLEAN : Answer("readdir", <<s>>, ok, {})
    /\ stream' = [stream EXCEPT ![s].read = TRUE]
    /\ UNCHANGED <<fs, at, node, fds, handle>>

Releasedir(s) ==
    /\ stream[s] # NoDir
    /\ fds' = [fds EXCEPT ![stream[s].fh] = None]
    /\ stream' = [stream EXCEPT ![s] = NoDir]
    /\ node' = Collect(at, OpenInodes(fds'), node)
    /\ UNCHANGED <<fs, at, handle, last>>

(* The server opens, reads and closes the directory in one call, and the   *)
(* client answers 0 also when it was refused.                              *)
ReaddirServed(p) ==
    /\ fs = "netfs"
    /\ IsDir(at, node, p)
    /\ Tell("list", p, TRUE, IF node[at[p]].perm THEN Listing(at, at[p]) ELSE {})

----------------------------------------------------------------------------
(* The root itself is only opened and listed; its mode stays what it is. *)
Named ==
    \E p \in Paths \ {<< >>} :
        \/ \E kind \in Kinds : Mknod(p, kind) \/ MknodServed(p, kind)
        \/ Mkdir(p) \/ Unlink(p) \/ Rmdir(p)
        \/ \E to \in Data : Symlink(to, p) \/ SymlinkServed(to, p)
        \/ \E q \in Paths \ {<< >>} : Link(p, q) \/ Rename(p, q)
        \/ Chmod(p) \/ Truncate(p) \/ TruncateLocal(p) \/ Readlink(p) \/ Access(p)

Looked == \E p \in Paths : ReaddirServed(p)

Opened ==
    \/ \E h \in Handles :
          \/ \E p \in Paths \ {<< >>} : Open(h, p) \/ OpenServed(h, p)
          \/ \E d \in Data : Write(h, d)
          \/ ReadServed(h) \/ WriteServed(h)
          \/ Read(h) \/ Ftruncate(h) \/ Dup(h) \/ Close(h) \/ Release(h)
    \/ \E s \in Streams :
          \/ \E p \in Paths : Opendir(s, p)
          \/ Readdir(s) \/ Releasedir(s)

Next == Named \/ Looked \/ Opened

Spec == Init /\ [][Next]_vars

----------------------------------------------------------------------------
(* Properties *)

(* The path libfuse has of an open file leads to it. *)
TypeOK ==
    /\ fs \in Systems
    /\ at \in [AllPaths -> Inodes \cup {None}]
    /\ fds \in [Fds -> Inodes \cup {None}]
    /\ \A h \in Handles : handle[h].st # "none" => at[handle[h].path] = handle[h].file
    /\ \A p \in AllPaths : at[p] # None => node[at[p]] # Free

(* Users see PosixFiles, but for the weaknesses listed: a call takes effect*)
(* as a whole or not at all, what was open when it lost its name is kept   *)
(* until its last close and no longer, and all that shows of it is one     *)
(* secret name while it is open.                                           *)
Weakness ==
    IF fs = "bbfs" THEN {"hides", "once"}
    ELSE {"hides", "regular", "rooted", "local", "mute", "copies"}

AsPosix == INSTANCE PosixFiles WITH
    at <- [p \in Paths |-> at[p]],
    handle <- [h \in Handles |-> [st |-> handle[h].st, file |-> handle[h].file]],
    stream <- [s \in Streams |-> [dir |-> stream[s].dir, read |-> stream[s].read]],
    weak <- Weakness

ImplementsPosixFiles == AsPosix!Spec

(* Every descriptor of bbfs belongs to one open file or directory, and is  *)
(* open on what that was opened on: none is lost, none is used twice.      *)
DescriptorsInUse ==
    LET users == {<<"file", h>> : h \in {g \in Handles : fs = "bbfs" /\ handle[g].st # "none"}}
                 \cup {<<"dir", s>> : s \in {t \in Streams : stream[t] # NoDir}}
        Fh(u) == IF u[1] = "file" THEN handle[u[2]].fh ELSE stream[u[2]].fh
        On(u) == IF u[1] = "file" THEN handle[u[2]].file ELSE stream[u[2]].dir
    IN  /\ \A n \in Fds : fds[n] # None => \E u \in users : Fh(u) = n
        /\ \A u \in users : fds[Fh(u)] = On(u) /\ \A v \in users \ {u} : Fh(u) # Fh(v)
=============================================================================
