------------------------- MODULE PassThroughProofs -------------------------
(***************************************************************************)
(* For any tree, any number of open files, directories and descriptors:    *)
(* bbfs loses no descriptor, the paths libfuse has of open files lead to   *)
(* them, and users see PosixFiles.  Paths and their prefixes come first,   *)
(* then the tree and its moves, the calls one by one, and the refinement.  *)
(***************************************************************************)
EXTENDS PassThrough, FiniteSetTheorems, SequenceTheorems, WellFoundedInduction, TLAPS

(* open() and opendir() get a free descriptor. *)
LEMMA LowestIsFree ==
    ASSUME FreeFds # {}
    PROVE  LowestFd \in Fds /\ fds[LowestFd] = None
<1>1. FreeFds \subseteq Nat /\ FreeFds \subseteq Fds
  BY PassThroughAssumption DEF FreeFds, Fds
<1>2. PICK n \in FreeFds : \A m \in FreeFds : <<m, n>> \notin OpToRel(<, Nat)
  BY <1>1, NatLessThanWellFounded, WFMin
<1>3. \A m \in FreeFds : n <= m
  <2> SUFFICES ASSUME NEW m \in FreeFds PROVE n <= m
    OBVIOUS
  <2>1. ~(m < n)
    BY <1>1, <1>2 DEF OpToRel
  <2> QED BY <1>1, <2>1
<1>4. LowestFd \in FreeFds
  BY <1>2, <1>3 DEF LowestFd
<1> QED BY <1>1, <1>4 DEF FreeFds

----------------------------------------------------------------------------
Tables ==
    /\ DOMAIN fds = Fds
    /\ DOMAIN handle = Handles
    /\ DOMAIN stream = Streams
    /\ \A h \in Handles : DOMAIN handle[h] = {"st", "path", "fh", "refs", "file"}
    /\ \A s \in Streams : DOMAIN stream[s] = {"fh", "dir", "read"}

(* The open files that have a descriptor *)
IsHeld(h) == fs = "bbfs" /\ handle[h].st # "none"

(* What is open there has a descriptor, and it is open on that. *)
HoldersServed ==
    /\ \A h \in Handles : IsHeld(h) =>
          handle[h].fh \in Fds /\ handle[h].file # None /\ fds[handle[h].fh] = handle[h].file
    /\ \A s \in Streams : stream[s] # NoDir =>
          stream[s].fh \in Fds /\ stream[s].dir # None /\ fds[stream[s].fh] = stream[s].dir

NoneShared ==
    /\ \A h, g \in Handles : IsHeld(h) /\ IsHeld(g) /\ h # g => handle[h].fh # handle[g].fh
    /\ \A s, t \in Streams :
          stream[s] # NoDir /\ stream[t] # NoDir /\ s # t => stream[s].fh # stream[t].fh
    /\ \A h \in Handles, s \in Streams : IsHeld(h) /\ stream[s] # NoDir => handle[h].fh # stream[s].fh

NoneLost ==
    \A n \in Fds : fds[n] # None =>
        \/ \E h \in Handles : IsHeld(h) /\ handle[h].fh = n
        \/ \E s \in Streams : stream[s] # NoDir /\ stream[s].fh = n

FdInv == Tables /\ HoldersServed /\ NoneShared /\ NoneLost

(* The same open files, under other paths perhaps *)
SameFiles(table) ==
    /\ DOMAIN table = Handles
    /\ \A h \in Handles : /\ DOMAIN table[h] = {"st", "path", "fh", "refs", "file"}
                          /\ table[h].st = "none" <=> handle[h].st = "none"
                          /\ table[h].fh = handle[h].fh /\ table[h].file = handle[h].file

SameDirs(table) ==
    /\ DOMAIN table = Streams
    /\ \A s \in Streams : /\ DOMAIN table[s] = {"fh", "dir", "read"}
                          /\ table[s] = NoDir <=> stream[s] = NoDir
                          /\ table[s].fh = stream[s].fh /\ table[s].dir = stream[s].dir

LEMMA TablesAreSame == Tables => SameFiles(handle) /\ SameDirs(stream)
  BY DEF Tables, SameFiles, SameDirs

LEMMA SteadyKeeps ==
    FdInv /\ UNCHANGED <<fs, fds>> /\ SameFiles(handle') /\ SameDirs(stream') => FdInv'
  BY DEF FdInv, SameFiles, SameDirs, Tables, HoldersServed, NoneShared, NoneLost, IsHeld

LEMMA FollowIsSame ==
    ASSUME NEW table, SameFiles(table), NEW from, NEW to
    PROVE  SameFiles(Follow(table, from, to))
  BY DEF SameFiles, Follow

LEMMA ChangeKeeps ==
    ASSUME FdInv, NEW new, NEW table, SameFiles(table), Change(new, table)
    PROVE  FdInv'
<1>1. handle' = table /\ UNCHANGED <<fs, fds, stream>>
  BY DEF Change
<1>2. SameFiles(handle')
  BY <1>1 DEF SameFiles
<1>3. SameDirs(stream')
  BY <1>1, TablesAreSame DEF FdInv, SameDirs
<1> QED BY <1>1, <1>2, <1>3, SteadyKeeps

(* Calls that concern names or contents *)
LEMMA NamesKeep ==
    ASSUME FdInv, Named
    PROVE  FdInv'
<1>1. SameFiles(handle)
  BY TablesAreSame DEF FdInv
<1>2. \/ UNCHANGED <<fs, fds, handle, stream>>
      \/ \E new, table : SameFiles(table) /\ Change(new, table)
  <2>1. PICK p \in Paths \ {<< >>} :
           \/ \E kind \in Kinds : Mknod(p, kind) \/ MknodServed(p, kind)
           \/ Mkdir(p) \/ Unlink(p) \/ Rmdir(p)
           \/ \E to \in Data : Symlink(to, p) \/ SymlinkServed(to, p)
           \/ \E q \in Paths \ {<< >>} : Link(p, q) \/ Rename(p, q)
           \/ Chmod(p) \/ Truncate(p) \/ TruncateLocal(p) \/ Readlink(p) \/ Access(p)
    BY DEF Named
  <2>2. CASE Unlink(p)
    BY <1>1, <2>2, FollowIsSame DEF Unlink, Refuse
  <2>3. CASE Rmdir(p)
    BY <1>1, <2>3 DEF Rmdir, Refuse
  <2>4. ASSUME NEW q \in Paths, Link(p, q)
        PROVE  UNCHANGED <<fs, fds, handle, stream>> \/ \E new, table : SameFiles(table) /\ Change(new, table)
    BY <1>1, <2>4 DEF Link, Refuse
  <2>5. ASSUME NEW q \in Paths, Rename(p, q)
        PROVE  UNCHANGED <<fs, fds, handle, stream>> \/ \E new, table : SameFiles(table) /\ Change(new, table)
    <3>1. SameFiles(Follow(handle, p, q)) /\ SameFiles(Follow(handle, q, SecretFor(q)))
      BY <1>1, FollowIsSame
    <3>2. SameFiles(Follow(Follow(handle, q, SecretFor(q)), p, q))
      BY <3>1, FollowIsSame
    <3> QED BY <2>5, <3>1, <3>2 DEF Rename, Refuse
  <2>6. CASE \/ \E kind \in Kinds : Mknod(p, kind) \/ MknodServed(p, kind)
             \/ Mkdir(p)
             \/ \E to \in Data : Symlink(to, p) \/ SymlinkServed(to, p)
    BY <2>6 DEF Mknod, MknodServed, Mkdir, Symlink, SymlinkServed, Create, Add, Refuse
  <2>7. CASE Chmod(p) \/ Truncate(p) \/ TruncateLocal(p) \/ Readlink(p) \/ Access(p)
    BY <2>7 DEF Chmod, Truncate, TruncateLocal, Readlink, Access, Alter, Tell, Refuse
  <2> QED BY <2>1, <2>2, <2>3, <2>4, <2>5, <2>6, <2>7
<1>3. CASE UNCHANGED <<fs, fds, handle, stream>>
  <2>1. SameFiles(handle') /\ SameDirs(stream')
    BY <1>3, TablesAreSame DEF FdInv, SameFiles, SameDirs
  <2> QED BY <1>3, <2>1, SteadyKeeps
<1> QED BY <1>2, <1>3, ChangeKeeps

----------------------------------------------------------------------------
(* Open files and directories *)

LEMMA MayWriteIsThere ==
    ASSUME NEW p, MayWrite(p) \/ IsDir(at, node, p)
    PROVE  at[p] # None
  BY PassThroughAssumption DEF MayWrite, Getattr, IsDir

LEMMA RefuseKeeps == FdInv /\ UNCHANGED <<fs, fds, handle, stream>> => FdInv'
<1> SUFFICES ASSUME FdInv, UNCHANGED <<fs, fds, handle, stream>> PROVE FdInv'
  OBVIOUS
<1>1. SameFiles(handle') /\ SameDirs(stream')
  BY TablesAreSame DEF FdInv, SameFiles, SameDirs
<1> QED BY <1>1, SteadyKeeps

LEMMA OpenKeeps ==
    ASSUME FdInv, NEW h \in Handles, NEW p, Open(h, p)
    PROVE  FdInv'
<1>1. CASE UNCHANGED <<fs, fds, handle, stream>>
  BY <1>1, RefuseKeeps
<1>2. CASE ~UNCHANGED <<fs, fds, handle, stream>>
  <2> DEFINE n == LowestFd
  <2>1. fs = "bbfs" /\ MayWrite(p) /\ FreeFds # {} /\ ~IsHeld(h)
    BY <1>2 DEF Open, Refuse, IsHeld
  <2>2. n \in Fds /\ fds[n] = None /\ at[p] # None
    BY <2>1, LowestIsFree, MayWriteIsThere
  <2>3. /\ fds' = [fds EXCEPT ![n] = at[p]]
        /\ handle' = [handle EXCEPT ![h] = [st |-> "open", path |-> p, fh |-> n,
                                            refs |-> 1, file |-> at[p]]]
        /\ UNCHANGED <<fs, stream>>
    BY <1>2 DEF Open, Refuse
  <2> HIDE DEF n
  <2>4. /\ \A m \in Fds : fds'[m] = IF m = n THEN at[p] ELSE fds[m]
        /\ \A g \in Handles : g # h => handle'[g] = handle[g]
        /\ handle'[h].st = "open" /\ handle'[h].fh = n /\ handle'[h].file = at[p]
        /\ DOMAIN handle'[h] = {"st", "path", "fh", "refs", "file"}
    BY <2>3 DEF FdInv, Tables
  <2>5. Tables'
    BY <2>3, <2>4 DEF FdInv, Tables
  <2>6. HoldersServed'
    BY <2>2, <2>3, <2>4 DEF FdInv, HoldersServed, IsHeld
  <2>7. NoneShared'
    BY <2>2, <2>3, <2>4 DEF FdInv, NoneShared, HoldersServed, IsHeld
  <2>8. NoneLost'
    BY <2>1, <2>3, <2>4 DEF FdInv, NoneLost, IsHeld
  <2> QED BY <2>5, <2>6, <2>7, <2>8 DEF FdInv
<1> QED BY <1>1, <1>2

(* Without descriptors of open files there is nothing to keep. *)
LEMMA ServedKeeps ==
    ASSUME FdInv, fs # "bbfs", UNCHANGED <<fs, fds, stream>>, Tables'
    PROVE  FdInv'
  BY DEF FdInv, HoldersServed, NoneShared, NoneLost, IsHeld

LEMMA OpenServedKeeps ==
    ASSUME FdInv, NEW h \in Handles, NEW p, OpenServed(h, p)
    PROVE  FdInv'
<1>1. fs # "bbfs" /\ UNCHANGED <<fs, fds, stream>>
  BY DEF OpenServed, Refuse
<1>2. Tables'
  BY <1>1 DEF OpenServed, Refuse, FdInv, Tables
<1> QED BY <1>1, <1>2, ServedKeeps

LEMMA ReleaseKeeps ==
    ASSUME FdInv, NEW h \in Handles, Release(h)
    PROVE  FdInv'
<1> DEFINE n == handle[h].fh
<1>1. /\ handle' = [handle EXCEPT ![h] = NoFile]
      /\ UNCHANGED <<fs, stream>> /\ handle[h].st # "none"
  BY DEF Release
<1>2. /\ \A g \in Handles : g # h => handle'[g] = handle[g]
      /\ handle'[h].st = "none"
      /\ DOMAIN handle'[h] = {"st", "path", "fh", "refs", "file"}
  BY <1>1 DEF FdInv, Tables, NoFile
<1>3. Tables'
  BY <1>1, <1>2 DEF FdInv, Tables, Release, Closing
<1>4. CASE fs # "bbfs"
  <2>1. UNCHANGED fds
    BY <1>4 DEF Release, Closing
  <2> QED BY <1>1, <1>3, <1>4, <2>1, ServedKeeps
<1>5. CASE fs = "bbfs"
  <2>1. fds' = [fds EXCEPT ![n] = None] /\ IsHeld(h)
    BY <1>1, <1>5 DEF Release, Closing, IsHeld
  <2>2. n \in Fds
    BY <2>1 DEF FdInv, HoldersServed
  <2>3. \A m \in Fds : fds'[m] = IF m = n THEN None ELSE fds[m]
    BY <2>1 DEF FdInv, Tables
  <2>4. HoldersServed'
    BY <1>1, <1>2, <2>1, <2>3 DEF FdInv, HoldersServed, NoneShared, IsHeld
  <2>5. NoneShared'
    BY <1>1, <1>2 DEF FdInv, NoneShared, IsHeld
  <2>6. NoneLost'
    BY <1>1, <1>2, <2>3 DEF FdInv, NoneLost, IsHeld
  <2> QED BY <1>3, <2>4, <2>5, <2>6 DEF FdInv
<1> QED BY <1>4, <1>5

LEMMA OpendirKeeps ==
    ASSUME FdInv, NEW s \in Streams, NEW p, Opendir(s, p)
    PROVE  FdInv'
<1>1. CASE UNCHANGED <<fs, fds, handle, stream>>
  BY <1>1, RefuseKeeps
<1>2. CASE ~UNCHANGED <<fs, fds, handle, stream>>
  <2> DEFINE n == LowestFd
  <2>1. IsDir(at, node, p) /\ FreeFds # {} /\ stream[s] = NoDir
    BY <1>2 DEF Opendir, Refuse
  <2>2. n \in Fds /\ fds[n] = None /\ at[p] # None
    BY <2>1, LowestIsFree, MayWriteIsThere
  <2>3. /\ fds' = [fds EXCEPT ![n] = at[p]]
        /\ stream' = [stream EXCEPT ![s] = [fh |-> n, dir |-> at[p], read |-> FALSE]]
        /\ UNCHANGED <<fs, handle>>
    BY <1>2 DEF Opendir, Refuse
  <2> HIDE DEF n
  <2>4. /\ \A m \in Fds : fds'[m] = IF m = n THEN at[p] ELSE fds[m]
        /\ \A t \in Streams : t # s => stream'[t] = stream[t]
        /\ stream'[s].fh = n /\ stream'[s].dir = at[p]
        /\ DOMAIN stream'[s] = {"fh", "dir", "read"}
    BY <2>3 DEF FdInv, Tables
  <2>5. stream'[s] # NoDir
    BY <2>2, <2>4 DEF NoDir
  <2>6. Tables'
    BY <2>3, <2>4 DEF FdInv, Tables
  <2>7. HoldersServed'
    BY <2>2, <2>3, <2>4 DEF FdInv, HoldersServed, IsHeld
  <2>8. NoneShared'
    BY <2>2, <2>3, <2>4 DEF FdInv, NoneShared, HoldersServed, IsHeld
  <2>9. NoneLost'
    BY <2>1, <2>3, <2>4, <2>5 DEF FdInv, NoneLost, IsHeld
  <2> QED BY <2>6, <2>7, <2>8, <2>9 DEF FdInv
<1> QED BY <1>1, <1>2

LEMMA ReleasedirKeeps ==
    ASSUME FdInv, NEW s \in Streams, Releasedir(s)
    PROVE  FdInv'
<1> DEFINE n == stream[s].fh
<1>1. /\ fds' = [fds EXCEPT ![n] = None]
      /\ stream' = [stream EXCEPT ![s] = NoDir]
      /\ UNCHANGED <<fs, handle>> /\ stream[s] # NoDir
  BY DEF Releasedir
<1>2. n \in Fds
  BY <1>1 DEF FdInv, HoldersServed
<1>3. \A m \in Fds : fds'[m] = IF m = n THEN None ELSE fds[m]
  BY <1>1 DEF FdInv, Tables
<1>4. /\ \A t \in Streams : t # s => stream'[t] = stream[t]
      /\ stream'[s] = NoDir
      /\ DOMAIN NoDir = {"fh", "dir", "read"}
  BY <1>1 DEF FdInv, Tables, NoDir
<1>5. Tables'
  BY <1>1, <1>4 DEF FdInv, Tables
<1>6. HoldersServed'
  BY <1>1, <1>3, <1>4 DEF FdInv, HoldersServed, NoneShared, IsHeld
<1>7. NoneShared'
  BY <1>1, <1>4 DEF FdInv, NoneShared, IsHeld
<1>8. NoneLost'
  BY <1>1, <1>3, <1>4 DEF FdInv, NoneLost, IsHeld
<1> QED BY <1>5, <1>6, <1>7, <1>8 DEF FdInv

(* read, write, dup and close leave the descriptors where they are. *)
LEMMA UseKeeps ==
    ASSUME FdInv, NEW h \in Handles, NEW d,
           \/ Read(h) \/ ReadServed(h) \/ Write(h, d) \/ WriteServed(h) \/ Ftruncate(h)
           \/ Dup(h) \/ Close(h)
    PROVE  FdInv'
<1>1. CASE Read(h) \/ ReadServed(h) \/ Write(h, d) \/ WriteServed(h) \/ Ftruncate(h)
  BY <1>1, RefuseKeeps DEF Read, ReadServed, Write, WriteServed, Ftruncate, Alter, Tell, Refuse
<1>2. CASE Dup(h) \/ Close(h)
  <2>1. UNCHANGED <<fs, fds, stream>>
    BY <1>2 DEF Dup, Close, Flush
  <2>2. SameFiles(handle')
    BY <1>2 DEF Dup, Close, FdInv, Tables, SameFiles
  <2>3. SameDirs(stream')
    BY <2>1, TablesAreSame DEF FdInv, SameDirs
  <2> QED BY <2>1, <2>2, <2>3, SteadyKeeps
<1> QED BY <1>1, <1>2

LEMMA ReaddirKeeps ==
    ASSUME FdInv, NEW s \in Streams, Readdir(s)
    PROVE  FdInv'
<1>1. /\ UNCHANGED <<fs, fds, handle>> /\ stream[s] # NoDir
      /\ stream' = [stream EXCEPT ![s].read = TRUE]
  BY DEF Readdir
<1>2. SameFiles(handle')
  BY <1>1, TablesAreSame DEF FdInv, SameFiles
<1>3. stream'[s].read = TRUE /\ NoDir.read = FALSE
  BY <1>1 DEF FdInv, Tables, NoDir
<1>4. SameDirs(stream')
  BY <1>1, <1>3 DEF FdInv, Tables, SameDirs
<1> QED BY <1>1, <1>2, <1>4, SteadyKeeps

LEMMA FdInit == Init => FdInv
  BY DEF Init, FdInv, Tables, HoldersServed, NoneShared, NoneLost, IsHeld, NoFile, NoDir

LEMMA FdNext == FdInv /\ [Next]_vars => FdInv'
<1> SUFFICES ASSUME FdInv, [Next]_vars PROVE FdInv'
  OBVIOUS
<1>1. CASE UNCHANGED vars
  BY <1>1, RefuseKeeps DEF vars
<1>2. CASE Named
  BY <1>2, NamesKeep
<1>3. CASE Looked
  BY <1>3, RefuseKeeps DEF Looked, ReaddirServed, Tell
<1>4. CASE Opened
  BY <1>4, OpenKeeps, OpenServedKeeps, ReleaseKeeps, OpendirKeeps, ReleasedirKeeps, UseKeeps, ReaddirKeeps DEF Opened
<1> QED BY <1>1, <1>2, <1>3, <1>4 DEF Next

(* bbfs: however calls follow each other, every descriptor belongs to just *)
(* one open file or directory and is open on it; none is lost.             *)
THEOREM NoDescriptorLost == Spec => []DescriptorsInUse
<1>1. FdInv => DescriptorsInUse
  <2> SUFFICES ASSUME FdInv PROVE DescriptorsInUse
    OBVIOUS
  <2> DEFINE files == {<<"file", h>> : h \in {g \in Handles : fs = "bbfs" /\ handle[g].st # "none"}}
             dirs  == {<<"dir", s>> : s \in {t \in Streams : stream[t] # NoDir}}
             Fh(u) == IF u[1] = "file" THEN handle[u[2]].fh ELSE stream[u[2]].fh
             On(u) == IF u[1] = "file" THEN handle[u[2]].file ELSE stream[u[2]].dir
  <2>1. \A h \in Handles : IsHeld(h) =>
            /\ <<"file", h>> \in files
            /\ Fh(<<"file", h>>) = handle[h].fh /\ On(<<"file", h>>) = handle[h].file
    BY DEF IsHeld
  <2>2. \A s \in Streams : stream[s] # NoDir =>
            /\ <<"dir", s>> \in dirs
            /\ Fh(<<"dir", s>>) = stream[s].fh /\ On(<<"dir", s>>) = stream[s].dir
    OBVIOUS
  <2>3. \A u \in files : \E h \in Handles : IsHeld(h) /\ u = <<"file", h>>
    BY DEF IsHeld
  <2>4. \A u \in dirs : \E s \in Streams : stream[s] # NoDir /\ u = <<"dir", s>>
    OBVIOUS
  <2> HIDE DEF files, dirs, Fh, On
  <2>5. \A n \in Fds : fds[n] # None => \E u \in files \cup dirs : Fh(u) = n
    <3> SUFFICES ASSUME NEW n \in Fds, fds[n] # None
                 PROVE  \E u \in files \cup dirs : Fh(u) = n
      OBVIOUS
    <3>1. CASE \E h \in Handles : IsHeld(h) /\ handle[h].fh = n
      <4>1. PICK h \in Handles : IsHeld(h) /\ handle[h].fh = n  BY <3>1
      <4>2. <<"file", h>> \in files /\ Fh(<<"file", h>>) = n  BY <4>1, <2>1
      <4> QED BY <4>2
    <3>2. CASE \E s \in Streams : stream[s] # NoDir /\ stream[s].fh = n
      <4>1. PICK s \in Streams : stream[s] # NoDir /\ stream[s].fh = n  BY <3>2
      <4>2. <<"dir", s>> \in dirs /\ Fh(<<"dir", s>>) = n  BY <4>1, <2>2
      <4> QED BY <4>2
    <3> QED BY <3>1, <3>2 DEF FdInv, NoneLost
  <2>6. \A u \in files \cup dirs : fds[Fh(u)] = On(u)
    BY <2>1, <2>2, <2>3, <2>4 DEF FdInv, HoldersServed
  <2>7. \A u, v \in files : u # v => Fh(u) # Fh(v)
    BY <2>1, <2>3 DEF FdInv, NoneShared
  <2>8. \A u, v \in dirs : u # v => Fh(u) # Fh(v)
    BY <2>2, <2>4 DEF FdInv, NoneShared
  <2>9. \A u \in files, v \in dirs : Fh(u) # Fh(v)
    BY <2>1, <2>2, <2>3, <2>4 DEF FdInv, NoneShared
  <2>10. \A u \in files \cup dirs :
             fds[Fh(u)] = On(u) /\ \A v \in (files \cup dirs) \ {u} : Fh(u) # Fh(v)
    <3> SUFFICES ASSUME NEW u \in files \cup dirs, NEW v \in (files \cup dirs) \ {u}
                 PROVE  Fh(u) # Fh(v)
      BY <2>6
    <3>1. CASE u \in files /\ v \in files  BY <3>1, <2>7
    <3>2. CASE u \in dirs /\ v \in dirs  BY <3>2, <2>8
    <3>3. CASE u \in files /\ v \in dirs  BY <3>3, <2>9
    <3>4. CASE u \in dirs /\ v \in files  BY <3>4, <2>9
    <3> QED BY <3>1, <3>2, <3>3, <3>4
  <2>11. (\A n \in Fds : fds[n] # None => \E u \in files \cup dirs : Fh(u) = n)
         /\ (\A u \in files \cup dirs :
                fds[Fh(u)] = On(u) /\ \A v \in (files \cup dirs) \ {u} : Fh(u) # Fh(v))
    BY <2>5, <2>10
  <2> QED BY <2>11, Zenon DEF DescriptorsInUse, files, dirs, Fh, On
<1> QED BY <1>1, FdInit, FdNext, PTL DEF Spec

----------------------------------------------------------------------------
(* Paths *)

Names == SecretNames \cup UNION {Range(p) : p \in Paths}
Routes == Seq(Names)

LEMMA PathsAreRoutes ==
    /\ AllPaths \subseteq Routes /\ Paths \subseteq AllPaths
    /\ \A p \in Paths : \A i \in 1 .. Len(p) : p[i] \notin SecretNames
<1>1. ASSUME NEW p \in Paths PROVE p \in Routes /\ \A i \in 1 .. Len(p) : p[i] \notin SecretNames
  <2>1. p \in Seq(Range(p) \ SecretNames)
    BY PassThroughAssumption
  <2>2. Range(p) \ SecretNames \subseteq Names
    BY DEF Names
  <2>3. p \in Routes
    BY <2>1, <2>2, SeqMonotonic DEF Routes
  <2>4. \A i \in 1 .. Len(p) : p[i] \in Range(p) \ SecretNames
    BY <2>1, ElementOfSeq
  <2> QED BY <2>3, <2>4
<1>2. ASSUME NEW p \in Paths \ {<< >>}, NEW q \in Secret(Front(p)) PROVE q \in Routes
  <2>1. Front(p) \in Routes
    BY <1>1, PassThroughAssumption
  <2>2. PICK n \in SecretNames : q = Append(Front(p), n)
    BY DEF Secret
  <2> QED BY <2>1, <2>2, AppendProperties DEF Routes, Names
<1> QED BY <1>1, <1>2 DEF AllPaths

LEMMA RouteTypes ==
    ASSUME NEW p \in Routes
    PROVE  /\ Len(p) \in Nat /\ \A i \in 1 .. Len(p) : p[i] \in Names
           /\ Len(p) = 0 <=> p = << >>
  BY EmptySeq, LenProperties, ElementOfSeq DEF Routes

LEMMA SameRoute ==
    ASSUME NEW p \in Routes, NEW q \in Routes, Len(p) = Len(q), \A i \in 1 .. Len(p) : p[i] = q[i]
    PROVE  p = q
  BY SeqEqual DEF Routes

LEMMA Initial ==
    ASSUME NEW p \in Routes, NEW n \in 0 .. Len(p)
    PROVE  /\ SubSeq(p, 1, n) \in Routes /\ Len(SubSeq(p, 1, n)) = n
           /\ \A i \in 1 .. n : SubSeq(p, 1, n)[i] = p[i]
<1>1. n \in Int /\ \A i \in 1 .. n : p[i] \in Names
  BY RouteTypes
<1> QED BY <1>1, SubSeqProperties DEF Routes

LEMMA PrefixIs ==
    ASSUME NEW d \in Routes, NEW q \in Routes
    PROVE  IsPrefix(d, q) <=> Len(d) <= Len(q) /\ \A i \in 1 .. Len(d) : d[i] = q[i]
<1>1. Len(d) \in Nat /\ Len(q) \in Nat
  BY RouteTypes
<1>2. CASE Len(d) <= Len(q)
  <2>1. /\ SubSeq(d, 1, Len(d)) \in Routes /\ Len(SubSeq(d, 1, Len(d))) = Len(d)
        /\ \A i \in 1 .. Len(d) : SubSeq(d, 1, Len(d))[i] = d[i]
    BY <1>1, Initial
  <2>2. /\ SubSeq(q, 1, Len(d)) \in Routes /\ Len(SubSeq(q, 1, Len(d))) = Len(d)
        /\ \A i \in 1 .. Len(d) : SubSeq(q, 1, Len(d))[i] = q[i]
    BY <1>1, <1>2, Initial
  <2>3. SubSeq(d, 1, Len(d)) = SubSeq(q, 1, Len(d)) <=> \A i \in 1 .. Len(d) : d[i] = q[i]
    BY <2>1, <2>2, SameRoute
  <2> QED BY <1>2, <2>3 DEF IsPrefix
<1> QED BY <1>1, <1>2 DEF IsPrefix

LEMMA PrefixOrder ==
    ASSUME NEW p \in Routes, NEW q \in Routes, NEW r \in Routes
    PROVE  /\ IsPrefix(p, p)
           /\ IsPrefix(p, q) /\ IsPrefix(q, r) => IsPrefix(p, r)
           /\ IsPrefix(p, q) /\ IsPrefix(q, p) => p = q
           /\ IsPrefix(p, r) /\ IsPrefix(q, r) => IsPrefix(p, q) \/ IsPrefix(q, p)
           /\ IsPrefix(p, q) /\ p # q => Len(p) < Len(q)
<1>1. Len(p) \in Nat /\ Len(q) \in Nat /\ Len(r) \in Nat
  BY RouteTypes
<1>2. IsPrefix(p, p)
  BY <1>1, PrefixIs
<1>3. IsPrefix(p, q) /\ IsPrefix(q, r) => IsPrefix(p, r)
  BY <1>1, PrefixIs
<1>4. IsPrefix(p, q) /\ Len(p) = Len(q) => p = q
  BY <1>1, PrefixIs, SameRoute
<1>5. IsPrefix(p, r) /\ IsPrefix(q, r) => IsPrefix(p, q) \/ IsPrefix(q, p)
  BY <1>1, PrefixIs
<1>6. (IsPrefix(p, q) => Len(p) <= Len(q)) /\ (IsPrefix(q, p) => Len(q) <= Len(p))
  BY PrefixIs
<1> QED BY <1>1, <1>2, <1>3, <1>4, <1>5, <1>6

LEMMA Fronts ==
    ASSUME NEW p \in Routes, p # << >>
    PROVE  /\ Front(p) \in Routes /\ IsPrefix(Front(p), p) /\ Front(p) # p
           /\ Len(Front(p)) = Len(p) - 1 /\ Len(p) >= 1
           /\ \A d \in Routes : IsPrefix(d, p) /\ d # p => IsPrefix(d, Front(p))
<1>1. Len(p) \in Nat /\ Len(p) >= 1
  BY RouteTypes
<1>2. /\ Front(p) \in Routes /\ Len(Front(p)) = Len(p) - 1
      /\ \A i \in 1 .. Len(p) - 1 : Front(p)[i] = p[i]
  <2>1. Len(p) - 1 \in 0 .. Len(p)
    BY <1>1
  <2> QED BY <2>1, Initial DEF Front
<1>3. IsPrefix(Front(p), p) /\ Front(p) # p
  BY <1>1, <1>2, PrefixIs
<1>4. ASSUME NEW d \in Routes, IsPrefix(d, p), d # p PROVE IsPrefix(d, Front(p))
  <2>1. Len(d) \in Nat /\ Len(d) < Len(p) /\ \A i \in 1 .. Len(d) : d[i] = p[i]
    BY <1>4, PrefixIs, PrefixOrder, RouteTypes
  <2> QED BY <1>1, <1>2, <2>1, PrefixIs
<1> QED BY <1>1, <1>2, <1>3, <1>4

(* The step from d towards q *)
LEMMA NextBelow ==
    ASSUME NEW d \in Routes, NEW q \in Routes, IsPrefix(d, q), d # q
    PROVE  \E c \in Routes : c # << >> /\ Front(c) = d /\ IsPrefix(c, q)
<1> DEFINE c == SubSeq(q, 1, Len(d) + 1)
<1>1. /\ Len(d) \in Nat /\ Len(q) \in Nat /\ Len(d) < Len(q)
      /\ \A i \in 1 .. Len(d) : d[i] = q[i]
  BY PrefixIs, PrefixOrder, RouteTypes
<1>2. c \in Routes /\ Len(c) = Len(d) + 1 /\ \A i \in 1 .. Len(d) + 1 : c[i] = q[i]
  BY <1>1, Initial
<1> HIDE DEF c
<1>3. c # << >> /\ IsPrefix(c, q)
  BY <1>1, <1>2, PrefixIs, RouteTypes
<1>4. /\ Front(c) \in Routes /\ Len(Front(c)) = Len(d)
      /\ \A i \in 1 .. Len(d) : Front(c)[i] = c[i]
  BY <1>1, <1>2, Initial DEF Front
<1>5. Front(c) = d
  BY <1>1, <1>2, <1>4, SameRoute
<1> QED BY <1>2, <1>3, <1>5

LEMMA RenamedIs ==
    ASSUME NEW q \in Routes, NEW from \in Routes, NEW to \in Routes, IsPrefix(from, q)
    PROVE  LET r == Renamed(q, from, to) IN
           /\ r \in Routes
           /\ Len(r) = Len(to) + (Len(q) - Len(from))
           /\ \A i \in 1 .. Len(to) : r[i] = to[i]
           /\ \A i \in 1 .. Len(q) - Len(from) : r[Len(to) + i] = q[Len(from) + i]
<1> DEFINE rest == SubSeq(q, Len(from) + 1, Len(q))
           r == to \o rest
<1>1. Len(q) \in Nat /\ Len(from) \in Nat /\ Len(to) \in Nat /\ Len(from) <= Len(q)
  BY RouteTypes, PrefixIs
<1>2. \A i \in Len(from) + 1 .. Len(q) : q[i] \in Names
  BY <1>1, RouteTypes
<1>3. rest \in Routes /\ Len(rest) = Len(q) - Len(from)
      /\ \A i \in 1 .. Len(q) - Len(from) : rest[i] = q[Len(from) + i]
  <2>1. Len(from) + 1 \in Int /\ Len(q) \in Int
    BY <1>1
  <2>2. /\ rest \in Seq(Names)
        /\ Len(rest) = IF Len(from) + 1 <= Len(q) THEN (Len(q) - (Len(from) + 1)) + 1 ELSE 0
        /\ \A i \in 1 .. (Len(q) - (Len(from) + 1)) + 1 : rest[i] = q[(Len(from) + 1 + i) - 1]
    BY <1>2, <2>1, SubSeqProperties
  <2>3. \A i \in 1 .. Len(q) - Len(from) : (Len(from) + 1 + i) - 1 = Len(from) + i
    BY <1>1
  <2>4. (Len(q) - (Len(from) + 1)) + 1 = Len(q) - Len(from)
    BY <1>1
  <2>5. \A i \in 1 .. Len(q) - Len(from) : rest[i] = q[Len(from) + i]
    BY <2>2, <2>3, <2>4
  <2>6. Len(rest) = Len(q) - Len(from)
    BY <1>1, <2>2
  <2> QED BY <2>2, <2>5, <2>6 DEF Routes
<1> HIDE DEF rest
<1>4. /\ r \in Routes /\ Len(r) = Len(to) + Len(rest)
      /\ \A i \in 1 .. Len(to) + Len(rest) : r[i] = IF i <= Len(to) THEN to[i] ELSE rest[i - Len(to)]
  BY <1>3, ConcatProperties DEF Routes
<1> HIDE DEF r
<1>5. \A i \in 1 .. Len(to) : r[i] = to[i]
  BY <1>1, <1>3, <1>4
<1>6. \A i \in 1 .. Len(q) - Len(from) : r[Len(to) + i] = q[Len(from) + i]
  <2> SUFFICES ASSUME NEW i \in 1 .. Len(q) - Len(from) PROVE r[Len(to) + i] = q[Len(from) + i]
    OBVIOUS
  <2>1. Len(to) + i \in 1 .. Len(to) + Len(rest) /\ ~(Len(to) + i <= Len(to)) /\ (Len(to) + i) - Len(to) = i
    BY <1>1, <1>3
  <2>2. r[Len(to) + i] = rest[i]
    BY <1>4, <2>1
  <2> QED BY <1>3, <2>2
<1>7. Renamed(q, from, to) = r
  BY DEF Renamed, r, rest
<1> QED BY <1>3, <1>4, <1>5, <1>6, <1>7

LEMMA RenamedAgain ==
    ASSUME NEW q \in Routes, NEW from \in Routes, NEW to \in Routes, IsPrefix(from, q)
    PROVE  LET r == Renamed(q, from, to) IN
           r \in Routes /\ IsPrefix(to, r) /\ Renamed(r, to, from) = q /\ (q = from <=> r = to)
<1> DEFINE r == Renamed(q, from, to)
           b == Renamed(r, to, from)
<1>1. Len(q) \in Nat /\ Len(from) \in Nat /\ Len(to) \in Nat /\ Len(from) <= Len(q)
      /\ \A i \in 1 .. Len(from) : from[i] = q[i]
  BY RouteTypes, PrefixIs
<1>2. /\ r \in Routes /\ Len(r) = Len(to) + (Len(q) - Len(from))
      /\ \A i \in 1 .. Len(to) : r[i] = to[i]
      /\ \A i \in 1 .. Len(q) - Len(from) : r[Len(to) + i] = q[Len(from) + i]
  BY RenamedIs
<1> HIDE DEF r
<1>3. IsPrefix(to, r) /\ Len(r) - Len(to) = Len(q) - Len(from)
  BY <1>1, <1>2, PrefixIs
<1>4. /\ b \in Routes /\ Len(b) = Len(from) + (Len(r) - Len(to))
      /\ \A i \in 1 .. Len(from) : b[i] = from[i]
      /\ \A i \in 1 .. Len(r) - Len(to) : b[Len(from) + i] = r[Len(to) + i]
  BY <1>2, <1>3, RenamedIs
<1> HIDE DEF b
<1>5. b = q
  <2>1. Len(b) = Len(q)
    BY <1>1, <1>3, <1>4
  <2>2. ASSUME NEW i \in 1 .. Len(b) PROVE b[i] = q[i]
    <3>1. CASE i <= Len(from)
      BY <1>1, <1>4, <2>1, <3>1
    <3>2. CASE i > Len(from)
      <4>1. i - Len(from) \in 1 .. Len(q) - Len(from) /\ Len(from) + (i - Len(from)) = i
        BY <1>1, <2>1, <3>2
      <4>2. b[i] = r[Len(to) + (i - Len(from))]
        BY <1>3, <1>4, <4>1
      <4>3. r[Len(to) + (i - Len(from))] = q[i]
        BY <1>2, <4>1
      <4> QED BY <4>2, <4>3
    <3> QED BY <1>1, <2>1, <3>1, <3>2
  <2> QED BY <1>4, <2>1, <2>2, SameRoute
<1>6. q = from => r = to
  <2> SUFFICES ASSUME q = from PROVE r = to
    OBVIOUS
  <2>1. Len(r) = Len(to)
    BY <1>1, <1>2
  <2> QED BY <1>2, <2>1, SameRoute
<1>7. r = to => q = from
  <2> SUFFICES ASSUME r = to PROVE q = from
    OBVIOUS
  <2>1. Len(q) = Len(from)
    BY <1>1, <1>2
  <2> QED BY <1>1, <2>1, SameRoute
<1> QED BY <1>2, <1>3, <1>5, <1>6, <1>7 DEF r, b

LEMMA RenamedBelow ==
    ASSUME NEW d \in Routes, NEW q \in Routes, NEW from \in Routes, NEW to \in Routes,
           IsPrefix(from, d), IsPrefix(d, q)
    PROVE  IsPrefix(Renamed(d, from, to), Renamed(q, from, to))
<1> DEFINE e == Renamed(d, from, to)
           r == Renamed(q, from, to)
<1>1. IsPrefix(from, q)
  BY PrefixOrder
<1>2. /\ Len(q) \in Nat /\ Len(from) \in Nat /\ Len(to) \in Nat /\ Len(d) \in Nat
      /\ Len(from) <= Len(d) /\ Len(d) <= Len(q) /\ \A i \in 1 .. Len(d) : d[i] = q[i]
  BY RouteTypes, PrefixIs
<1>3. /\ r \in Routes /\ Len(r) = Len(to) + (Len(q) - Len(from))
      /\ \A i \in 1 .. Len(to) : r[i] = to[i]
      /\ \A i \in 1 .. Len(q) - Len(from) : r[Len(to) + i] = q[Len(from) + i]
  BY <1>1, RenamedIs
<1>4. /\ e \in Routes /\ Len(e) = Len(to) + (Len(d) - Len(from))
      /\ \A i \in 1 .. Len(to) : e[i] = to[i]
      /\ \A i \in 1 .. Len(d) - Len(from) : e[Len(to) + i] = d[Len(from) + i]
  <2>1. \A s \in Routes : IsPrefix(from, s) =>
           /\ Renamed(s, from, to) \in Routes
           /\ Len(Renamed(s, from, to)) = Len(to) + (Len(s) - Len(from))
           /\ \A i \in 1 .. Len(to) : Renamed(s, from, to)[i] = to[i]
           /\ \A i \in 1 .. Len(s) - Len(from) :
                  Renamed(s, from, to)[Len(to) + i] = s[Len(from) + i]
    BY RenamedIs
  <2> QED BY <2>1
<1> HIDE DEF e, r
<1>5. Len(e) <= Len(r)
  BY <1>2, <1>3, <1>4
<1>6. ASSUME NEW i \in 1 .. Len(e) PROVE e[i] = r[i]
  <2>1. CASE i <= Len(to)
    BY <1>2, <1>3, <1>4, <2>1
  <2>2. CASE i > Len(to)
    <3> DEFINE j == i - Len(to)
    <3>1. /\ j \in 1 .. Len(d) - Len(from) /\ j \in 1 .. Len(q) - Len(from)
          /\ Len(to) + j = i /\ Len(from) + j \in 1 .. Len(d)
      BY <1>2, <1>4, <2>2
    <3> HIDE DEF j
    <3>2. e[i] = d[Len(from) + j] /\ r[i] = q[Len(from) + j]
      BY <1>3, <1>4, <3>1
    <3> QED BY <1>2, <3>1, <3>2
  <2> QED BY <1>2, <1>4, <2>1, <2>2
<1> QED BY <1>3, <1>4, <1>5, <1>6, PrefixIs DEF e, r

(* A rename of a directory leaves the last name of what is below it. *)
LEMMA RenamedLast ==
    ASSUME NEW q \in Routes, NEW from \in Routes, NEW to \in Routes, IsPrefix(from, q), q # from
    PROVE  /\ Last(Renamed(q, from, to)) = Last(q)
           /\ Renamed(q, from, to) # << >> /\ q # << >>
<1> DEFINE r == Renamed(q, from, to)
<1>1. Len(q) \in Nat /\ Len(from) \in Nat /\ Len(to) \in Nat /\ Len(from) < Len(q)
  BY RouteTypes, PrefixOrder
<1>2. /\ r \in Routes /\ Len(r) = Len(to) + (Len(q) - Len(from))
      /\ \A i \in 1 .. Len(q) - Len(from) : r[Len(to) + i] = q[Len(from) + i]
  BY RenamedIs
<1> HIDE DEF r
<1>3. Len(q) - Len(from) \in 1 .. Len(q) - Len(from) /\ Len(from) + (Len(q) - Len(from)) = Len(q)
  BY <1>1
<1>4. r[Len(r)] = q[Len(q)]
  BY <1>2, <1>3
<1>5. Len(r) > 0 /\ Len(q) > 0
  BY <1>1, <1>2
<1>6. r # << >> /\ q # << >>
  BY <1>2, <1>5, EmptySeq
<1> QED BY <1>4, <1>6 DEF Last, r

LEMMA SecretOf ==
    ASSUME NEW p \in Paths \ {<< >>}, NEW s \in Secret(Front(p))
    PROVE  /\ s \in AllPaths /\ s \notin Paths /\ s # << >>
           /\ Front(s) = Front(p) /\ Last(s) \in SecretNames /\ Len(s) = Len(p)
<1>1. PICK n \in SecretNames : s = Append(Front(p), n)
  BY DEF Secret
<1>2. /\ p \in Routes /\ p # << >> /\ Front(p) \in Routes /\ n \in Names
      /\ Len(Front(p)) = Len(p) - 1 /\ Len(p) \in Nat /\ Len(p) >= 1
  BY PathsAreRoutes, Fronts, RouteTypes DEF Names
<1>3. /\ s \in Routes /\ s # << >> /\ Len(s) = Len(Front(p)) + 1
      /\ \A i \in 1 .. Len(Front(p)) : s[i] = Front(p)[i]
      /\ s[Len(Front(p)) + 1] = n
  BY <1>1, <1>2, AppendProperties DEF Routes
<1>4. Last(s) = n
  BY <1>3 DEF Last
<1>5. Front(s) = Front(p)
  <2>1. /\ Front(s) \in Routes /\ Len(Front(s)) = Len(Front(p))
        /\ \A i \in 1 .. Len(Front(p)) : Front(s)[i] = s[i]
    <3>1. Len(s) - 1 = Len(Front(p)) /\ Len(Front(p)) \in 0 .. Len(s)
      BY <1>2, <1>3
    <3> QED BY <1>3, <3>1, Initial DEF Front
  <2> QED BY <1>2, <1>3, <2>1, SameRoute
<1>6. s \notin Paths
  <2>1. Len(Front(p)) + 1 \in 1 .. Len(s)
    BY <1>2, <1>3
  <2> QED BY <1>3, <2>1, PathsAreRoutes
<1>7. s \in AllPaths
  BY DEF AllPaths
<1>8. Len(s) = Len(p)
  BY <1>2, <1>3
<1> QED BY <1>3, <1>4, <1>5, <1>6, <1>7, <1>8

LEMMA PathsAndSecrets ==
    ASSUME NEW p \in AllPaths
    PROVE  /\ p \in Paths <=> p = << >> \/ Last(p) \notin SecretNames
           /\ p # << >> => Front(p) \in Paths
<1>1. CASE p \in Paths
  <2>1. << >> \in Paths /\ (p # << >> => Front(p) \in Paths)
    BY <1>1, PassThroughAssumption
  <2>2. p # << >> => Len(p) \in 1 .. Len(p)
    BY PathsAreRoutes, RouteTypes
  <2>3. p # << >> => Last(p) \notin SecretNames
    BY <1>1, <2>2, PathsAreRoutes DEF Last
  <2> QED BY <1>1, <2>1, <2>3
<1>2. CASE p \notin Paths
  <2>1. PICK r \in Paths \ {<< >>} : p \in Secret(Front(r))
    BY <1>2 DEF AllPaths
  <2>2. Front(p) = Front(r) /\ p # << >> /\ Last(p) \in SecretNames
    BY <2>1, SecretOf
  <2> QED BY <1>2, <2>2, PassThroughAssumption
<1> QED BY <1>1, <1>2

(* Whatever leads to a path is a path of users. *)
LEMMA PathsOnTheWay ==
    ASSUME NEW q \in AllPaths, NEW d \in Routes, IsPrefix(d, q), d # q
    PROVE  d \in Paths
<1>1. q \in Routes /\ q # << >>
  <2>1. q \in Routes
    BY PathsAreRoutes
  <2>2. Len(d) \in Nat /\ Len(d) < Len(q)
    BY <2>1, PrefixOrder, RouteTypes
  <2> QED BY <2>1, <2>2, RouteTypes
<1>2. Front(q) \in Paths /\ IsPrefix(d, Front(q))
  BY <1>1, PathsAndSecrets, Fronts
<1> DEFINE lengths == {k \in Nat : \E p \in Paths : IsPrefix(d, p) /\ Len(p) = k}
<1>3. lengths \subseteq Nat /\ lengths # {}
  BY <1>2, PathsAreRoutes, RouteTypes
<1>4. PICK k \in lengths : \A j \in lengths : <<j, k>> \notin OpToRel(<, Nat)
  <2> HIDE DEF lengths
  <2> QED BY <1>3, NatLessThanWellFounded, WFMin
<1>5. PICK p \in Paths : IsPrefix(d, p) /\ Len(p) = k
  OBVIOUS
<1>6. CASE p = d
  BY <1>5, <1>6
<1>7. CASE p # d
  <2>1. p \in Routes /\ k \in Nat
    BY <1>3, <1>5, PathsAreRoutes, RouteTypes
  <2>2. p # << >>
    <3>1. Len(d) \in Nat /\ Len(d) < Len(p)
      BY <1>5, <1>7, <2>1, PrefixOrder, RouteTypes
    <3> QED BY <2>1, <3>1, RouteTypes
  <2>3. Front(p) \in Paths /\ IsPrefix(d, Front(p)) /\ Len(Front(p)) = k - 1 /\ k >= 1
    BY <1>5, <1>7, <2>1, <2>2, Fronts, PassThroughAssumption
  <2>4. k - 1 \in lengths /\ k - 1 < k
    BY <2>1, <2>3
  <2> QED BY <1>3, <1>4, <2>1, <2>4 DEF OpToRel
<1> QED BY <1>6, <1>7

----------------------------------------------------------------------------
(* Trees, and the paths libfuse has of open files *)

IsTree(t, n) ==
    /\ t \in [AllPaths -> Inodes \cup {None}]
    /\ \A q \in AllPaths : t[q] # None => n[t[q]].kind # "free"
    /\ \A q, d \in AllPaths : t[q] # None /\ IsPrefix(d, q) /\ d # q =>
          t[d] # None /\ n[t[d]].kind = "dir"
    /\ \A p, q \in AllPaths : t[p] # None /\ t[p] = t[q] /\ n[t[p]].kind = "dir" => p = q

Held(hs, h, p) == hs[h].st # "none" /\ hs[h].path = p

Leads(t, n, hs) ==
    /\ DOMAIN hs = Handles
    /\ \A h \in Handles : DOMAIN hs[h] = {"st", "path", "fh", "refs", "file"}
    /\ \A h \in Handles : hs[h].st # "none" =>
          /\ hs[h].path \in AllPaths \ {<< >>} /\ t[hs[h].path] = hs[h].file
          /\ hs[h].file # None /\ n[hs[h].file].kind = "file"

(* A secret name lasts as long as the file is open. *)
SecretsHeld(t, hs) ==
    \A s \in AllPaths \ Paths : t[s] # None => \E h \in Handles : Held(hs, h, s)

Sound(t, n, hs) == IsTree(t, n) /\ Leads(t, n, hs) /\ SecretsHeld(t, hs)

LEMMA NothingBelow ==
    ASSUME NEW t, NEW n, IsTree(t, n), NEW d \in AllPaths, NEW q \in AllPaths,
           t[q] # None, IsPrefix(d, q), ~IsDir(t, n, d) \/ Entries(t, d) = {}
    PROVE  q = d
<1> SUFFICES ASSUME q # d PROVE FALSE
  OBVIOUS
<1>1. DOMAIN t = AllPaths
  BY DEF IsTree
<1>2. Entries(t, d) = {}
  BY <1>1 DEF IsTree, IsDir
<1>3. PICK c \in Routes : c # << >> /\ Front(c) = d /\ IsPrefix(c, q)
  BY NextBelow, PathsAreRoutes
<1>4. c \in AllPaths
  BY <1>3, PathsOnTheWay, PathsAreRoutes
<1>5. t[c] # None
  BY <1>3, <1>4 DEF IsTree
<1>6. c \in Entries(t, d)
  BY <1>1, <1>3, <1>4, <1>5 DEF Entries
<1> QED BY <1>2, <1>6

LEMMA FollowIs ==
    ASSUME NEW t, NEW n, NEW hs, Leads(t, n, hs), NEW from, NEW to, NEW h \in Handles
    PROVE  LET f == Follow(hs, from, to) IN
           /\ DOMAIN f = Handles /\ DOMAIN f[h] = {"st", "path", "fh", "refs", "file"}
           /\ f[h].st = hs[h].st /\ f[h].file = hs[h].file
           /\ f[h].path = Renamed(hs[h].path, from, to)
  BY DEF Leads, Follow

(* What a move needs to leave everything in order *)
MayMove(t, n, hs, from, to) ==
    /\ CanRename(t, n, from, to) /\ HasRoom(t, from, to)
    /\ \A h \in Handles : ~Held(hs, h, to)
    /\ to \in Paths \/ \E h \in Handles : Held(hs, h, from)

LEMMA MoveIs ==
    ASSUME NEW t, NEW n, NEW hs, Sound(t, n, hs), NEW from \in Paths \ {<< >>},
           NEW to \in AllPaths \ {<< >>}, from # to, MayMove(t, n, hs, from, to)
    PROVE  LET m == Move(t, from, to) IN
           /\ m \in [AllPaths -> Inodes \cup {None}]
           /\ \A q \in AllPaths : m[q] # None =>
                 \/ /\ IsPrefix(to, q) /\ Renamed(q, to, from) \in AllPaths
                    /\ IsPrefix(from, Renamed(q, to, from)) /\ m[q] = t[Renamed(q, to, from)]
                 \/ ~IsPrefix(to, q) /\ ~IsPrefix(from, q) /\ m[q] = t[q]
           /\ \A r \in AllPaths : t[r] # None /\ IsPrefix(from, r) =>
                 Renamed(r, from, to) \in AllPaths /\ m[Renamed(r, from, to)] = t[r]
           /\ \A r \in AllPaths : t[r] # None /\ IsPrefix(to, r) => r = to
           /\ \A r \in AllPaths : t[r] # None /\ ~IsPrefix(from, r) /\ r # to => m[r] = t[r]
<1> DEFINE m == Move(t, from, to)
<1>1. t \in [AllPaths -> Inodes \cup {None}] /\ DOMAIN t = AllPaths
  BY DEF Sound, IsTree
<1>2. AllPaths \subseteq Routes /\ from \in AllPaths /\ from \in Routes /\ to \in Routes
  BY PathsAreRoutes
<1>3. \A q \in AllPaths : m[q] =
         IF IsPrefix(to, q)
         THEN IF Renamed(q, to, from) \in AllPaths THEN t[Renamed(q, to, from)] ELSE None
         ELSE IF IsPrefix(from, q) THEN None ELSE t[q]
  BY <1>1 DEF Move
<1>4. m \in [AllPaths -> Inodes \cup {None}]
  BY <1>1, <1>2 DEF Move
<1> HIDE DEF m
<1>5. \A q \in AllPaths : IsPrefix(to, q) => IsPrefix(from, Renamed(q, to, from))
  BY <1>2, RenamedAgain
<1>6. \A r \in AllPaths : t[r] # None => Renamed(r, from, to) \in AllPaths
  BY <1>1 DEF MayMove, HasRoom
<1>7. ASSUME NEW r \in AllPaths, t[r] # None, IsPrefix(from, r)
      PROVE  m[Renamed(r, from, to)] = t[r]
  <2>1. IsPrefix(to, Renamed(r, from, to)) /\ Renamed(Renamed(r, from, to), to, from) = r
    BY <1>2, <1>7, RenamedAgain
  <2> QED BY <1>3, <1>6, <1>7, <2>1
<1>8. ASSUME NEW r \in AllPaths, t[r] # None, IsPrefix(to, r) PROVE r = to
  <2>1. t[to] # None => ~IsDir(t, n, to) \/ Entries(t, to) = {}
    BY DEF MayMove, CanRename, CanRmdir
  <2>2. t[to] = None => ~IsDir(t, n, to)
    BY DEF IsDir
  <2> QED BY <1>8, <2>1, <2>2, NothingBelow DEF Sound
<1>9. \A r \in AllPaths : t[r] # None /\ ~IsPrefix(from, r) /\ r # to => m[r] = t[r]
  BY <1>3, <1>8
<1> QED BY <1>3, <1>4, <1>5, <1>6, <1>7, <1>8, <1>9 DEF m

LEMMA MoveKeepsTree ==
    ASSUME NEW t, NEW n, NEW hs, Sound(t, n, hs), NEW from \in Paths \ {<< >>},
           NEW to \in AllPaths \ {<< >>}, from # to, MayMove(t, n, hs, from, to)
    PROVE  IsTree(Move(t, from, to), n)
<1> DEFINE m == Move(t, from, to)
<1>1. /\ m \in [AllPaths -> Inodes \cup {None}]
      /\ \A q \in AllPaths : m[q] # None =>
            \/ /\ IsPrefix(to, q) /\ Renamed(q, to, from) \in AllPaths
               /\ IsPrefix(from, Renamed(q, to, from)) /\ m[q] = t[Renamed(q, to, from)]
            \/ ~IsPrefix(to, q) /\ ~IsPrefix(from, q) /\ m[q] = t[q]
      /\ \A r \in AllPaths : t[r] # None /\ IsPrefix(from, r) =>
            Renamed(r, from, to) \in AllPaths /\ m[Renamed(r, from, to)] = t[r]
      /\ \A r \in AllPaths : t[r] # None /\ IsPrefix(to, r) => r = to
      /\ \A r \in AllPaths : t[r] # None /\ ~IsPrefix(from, r) /\ r # to => m[r] = t[r]
  BY MoveIs
<1> HIDE DEF m
<1>2. /\ AllPaths \subseteq Routes /\ from \in AllPaths /\ from \in Routes /\ to \in Routes
      /\ IsTree(t, n) /\ ~IsPrefix(from, to) /\ IsDir(t, n, Front(to)) /\ DOMAIN t = AllPaths
  BY PathsAreRoutes DEF MayMove, CanRename, Sound, IsTree
<1>3. \A q \in AllPaths : m[q] # None => n[m[q]].kind # "free"
  BY <1>1, <1>2 DEF IsTree
<1>4. ASSUME NEW q \in AllPaths, NEW d \in AllPaths, m[q] # None, IsPrefix(d, q), d # q
      PROVE  m[d] # None /\ n[m[d]].kind = "dir"
  <2>1. q \in Routes /\ d \in Routes
    BY <1>2
  <2>2. CASE ~IsPrefix(to, q)
    <3>1. ~IsPrefix(from, q) /\ t[q] # None
      BY <1>1, <1>4, <2>2
    <3>2. ~IsPrefix(from, d) /\ ~IsPrefix(to, d)
      BY <1>2, <1>4, <2>1, <2>2, <3>1, PrefixOrder
    <3>3. t[d] # None /\ n[t[d]].kind = "dir"
      BY <1>2, <1>4, <3>1 DEF IsTree
    <3>4. d # to
      BY <1>2, <3>2, PrefixOrder
    <3> QED BY <1>1, <3>2, <3>3, <3>4
  <2>3. CASE IsPrefix(to, q) /\ IsPrefix(to, d)
    <3> DEFINE a == Renamed(q, to, from)
               b == Renamed(d, to, from)
    <3>1. a \in AllPaths /\ t[a] # None
      BY <1>1, <1>4, <2>3
    <3>2. /\ b \in Routes /\ IsPrefix(from, b) /\ Renamed(b, from, to) = d
          /\ Renamed(a, from, to) = q
      BY <1>2, <2>1, <2>3, RenamedAgain
    <3>3. IsPrefix(b, a)
      BY <1>2, <1>4, <2>1, <2>3, RenamedBelow
    <3>4. a # b
      BY <1>4, <3>2
    <3> HIDE DEF a, b
    <3>5. b \in AllPaths
      BY <3>1, <3>2, <3>3, <3>4, PathsOnTheWay, PathsAreRoutes
    <3>6. t[b] # None /\ n[t[b]].kind = "dir"
      BY <1>2, <3>1, <3>3, <3>4, <3>5 DEF IsTree
    <3> QED BY <1>1, <3>2, <3>5, <3>6
  <2>4. CASE IsPrefix(to, q) /\ ~IsPrefix(to, d)
    <3>1. IsPrefix(d, to) /\ d # to
      BY <1>2, <1>4, <2>1, <2>4, PrefixOrder
    <3>2. IsPrefix(d, Front(to)) /\ Front(to) \in AllPaths /\ t[Front(to)] # None
      BY <1>2, <2>1, <3>1, Fronts DEF IsDir
    <3>3. t[d] # None /\ n[t[d]].kind = "dir"
      BY <1>2, <3>2 DEF IsTree, IsDir
    <3>4. ~IsPrefix(from, d)
      BY <1>2, <2>1, <3>1, PrefixOrder
    <3> QED BY <1>1, <3>1, <3>3, <3>4
  <2> QED BY <2>2, <2>3, <2>4
<1>5. ASSUME NEW p \in AllPaths, NEW q \in AllPaths, m[p] # None, m[p] = m[q], n[m[p]].kind = "dir"
      PROVE  p = q
  <2>1. p \in Routes /\ q \in Routes
    BY <1>2
  <2>2. CASE IsPrefix(to, p) /\ IsPrefix(to, q)
    <3>1. Renamed(p, to, from) = Renamed(q, to, from)
      BY <1>1, <1>2, <1>5, <2>2 DEF IsTree
    <3>2. Renamed(Renamed(p, to, from), from, to) = p /\ Renamed(Renamed(q, to, from), from, to) = q
      BY <1>2, <2>1, <2>2, RenamedAgain
    <3> QED BY <3>1, <3>2
  <2>3. CASE ~IsPrefix(to, p) /\ ~IsPrefix(to, q)
    BY <1>1, <1>2, <1>5, <2>3 DEF IsTree
  <2>4. CASE IsPrefix(to, p) /\ ~IsPrefix(to, q)
    BY <1>1, <1>2, <1>5, <2>4 DEF IsTree
  <2>5. CASE ~IsPrefix(to, p) /\ IsPrefix(to, q)
    BY <1>1, <1>2, <1>5, <2>5 DEF IsTree
  <2> QED BY <2>2, <2>3, <2>4, <2>5
<1> QED BY <1>1, <1>3, <1>4, <1>5 DEF IsTree, m

LEMMA MoveSound ==
    ASSUME NEW t, NEW n, NEW hs, Sound(t, n, hs), NEW from \in Paths \ {<< >>},
           NEW to \in AllPaths \ {<< >>}, from # to, MayMove(t, n, hs, from, to)
    PROVE  Sound(Move(t, from, to), n, Follow(hs, from, to))
<1> DEFINE m == Move(t, from, to)
           f == Follow(hs, from, to)
<1>1. /\ m \in [AllPaths -> Inodes \cup {None}]
      /\ \A q \in AllPaths : m[q] # None =>
            \/ /\ IsPrefix(to, q) /\ Renamed(q, to, from) \in AllPaths
               /\ IsPrefix(from, Renamed(q, to, from)) /\ m[q] = t[Renamed(q, to, from)]
            \/ ~IsPrefix(to, q) /\ ~IsPrefix(from, q) /\ m[q] = t[q]
      /\ \A r \in AllPaths : t[r] # None /\ IsPrefix(from, r) =>
            Renamed(r, from, to) \in AllPaths /\ m[Renamed(r, from, to)] = t[r]
      /\ \A r \in AllPaths : t[r] # None /\ IsPrefix(to, r) => r = to
      /\ \A r \in AllPaths : t[r] # None /\ ~IsPrefix(from, r) /\ r # to => m[r] = t[r]
  BY MoveIs
<1>2. DOMAIN f = Handles /\ \A h \in Handles :
         /\ DOMAIN f[h] = {"st", "path", "fh", "refs", "file"}
         /\ f[h].st = hs[h].st /\ f[h].file = hs[h].file
         /\ f[h].path = Renamed(hs[h].path, from, to)
  <2>1. Leads(t, n, hs)
    BY DEF Sound
  <2>2. DOMAIN f = Handles
    BY DEF Follow
  <2> QED BY <2>1, <2>2, FollowIs
<1>3. IsTree(m, n)
  BY MoveKeepsTree
<1> HIDE DEF m, f
<1>4. /\ AllPaths \subseteq Routes /\ from \in AllPaths /\ from \in Routes /\ to \in Routes
      /\ ~IsPrefix(from, to) /\ Paths \subseteq AllPaths
  BY PathsAreRoutes DEF MayMove, CanRename
<1>5. ASSUME NEW h \in Handles, f[h].st # "none"
      PROVE  /\ f[h].path \in AllPaths \ {<< >>} /\ m[f[h].path] = f[h].file
             /\ f[h].file # None /\ n[f[h].file].kind = "file"
  <2> DEFINE p == hs[h].path
  <2>1. p \in AllPaths \ {<< >>} /\ t[p] = hs[h].file /\ hs[h].file # None
        /\ n[hs[h].file].kind = "file" /\ p # to
    BY <1>2, <1>5 DEF Sound, Leads, MayMove, Held
  <2> HIDE DEF p
  <2>2. f[h].path = Renamed(p, from, to)
    BY <1>2 DEF p
  <2>3. CASE IsPrefix(from, p)
    <3>1. Renamed(p, from, to) \in AllPaths /\ m[Renamed(p, from, to)] = t[p]
      BY <1>1, <2>1, <2>3
    <3>2. Renamed(p, from, to) # << >>
      <4>1. p = from => Renamed(p, from, to) = to
        BY <1>4, <2>1, <2>3, RenamedAgain
      <4>2. p # from => Renamed(p, from, to) # << >>
        BY <1>4, <2>1, <2>3, RenamedLast
      <4> QED BY <4>1, <4>2
    <3> QED BY <1>2, <2>1, <2>2, <3>1, <3>2
  <2>4. CASE ~IsPrefix(from, p)
    <3>1. f[h].path = p
      BY <2>2, <2>4 DEF Renamed
    <3> QED BY <1>1, <1>2, <2>1, <2>4, <3>1
  <2> QED BY <2>3, <2>4
<1>6. ASSUME NEW s \in AllPaths \ Paths, m[s] # None
      PROVE  \E h \in Handles : Held(f, h, s)
  <2>1. s \in Routes
    BY <1>4
  <2>2. CASE ~IsPrefix(to, s)
    <3>1. ~IsPrefix(from, s) /\ t[s] # None
      BY <1>1, <1>6, <2>2
    <3>2. PICK h \in Handles : Held(hs, h, s)
      BY <3>1 DEF Sound, SecretsHeld
    <3>3. Renamed(s, from, to) = s
      BY <3>1 DEF Renamed
    <3> QED BY <1>2, <3>2, <3>3 DEF Held
  <2>3. CASE IsPrefix(to, s)
    <3> DEFINE r == Renamed(s, to, from)
    <3>1. r \in AllPaths /\ IsPrefix(from, r) /\ t[r] # None
      BY <1>1, <1>6, <2>3
    <3>2. Renamed(r, from, to) = s
      BY <1>4, <2>1, <2>3, RenamedAgain
    <3>3. \E h \in Handles : Held(hs, h, r)
      <4>1. CASE s = to
        <5>1. r = from
          BY <1>4, <2>1, <2>3, <4>1, RenamedAgain
        <5> QED BY <4>1, <5>1 DEF MayMove
      <4>2. CASE s # to
        <5>1. Last(r) = Last(s) /\ r # << >> /\ s # << >>
          BY <1>4, <2>1, <2>3, <4>2, RenamedLast
        <5>2. r \notin Paths
          BY <3>1, <5>1, PathsAndSecrets
        <5> QED BY <3>1, <5>2 DEF Sound, SecretsHeld
      <4> QED BY <4>1, <4>2
    <3> HIDE DEF r
    <3> QED BY <1>2, <3>2, <3>3 DEF Held
  <2> QED BY <2>2, <2>3
<1> QED BY <1>2, <1>3, <1>5, <1>6 DEF Sound, Leads, SecretsHeld, m, f

(* libfuse always finds a secret name: there are as many as open files. *)
LEMMA SecretExists ==
    ASSUME Sound(at, node, handle), NEW p \in Paths \ {<< >>}, IsOpen(p)
    PROVE  SecretFor(p) \in Secret(Front(p)) /\ at[SecretFor(p)] = None
<1> SUFFICES ASSUME \A q \in Secret(Front(p)) : at[q] # None PROVE FALSE
  BY DEF SecretFor
<1>1. PICK g \in Handles : Held(handle, g, p)
  BY DEF IsOpen, Held
<1>2. \A n \in SecretNames : Append(Front(p), n) \in Secret(Front(p))
  BY DEF Secret
<1>3. ASSUME NEW n \in SecretNames
      PROVE  \E h \in Handles \ {g} : Held(handle, h, Append(Front(p), n))
  <2>1. Append(Front(p), n) \in AllPaths \ Paths
    BY <1>2, SecretOf
  <2>2. PICK h \in Handles : Held(handle, h, Append(Front(p), n))
    BY <1>2, <2>1 DEF Sound, SecretsHeld
  <2>3. h # g
    BY <1>1, <2>1, <2>2 DEF Held
  <2> QED BY <2>2, <2>3
<1> DEFINE f == [n \in SecretNames |-> CHOOSE h \in Handles \ {g} : Held(handle, h, Append(Front(p), n))]
<1>4. \A n \in SecretNames : f[n] \in Handles \ {g} /\ Held(handle, f[n], Append(Front(p), n))
  BY <1>3
<1>5. f \in [SecretNames -> Handles \ {g}]
  BY <1>4
<1> HIDE DEF f
<1>6. /\ IsFiniteSet(SecretNames) /\ IsFiniteSet(Handles \ {g})
      /\ Cardinality(Handles \ {g}) < Cardinality(SecretNames)
  <2>1. /\ IsFiniteSet(SecretNames) /\ IsFiniteSet(Handles)
        /\ Cardinality(Handles) <= Cardinality(SecretNames)
    BY PassThroughAssumption
  <2>2. Cardinality(SecretNames) \in Nat /\ Cardinality(Handles) \in Nat
    BY <2>1, FS_CardinalityType
  <2>3. IsFiniteSet(Handles \ {g}) /\ Cardinality(Handles \ {g}) = Cardinality(Handles) - 1
    BY <1>1, <2>1, FS_RemoveElement
  <2> QED BY <2>1, <2>2, <2>3
<1>7. PICK n, k \in SecretNames : n # k /\ f[n] = f[k]
  BY <1>5, <1>6, FS_PigeonHole
<1>8. Append(Front(p), n) = Append(Front(p), k)
  BY <1>4, <1>7 DEF Held
<1>9. n = k
  <2>1. Front(p) \in Routes /\ n \in Names /\ k \in Names
    BY PathsAreRoutes, Fronts DEF Names
  <2> QED BY <1>8, <2>1, AppendInjective DEF Routes
<1> QED BY <1>7, <1>9

LEMMA MayHide ==
    ASSUME Sound(at, node, handle), NEW p \in Paths \ {<< >>}, IsOpen(p)
    PROVE  /\ SecretFor(p) \in AllPaths \ {<< >>} /\ SecretFor(p) \notin Paths
           /\ p # SecretFor(p) /\ ~IsDir(at, node, p) /\ at[p] # None
           /\ MayMove(at, node, handle, p, SecretFor(p))
<1> DEFINE s == SecretFor(p)
<1>1. s \in Secret(Front(p)) /\ at[s] = None
  BY SecretExists
<1> HIDE DEF s
<1>2. s \in AllPaths \ {<< >>} /\ s \notin Paths /\ Front(s) = Front(p) /\ Len(s) = Len(p)
  BY <1>1, SecretOf
<1>3. PICK g \in Handles : Held(handle, g, p)
  BY DEF IsOpen, Held
<1>4. at[p] # None /\ node[at[p]].kind = "file"
  BY <1>3 DEF Sound, Leads, Held
<1>5. ~IsDir(at, node, p)
  BY <1>4 DEF IsDir
<1>6. p \in Routes /\ s \in Routes /\ p \in AllPaths
  BY <1>2, PathsAreRoutes
<1>7. ~IsPrefix(p, s)
  <2>1. Len(s) \in Nat
    BY <1>6, RouteTypes
  <2> QED BY <1>2, <1>6, <2>1, PrefixOrder
<1>8. IsDir(at, node, Front(s))
  <2>1. Front(p) \in AllPaths /\ IsPrefix(Front(p), p) /\ Front(p) # p
    BY <1>6, Fronts, PassThroughAssumption, PathsAreRoutes
  <2> QED BY <1>2, <1>4, <1>6, <2>1 DEF Sound, IsTree, IsDir
<1>9. CanRename(at, node, p, s)
  BY <1>1, <1>4, <1>7, <1>8 DEF CanRename
<1>10. HasRoom(at, p, s)
  <2>1. DOMAIN at = AllPaths
    BY DEF Sound, IsTree
  <2>2. ASSUME NEW q \in AllPaths, at[q] # None PROVE Renamed(q, p, s) \in AllPaths
    <3>1. CASE IsPrefix(p, q)
      <4>1. q = p
        BY <1>5, <1>6, <2>2, <3>1, NothingBelow DEF Sound
      <4>2. Renamed(q, p, s) = s
        BY <1>6, <3>1, <4>1, RenamedAgain
      <4> QED BY <1>2, <4>2
    <3>2. CASE ~IsPrefix(p, q)
      BY <3>2 DEF Renamed
    <3> QED BY <3>1, <3>2
  <2> QED BY <2>1, <2>2 DEF HasRoom
<1>11. \A h \in Handles : ~Held(handle, h, s)
  BY <1>1 DEF Sound, Leads, Held
<1>12. MayMove(at, node, handle, p, s)
  BY <1>3, <1>9, <1>10, <1>11 DEF MayMove
<1>13. p # s
  BY <1>2
<1> QED BY <1>2, <1>4, <1>5, <1>12, <1>13 DEF s

(* Only a name that nothing is below, and no open file has, goes. *)
LEMMA WithoutSound ==
    ASSUME NEW t, NEW n, NEW hs, NEW p \in AllPaths \ {<< >>}, IsTree(t, n), Leads(t, n, hs),
           \A s \in (AllPaths \ Paths) \ {p} : t[s] # None => \E h \in Handles : Held(hs, h, s),
           ~IsDir(t, n, p) \/ Entries(t, p) = {}, \A h \in Handles : ~Held(hs, h, p)
    PROVE  Sound(Without(t, p), n, hs)
<1> DEFINE m == Without(t, p)
<1>1. t \in [AllPaths -> Inodes \cup {None}]
  BY DEF IsTree
<1>2. /\ m \in [AllPaths -> Inodes \cup {None}]
      /\ \A q \in AllPaths : m[q] = IF q = p THEN None ELSE t[q]
  BY <1>1 DEF Without
<1> HIDE DEF m
<1>3. \A q \in AllPaths : t[q] # None /\ IsPrefix(p, q) => q = p
  BY NothingBelow
<1>4. IsTree(m, n)
  BY <1>2, <1>3 DEF IsTree
<1>5. Leads(m, n, hs)
  BY <1>2 DEF Leads, Held
<1>6. SecretsHeld(m, hs)
  BY <1>2 DEF SecretsHeld
<1> QED BY <1>4, <1>5, <1>6 DEF Sound, m

(* A new name for i, which is new itself or no directory *)
LEMMA NameSound ==
    ASSUME NEW t, NEW n, NEW hs, Sound(t, n, hs), NEW p \in Paths \ {<< >>}, CanCreate(t, n, p),
           NEW i \in Inodes, n[i].kind # "free",
           n[i].kind # "dir" \/ \A q \in AllPaths : t[q] # i
    PROVE  Sound([t EXCEPT ![p] = i], n, hs)
<1> DEFINE m == [t EXCEPT ![p] = i]
<1>1. /\ t \in [AllPaths -> Inodes \cup {None}] /\ p \in AllPaths /\ i # None
      /\ AllPaths \subseteq Routes /\ t[p] = None
  BY PathsAreRoutes, PassThroughAssumption DEF Sound, IsTree, CanCreate
<1>2. /\ m \in [AllPaths -> Inodes \cup {None}]
      /\ \A q \in AllPaths : m[q] = IF q = p THEN i ELSE t[q]
  BY <1>1
<1> HIDE DEF m
<1>3. \A q \in AllPaths : t[q] # None /\ IsPrefix(p, q) => q = p
  BY <1>1, NothingBelow DEF Sound, IsDir
<1>4. \A d \in AllPaths : IsPrefix(d, p) /\ d # p => t[d] # None /\ n[t[d]].kind = "dir"
  <2> SUFFICES ASSUME NEW d \in AllPaths, IsPrefix(d, p), d # p
               PROVE  t[d] # None /\ n[t[d]].kind = "dir"
    OBVIOUS
  <2>1. IsPrefix(d, Front(p)) /\ Front(p) \in AllPaths
    BY <1>1, Fronts DEF CanCreate, IsDir
  <2>2. t[Front(p)] # None /\ n[t[Front(p)]].kind = "dir"
    BY DEF CanCreate, IsDir
  <2> QED BY <2>1, <2>2 DEF Sound, IsTree
<1>5. IsTree(m, n)
  <2>1. \A q \in AllPaths : m[q] # None => n[m[q]].kind # "free"
    BY <1>2 DEF Sound, IsTree
  <2>2. \A q, d \in AllPaths : m[q] # None /\ IsPrefix(d, q) /\ d # q =>
            m[d] # None /\ n[m[d]].kind = "dir"
    BY <1>1, <1>2, <1>3, <1>4 DEF Sound, IsTree
  <2>3. \A r, q \in AllPaths : m[r] # None /\ m[r] = m[q] /\ n[m[r]].kind = "dir" => r = q
    BY <1>2 DEF Sound, IsTree
  <2> QED BY <1>2, <2>1, <2>2, <2>3 DEF IsTree
<1>6. Leads(m, n, hs)
  BY <1>1, <1>2 DEF Sound, Leads
<1>7. SecretsHeld(m, hs)
  BY <1>2 DEF Sound, SecretsHeld
<1> QED BY <1>5, <1>6, <1>7 DEF Sound, m

(* Inodes that have a name may only change in what is in them. *)
LEMMA NodesSound ==
    ASSUME NEW t, NEW n, NEW hs, NEW k, Sound(t, n, hs),
           \A q \in AllPaths : t[q] # None => k[t[q]].kind = n[t[q]].kind
    PROVE  Sound(t, k, hs)
<1>1. IsTree(t, k)
  BY DEF Sound, IsTree
<1>2. Leads(t, k, hs)
  BY DEF Sound, Leads
<1> QED BY <1>1, <1>2 DEF Sound

Nodes == [kind : Kinds \cup {"free", "file", "dir", "link"}, data : SUBSET (Data \cup {Root}),
          perm : BOOLEAN]

LEMMA CollectSound ==
    ASSUME NEW t, NEW n, NEW hs, NEW held, Sound(t, n, hs), n \in [Inodes -> Nodes]
    PROVE  Sound(t, Collect(t, held, n), hs) /\ Collect(t, held, n) \in [Inodes -> Nodes]
<1> DEFINE k == Collect(t, held, n)
<1>1. t \in [AllPaths -> Inodes \cup {None}]
  BY DEF Sound, IsTree
<1>2. \A i \in Inodes : k[i] = IF i \in held \/ \E q \in AllPaths : t[q] = i THEN n[i] ELSE Free
  BY <1>1 DEF Collect
<1>3. Free \in Nodes
  BY DEF Free, Nodes, Empty
<1>4. k \in [Inodes -> Nodes]
  BY <1>3 DEF Collect
<1> HIDE DEF k
<1>5. \A q \in AllPaths : t[q] # None => k[t[q]].kind = n[t[q]].kind
  BY <1>1, <1>2
<1> QED BY <1>4, <1>5, NodesSound DEF k

NamesInv ==
    /\ fs \in Systems
    /\ fds \in [Fds -> Inodes \cup {None}]
    /\ node \in [Inodes -> Nodes]
    /\ Sound(at, node, handle)

LEMMA ChangeKeepsNames ==
    ASSUME NamesInv, NEW new, NEW table, Change(new, table), Sound(new, node, table),
           \A h \in Handles : table[h].st = handle[h].st
    PROVE  NamesInv'
<1>1. /\ at' = new /\ handle' = table /\ node' = Collect(new, OpenInodes(fds), node)
      /\ UNCHANGED <<fs, fds>>
  BY DEF Change
<1>2. Sound(at', node', handle') /\ node' \in [Inodes -> Nodes]
  BY <1>1, CollectSound DEF NamesInv
<1> QED BY <1>1, <1>2 DEF NamesInv

LEMMA RefuseKeepsNames ==
    NamesInv /\ UNCHANGED <<fs, at, node, fds, handle>> => NamesInv'
  BY DEF NamesInv

(* mknod, mkdir and symlink *)
LEMMA AddKeepsNames ==
    ASSUME NamesInv, NEW p \in Paths \ {<< >>}, NEW kind \in Kinds \cup {"file", "dir", "link"},
           NEW data \in SUBSET (Data \cup {Root}), Add(p, kind, data)
    PROVE  NamesInv'
<1>1. PICK i \in Inodes :
         /\ node[i] = Free /\ at' = [at EXCEPT ![p] = i]
         /\ node' = [node EXCEPT ![i] = [kind |-> kind, data |-> data, perm |-> TRUE]]
  BY DEF Add
<1>2. CanCreate(at, node, p) /\ UNCHANGED <<fs, fds, handle>>
  BY DEF Add
<1>3. kind # "free"
  BY PassThroughAssumption
<1>4. /\ node' \in [Inodes -> Nodes] /\ node'[i].kind = kind
      /\ \A j \in Inodes : j # i => node'[j] = node[j]
  BY <1>1 DEF NamesInv, Nodes
<1>5. \A q \in AllPaths : at[q] # i
  BY <1>1, PassThroughAssumption DEF NamesInv, Sound, IsTree, Free
<1>6. \A q \in AllPaths : at[q] # None => node'[at[q]].kind = node[at[q]].kind
  BY <1>4, <1>5 DEF NamesInv, Sound, IsTree
<1>7. Sound(at, node', handle)
  BY <1>6, NodesSound DEF NamesInv
<1>8. CanCreate(at, node', p)
  BY <1>2, <1>6 DEF CanCreate, IsDir, NamesInv, Sound, IsTree
<1>9. Sound(at', node', handle)
  BY <1>1, <1>3, <1>4, <1>5, <1>7, <1>8, NameSound
<1> QED BY <1>2, <1>4, <1>9 DEF NamesInv

LEMMA AlterKeepsNames ==
    ASSUME NamesInv, NEW i \in Inodes, NEW new \in Nodes, new.kind = node[i].kind, Alter(i, new)
    PROVE  NamesInv'
<1>1. node' = [node EXCEPT ![i] = new] /\ UNCHANGED <<fs, at, fds, handle>>
  BY DEF Alter
<1>2. node' \in [Inodes -> Nodes] /\ \A j \in Inodes : node'[j].kind = node[j].kind
  BY <1>1 DEF NamesInv
<1>3. Sound(at, node', handle)
  <2>1. \A q \in AllPaths : at[q] # None => node'[at[q]].kind = node[at[q]].kind
    BY <1>2 DEF NamesInv, Sound, IsTree
  <2> QED BY <2>1, NodesSound DEF NamesInv
<1> QED BY <1>1, <1>2, <1>3 DEF NamesInv

LEMMA UnlinkKeepsNames ==
    ASSUME NamesInv, NEW p \in Paths \ {<< >>}, Unlink(p)
    PROVE  NamesInv'
<1>1. p \in AllPaths
  BY PathsAreRoutes
<1>2. CASE CanUnlink(at, node, p) /\ ~IsOpen(p) /\ Change(Without(at, p), handle)
  <2>1. Sound(Without(at, p), node, handle)
    BY <1>1, <1>2, WithoutSound DEF CanUnlink, IsOpen, Held, NamesInv, Sound, SecretsHeld
  <2> QED BY <1>2, <2>1, ChangeKeepsNames
<1>3. CASE IsOpen(p) /\ Change(Move(at, p, SecretFor(p)), Follow(handle, p, SecretFor(p)))
  <2>1. Sound(Move(at, p, SecretFor(p)), node, Follow(handle, p, SecretFor(p)))
    BY <1>3, MayHide, MoveSound DEF NamesInv
  <2>2. \A h \in Handles : Follow(handle, p, SecretFor(p))[h].st = handle[h].st
    BY FollowIs DEF NamesInv, Sound
  <2> QED BY <1>3, <2>1, <2>2, ChangeKeepsNames
<1>4. CASE Refuse
  BY <1>4, RefuseKeepsNames DEF Refuse
<1> QED BY <1>2, <1>3, <1>4 DEF Unlink

LEMMA RmdirKeepsNames ==
    ASSUME NamesInv, NEW p \in Paths \ {<< >>}, Rmdir(p)
    PROVE  NamesInv'
<1>1. CASE CanRmdir(at, node, p) /\ Change(Without(at, p), handle)
  <2>1. p \in AllPaths /\ \A h \in Handles : ~Held(handle, h, p)
    BY <1>1, PathsAreRoutes DEF CanRmdir, IsDir, NamesInv, Sound, Leads, Held
  <2>2. Sound(Without(at, p), node, handle)
    BY <1>1, <2>1, WithoutSound DEF CanRmdir, NamesInv, Sound, SecretsHeld
  <2> QED BY <1>1, <2>2, ChangeKeepsNames
<1>2. CASE Refuse
  BY <1>2, RefuseKeepsNames DEF Refuse
<1> QED BY <1>1, <1>2 DEF Rmdir

LEMMA LinkKeepsNames ==
    ASSUME NamesInv, NEW p \in Paths \ {<< >>}, NEW q \in Paths \ {<< >>}, Link(p, q)
    PROVE  NamesInv'
<1>1. CASE CanLink(at, node, p, q) /\ Change([at EXCEPT ![q] = at[p]], handle)
  <2>1. /\ p \in AllPaths /\ at[p] \in Inodes /\ CanCreate(at, node, q)
        /\ node[at[p]].kind # "free" /\ node[at[p]].kind # "dir"
    BY <1>1, PathsAreRoutes DEF CanLink, CanUnlink, IsDir, NamesInv, Sound, IsTree
  <2>2. Sound([at EXCEPT ![q] = at[p]], node, handle)
    BY <2>1, NameSound DEF NamesInv
  <2> QED BY <1>1, <2>2, ChangeKeepsNames
<1>2. CASE Refuse
  BY <1>2, RefuseKeepsNames DEF Refuse
<1> QED BY <1>1, <1>2 DEF Link

(* A file that is replaced while it is open first gets a secret name; the  *)
(* rename that follows is still possible.                                  *)
LEMMA HiddenFirst ==
    ASSUME NamesInv, NEW from \in Paths \ {<< >>}, NEW to \in Paths \ {<< >>}, from # to, IsOpen(to),
           CanRename(at, node, from, to), HasRoom(at, from, to)
    PROVE  LET t == Move(at, to, SecretFor(to))
               hs == Follow(handle, to, SecretFor(to))
           IN  /\ Sound(t, node, hs) /\ MayMove(t, node, hs, from, to)
               /\ t[to] = None /\ t[from] # None
               /\ \A h \in Handles : hs[h].st = handle[h].st
<1> DEFINE s == SecretFor(to)
           t == Move(at, to, s)
           hs == Follow(handle, to, s)
<1>1. /\ s \in AllPaths \ {<< >>} /\ s \notin Paths /\ to # s
      /\ ~IsDir(at, node, to) /\ at[to] # None /\ MayMove(at, node, handle, to, s)
      /\ Sound(at, node, handle)
  BY MayHide DEF NamesInv
<1>2. s \in Secret(Front(to))
  BY SecretExists DEF NamesInv
<1>3. Front(s) = Front(to) /\ Len(s) = Len(to)
  BY <1>2, SecretOf
<1>4. Sound(t, node, hs)
  BY <1>1, MoveSound
<1>5. \A h \in Handles : hs[h].st = handle[h].st /\ hs[h].path = Renamed(handle[h].path, to, s)
  BY <1>1, FollowIs DEF Sound
<1>6. /\ \A q \in AllPaths : t[q] # None =>
            \/ /\ IsPrefix(s, q) /\ Renamed(q, s, to) \in AllPaths
               /\ IsPrefix(to, Renamed(q, s, to)) /\ t[q] = at[Renamed(q, s, to)]
            \/ ~IsPrefix(s, q) /\ ~IsPrefix(to, q) /\ t[q] = at[q]
      /\ \A r \in AllPaths : at[r] # None /\ ~IsPrefix(to, r) /\ r # s => t[r] = at[r]
  BY <1>1, MoveIs
<1> HIDE DEF t, hs, s
<1>7. /\ AllPaths \subseteq Routes /\ Paths \subseteq AllPaths
      /\ to \in Routes /\ s \in Routes /\ from \in Routes /\ from \in AllPaths /\ to \in AllPaths
      /\ DOMAIN at = AllPaths /\ DOMAIN t = AllPaths
  BY <1>1, <1>4, PathsAreRoutes DEF Sound, IsTree
<1>8. /\ ~IsPrefix(s, to) /\ ~IsPrefix(from, to) /\ at[from] # None
      /\ IsDir(at, node, Front(to)) /\ Front(to) \in Paths
  <2>1. Len(s) \in Nat
    BY <1>7, RouteTypes
  <2>2. ~IsPrefix(s, to)
    BY <1>1, <1>3, <1>7, <2>1, PrefixOrder
  <2> QED BY <2>2, PassThroughAssumption DEF CanRename
<1>9. \A q \in AllPaths : at[q] # None /\ IsPrefix(to, q) => q = to
  BY <1>1, <1>7, NothingBelow DEF Sound
<1>10. t[from] = at[from]
  BY <1>1, <1>6, <1>7, <1>8, <1>9
<1>11. t[to] = None
  BY <1>6, <1>7, <1>8, PrefixOrder
<1>12. IsDir(t, node, Front(to))
  <2>1. ~IsPrefix(to, Front(to))
    <3>1. IsPrefix(Front(to), to) /\ Front(to) # to
      BY <1>7, Fronts
    <3> QED BY <1>7, <1>8, <3>1, PrefixOrder
  <2> QED BY <1>1, <1>6, <1>7, <1>8, <2>1 DEF IsDir
<1>13. CanRename(t, node, from, to)
  BY <1>8, <1>10, <1>11, <1>12 DEF CanRename
<1>14. ASSUME NEW q \in AllPaths, t[q] # None PROVE Renamed(q, from, to) \in AllPaths
  <2>1. CASE IsPrefix(s, q)
    <3>1. Renamed(q, s, to) \in AllPaths /\ at[Renamed(q, s, to)] # None /\ IsPrefix(to, Renamed(q, s, to))
      BY <1>6, <1>14, <2>1
    <3>2. Renamed(q, s, to) = to
      BY <1>9, <3>1
    <3>3. q = s
      BY <1>7, <2>1, <3>2, RenamedAgain
    <3>4. ~IsPrefix(from, s)
      <4> SUFFICES ASSUME IsPrefix(from, s) PROVE FALSE
        OBVIOUS
      <4>1. from # s
        BY <1>1
      <4>2. IsPrefix(from, Front(to)) /\ Front(to) \in Routes
        BY <1>1, <1>3, <1>7, <4>1, Fronts
      <4>3. IsPrefix(Front(to), to)
        BY <1>7, Fronts
      <4> QED BY <1>7, <1>8, <4>2, <4>3, PrefixOrder
    <3> QED BY <3>3, <3>4 DEF Renamed
  <2>2. CASE ~IsPrefix(s, q)
    BY <1>6, <1>7, <1>14, <2>2 DEF HasRoom
  <2> QED BY <2>1, <2>2
<1>15. HasRoom(t, from, to)
  BY <1>7, <1>14 DEF HasRoom
<1>16. ASSUME NEW h \in Handles, Held(hs, h, to) PROVE FALSE
  <2> DEFINE p == handle[h].path
  <2>1. p \in Routes /\ Renamed(p, to, s) = to
    BY <1>1, <1>5, <1>7, <1>16 DEF Held, Sound, Leads
  <2> HIDE DEF p
  <2>2. CASE IsPrefix(to, p)
    BY <1>7, <1>8, <2>1, <2>2, RenamedAgain
  <2>3. CASE ~IsPrefix(to, p)
    <3>1. p = to
      BY <2>1, <2>3 DEF Renamed
    <3> QED BY <1>7, <2>3, <3>1, PrefixOrder
  <2> QED BY <2>2, <2>3
<1>17. MayMove(t, node, hs, from, to)
  BY <1>13, <1>15, <1>16 DEF MayMove
<1>18. t[from] # None
  BY <1>8, <1>10
<1> QED BY <1>4, <1>5, <1>11, <1>17, <1>18 DEF t, hs, s

(* Two names of one file both stay; what is open under the one goes on     *)
(* under the other.                                                        *)
LEMMA SameFileSound ==
    ASSUME NEW t, NEW n, NEW hs, Sound(t, n, hs), NEW from \in Paths \ {<< >>},
           NEW to \in Paths \ {<< >>}, from # to, t[from] # None, t[from] = t[to]
    PROVE  Sound(t, n, Follow(hs, from, to))
<1> DEFINE f == Follow(hs, from, to)
<1>1. /\ AllPaths \subseteq Routes /\ Paths \subseteq AllPaths /\ from \in AllPaths /\ to \in AllPaths
      /\ from \in Routes /\ to \in Routes
  BY PathsAreRoutes
<1>2. DOMAIN f = Handles /\ \A h \in Handles :
         /\ DOMAIN f[h] = {"st", "path", "fh", "refs", "file"}
         /\ f[h].st = hs[h].st /\ f[h].file = hs[h].file
         /\ f[h].path = Renamed(hs[h].path, from, to)
  <2>1. Leads(t, n, hs) /\ DOMAIN f = Handles
    BY DEF Sound, Follow
  <2> QED BY <2>1, FollowIs
<1> HIDE DEF f
<1>3. ~IsDir(t, n, from)
  BY <1>1 DEF Sound, IsTree, IsDir
<1>4. \A q \in AllPaths : t[q] # None /\ IsPrefix(from, q) => q = from
  BY <1>1, <1>3, NothingBelow DEF Sound
<1>5. \A q \in AllPaths : t[q] # None => Renamed(q, from, to) = IF q = from THEN to ELSE q
  <2> SUFFICES ASSUME NEW q \in AllPaths, t[q] # None
               PROVE  Renamed(q, from, to) = IF q = from THEN to ELSE q
    OBVIOUS
  <2>1. CASE IsPrefix(from, q)
    BY <1>1, <1>4, <2>1, RenamedAgain
  <2>2. CASE ~IsPrefix(from, q)
    BY <1>1, <2>2, PrefixOrder DEF Renamed
  <2> QED BY <2>1, <2>2
<1>6. Leads(t, n, f)
  BY <1>1, <1>2, <1>5 DEF Sound, Leads
<1>7. SecretsHeld(t, f)
  BY <1>1, <1>2, <1>5 DEF Sound, SecretsHeld, Held
<1> QED BY <1>6, <1>7 DEF Sound, f

LEMMA RenameCallSound ==
    ASSUME NEW t, NEW n, NEW hs, Sound(t, n, hs), NEW from \in Paths \ {<< >>},
           NEW to \in Paths \ {<< >>}, from # to, MayMove(t, n, hs, from, to)
    PROVE  Sound(RenameCall(t, from, to), n, Follow(hs, from, to))
<1>1. to \in AllPaths \ {<< >>} /\ t[from] # None
  BY PathsAreRoutes DEF MayMove, CanRename
<1>2. CASE t[from] = t[to]
  BY <1>1, <1>2, SameFileSound DEF RenameCall
<1>3. CASE t[from] # t[to]
  BY <1>1, <1>3, MoveSound DEF RenameCall
<1> QED BY <1>2, <1>3

LEMMA RenameKeepsNames ==
    ASSUME NamesInv, NEW from \in Paths \ {<< >>}, NEW to \in Paths \ {<< >>}, Rename(from, to)
    PROVE  NamesInv'
<1>1. from # to /\ HasRoom(at, from, to) /\ Sound(at, node, handle)
  BY DEF Rename, NamesInv
<1>2. CASE /\ CanRename(at, node, from, to) /\ ~IsOpen(to)
           /\ Change(RenameCall(at, from, to), Follow(handle, from, to))
  <2>1. MayMove(at, node, handle, from, to)
    BY <1>1, <1>2 DEF MayMove, IsOpen, Held
  <2>2. Sound(RenameCall(at, from, to), node, Follow(handle, from, to))
    BY <1>1, <2>1, RenameCallSound
  <2>3. \A h \in Handles : Follow(handle, from, to)[h].st = handle[h].st
    BY <1>1, FollowIs DEF Sound
  <2> QED BY <1>2, <2>2, <2>3, ChangeKeepsNames
<1>3. CASE /\ CanRename(at, node, from, to) /\ IsOpen(to)
           /\ Change(RenameCall(Move(at, to, SecretFor(to)), from, to),
                     Follow(Follow(handle, to, SecretFor(to)), from, to))
  <2> DEFINE t == Move(at, to, SecretFor(to))
             hs == Follow(handle, to, SecretFor(to))
  <2>1. /\ Sound(t, node, hs) /\ MayMove(t, node, hs, from, to)
        /\ \A h \in Handles : hs[h].st = handle[h].st
    BY <1>1, <1>3, HiddenFirst
  <2> HIDE DEF t, hs
  <2>2. Sound(RenameCall(t, from, to), node, Follow(hs, from, to))
    BY <1>1, <2>1, RenameCallSound
  <2>3. \A h \in Handles : Follow(hs, from, to)[h].st = handle[h].st
    BY <2>1, FollowIs DEF Sound
  <2>4. Change(RenameCall(t, from, to), Follow(hs, from, to))
    BY <1>3 DEF t, hs
  <2> QED BY <2>2, <2>3, <2>4, ChangeKeepsNames
<1>4. CASE Refuse
  BY <1>4, RefuseKeepsNames DEF Refuse
<1> QED BY <1>2, <1>3, <1>4 DEF Rename

LEMMA ChmodKeepsNames ==
    ASSUME NamesInv, NEW p \in Paths \ {<< >>}, Chmod(p) \/ Truncate(p)
    PROVE  NamesInv'
<1>1. CASE Refuse
  BY <1>1, RefuseKeepsNames DEF Refuse
<1>2. ASSUME Getattr(p) # None,
             NEW new \in {[node[at[p]] EXCEPT !.perm = ~@], [node[at[p]] EXCEPT !.data = Empty]},
             Alter(at[p], new)
      PROVE  NamesInv'
  <2>1. at[p] \in Inodes
    BY <1>2, PathsAreRoutes DEF Getattr, NamesInv, Sound, IsTree
  <2>2. node[at[p]] \in Nodes
    BY <2>1 DEF NamesInv
  <2>3. new \in Nodes /\ new.kind = node[at[p]].kind
    BY <1>2, <2>2 DEF Nodes, Empty
  <2> QED BY <1>2, <2>1, <2>3, AlterKeepsNames
<1>3. (MayWrite(p) => Getattr(p) # None)
  BY PassThroughAssumption DEF MayWrite
<1> QED BY <1>1, <1>2, <1>3 DEF Chmod, Truncate

(* write and ftruncate on what the descriptor is open on *)
LEMMA WriteKeepsNames ==
    ASSUME NamesInv, FdInv, NEW h \in Handles,
           (\E d \in Data : Write(h, d)) \/ Ftruncate(h)
    PROVE  NamesInv'
<1> DEFINE i == fds[handle[h].fh]
<1>1. handle[h].fh \in Fds /\ i # None
  BY DEF Write, Ftruncate, FdInv, HoldersServed, IsHeld
<1>2. i \in Inodes
  BY <1>1 DEF NamesInv
<1>3. node[i] \in Nodes
  BY <1>2 DEF NamesInv
<1>4. PICK data \in SUBSET Data : Alter(i, [node[i] EXCEPT !.data = data])
  BY DEF Write, Ftruncate, Empty
<1> HIDE DEF i
<1> DEFINE new == [node[i] EXCEPT !.data = data]
<1>5. new \in Nodes /\ new.kind = node[i].kind
  BY <1>3, <1>4 DEF Nodes
<1> QED BY <1>2, <1>4, <1>5, AlterKeepsNames

LEMMA NamedKeepsNames ==
    ASSUME NamesInv, Named
    PROVE  NamesInv'
<1>1. PICK p \in Paths \ {<< >>} :
         \/ \E kind \in Kinds : Mknod(p, kind) \/ MknodServed(p, kind)
         \/ Mkdir(p) \/ Unlink(p) \/ Rmdir(p)
         \/ \E to \in Data : Symlink(to, p) \/ SymlinkServed(to, p)
         \/ \E q \in Paths \ {<< >>} : Link(p, q) \/ Rename(p, q)
         \/ Chmod(p) \/ Truncate(p) \/ TruncateLocal(p) \/ Readlink(p) \/ Access(p)
  BY DEF Named
<1>2. CASE Refuse \/ TruncateLocal(p) \/ Readlink(p) \/ Access(p)
  BY <1>2, RefuseKeepsNames DEF Refuse, TruncateLocal, Readlink, Access, Tell
<1>3. ASSUME NEW kind \in Kinds, Mknod(p, kind) \/ MknodServed(p, kind) PROVE NamesInv'
  <2>1. Add(p, kind, Empty) \/ Add(p, "file", Empty) \/ Refuse
    BY <1>3 DEF Mknod, MknodServed, Create
  <2>2. Empty \in SUBSET (Data \cup {Root})
    BY DEF Empty
  <2> QED BY <1>2, <2>1, <2>2, AddKeepsNames
<1>4. CASE Mkdir(p)
  <2>1. Empty \in SUBSET (Data \cup {Root})
    BY DEF Empty
  <2> QED BY <1>2, <1>4, <2>1, AddKeepsNames DEF Mkdir, Create
<1>5. ASSUME NEW to \in Data, Symlink(to, p) \/ SymlinkServed(to, p) PROVE NamesInv'
  <2>1. Add(p, "link", {to}) \/ Add(p, "link", Rooted(to)) \/ Refuse
    BY <1>5 DEF Symlink, SymlinkServed, Create
  <2>2. {to} \in SUBSET (Data \cup {Root}) /\ Rooted(to) \in SUBSET (Data \cup {Root})
    BY DEF Rooted
  <2> QED BY <1>2, <2>1, <2>2, AddKeepsNames
<1> QED BY <1>1, <1>2, <1>3, <1>4, <1>5, UnlinkKeepsNames, RmdirKeepsNames, LinkKeepsNames,
           RenameKeepsNames, ChmodKeepsNames

LEMMA OpenKeepsNames ==
    ASSUME NamesInv, FdInv, NEW h \in Handles, NEW p \in Paths \ {<< >>}, Open(h, p) \/ OpenServed(h, p)
    PROVE  NamesInv'
<1>1. CASE Refuse
  BY <1>1, RefuseKeepsNames DEF Refuse
<1>2. CASE ~Refuse
  <2>1. /\ handle[h].st = "none" /\ MayWrite(p) /\ UNCHANGED <<fs, at, node>>
        /\ \/ UNCHANGED fds
           \/ fds' = [fds EXCEPT ![LowestFd] = at[p]]
        /\ \E fh : handle' = [handle EXCEPT ![h] = [st |-> "open", path |-> p, fh |-> fh,
                                                    refs |-> 1, file |-> at[p]]]
    BY <1>2 DEF Open, OpenServed
  <2>2. at[p] # None /\ p \in AllPaths
    BY <2>1, MayWriteIsThere, PathsAreRoutes
  <2>3. at[p] \in Inodes /\ node[at[p]].kind = "file"
    BY <2>1, <2>2 DEF MayWrite, Getattr, NamesInv, Sound, IsTree
  <2>4. fds' \in [Fds -> Inodes \cup {None}]
    BY <2>1, <2>3 DEF NamesInv
  <2>5. /\ \A g \in Handles : g # h => handle'[g] = handle[g]
        /\ handle'[h].st = "open" /\ handle'[h].path = p /\ handle'[h].file = at[p]
        /\ DOMAIN handle'[h] = {"st", "path", "fh", "refs", "file"} /\ DOMAIN handle' = Handles
    BY <2>1 DEF FdInv, Tables
  <2>6. Leads(at, node, handle')
    BY <2>2, <2>3, <2>5 DEF NamesInv, Sound, Leads
  <2>7. SecretsHeld(at, handle')
    BY <2>1, <2>5 DEF NamesInv, Sound, SecretsHeld, Held
  <2>8. Sound(at', node', handle')
    BY <2>1, <2>6, <2>7 DEF NamesInv, Sound
  <2> QED BY <2>1, <2>4, <2>8 DEF NamesInv
<1> QED BY <1>1, <1>2

LEMMA UseKeepsNames ==
    ASSUME NamesInv, FdInv, NEW h \in Handles, Dup(h) \/ Close(h)
    PROVE  NamesInv'
<1>1. UNCHANGED <<fs, at, node, fds>> /\ handle[h].st # "none"
  BY DEF Dup, Close, Flush
<1>2. /\ DOMAIN handle' = Handles /\ \A g \in Handles : g # h => handle'[g] = handle[g]
      /\ handle'[h].st # "none" /\ handle'[h].path = handle[h].path
      /\ handle'[h].file = handle[h].file
      /\ DOMAIN handle'[h] = {"st", "path", "fh", "refs", "file"}
  BY DEF Dup, Close, FdInv, Tables
<1>3. Leads(at, node, handle')
  BY <1>1, <1>2 DEF NamesInv, Sound, Leads
<1>4. SecretsHeld(at, handle')
  BY <1>1, <1>2 DEF NamesInv, Sound, SecretsHeld, Held
<1>5. Sound(at', node', handle')
  BY <1>1, <1>3, <1>4 DEF NamesInv, Sound
<1> QED BY <1>1, <1>5 DEF NamesInv

(* A copy that comes back is what is in the file then, and no more. *)
LEMMA ReturnedIs ==
    ASSUME node \in [Inodes -> Nodes], NEW h, NEW new \in Returned(h)
    PROVE  new \in [Inodes -> Nodes] /\ \A i \in Inodes : new[i].kind = node[i].kind
<1> SUFFICES ASSUME NEW data \in Contents,
                    new = [node EXCEPT ![at[handle[h].path]].data = data]
             PROVE  new \in [Inodes -> Nodes] /\ \A i \in Inodes : new[i].kind = node[i].kind
  BY DEF Returned
<1> DEFINE f == at[handle[h].path]
<1>1. data \in SUBSET (Data \cup {Root})
  BY DEF Contents, Empty
<1>2. \A i \in Inodes : new[i] = IF i = f THEN [node[i] EXCEPT !.data = data] ELSE node[i]
  OBVIOUS
<1>3. \A i \in Inodes : new[i] \in Nodes /\ new[i].kind = node[i].kind
  BY <1>1, <1>2 DEF Nodes
<1> QED BY <1>3

LEMMA ReleaseKeepsNames ==
    ASSUME NamesInv, FdInv, NEW h \in Handles, Release(h)
    PROVE  NamesInv'
<1> DEFINE p == handle[h].path
           others == \E g \in Handles \ {h} : Held(handle, g, p)
<1>1. /\ handle[h].st = "closed" /\ UNCHANGED fs
      /\ handle' = [handle EXCEPT ![h] = NoFile]
      /\ at' = IF Last(p) \in SecretNames /\ ~others THEN Without(at, p) ELSE at
  BY DEF Release, Held
<1>2. /\ p \in AllPaths \ {<< >>} /\ at[p] # None /\ node[at[p]].kind = "file"
      /\ IsTree(at, node) /\ node \in [Inodes -> Nodes]
  BY <1>1 DEF NamesInv, Sound, Leads
<1>3. /\ DOMAIN handle' = Handles /\ \A g \in Handles : g # h => handle'[g] = handle[g]
      /\ handle'[h].st = "none"
      /\ DOMAIN handle'[h] = {"st", "path", "fh", "refs", "file"}
  BY <1>1 DEF FdInv, Tables, NoFile
<1>4. Held(handle, h, p) /\ \A s : Held(handle, h, s) => s = p
  BY <1>1 DEF Held
<1> HIDE DEF p
<1>5. Leads(at, node, handle')
  BY <1>3 DEF NamesInv, Sound, Leads
<1>6. \A s \in (AllPaths \ Paths) \ {p} : at[s] # None => \E g \in Handles : Held(handle', g, s)
  BY <1>3, <1>4 DEF NamesInv, Sound, SecretsHeld, Held
<1>7. Sound(at', node, handle')
  <2>1. CASE Last(p) \in SecretNames /\ ~others
    <3>1. \A g \in Handles : ~Held(handle', g, p)
      BY <1>3, <2>1 DEF Held
    <3>2. ~IsDir(at, node, p)
      BY <1>2 DEF IsDir
    <3>3. Sound(Without(at, p), node, handle')
      BY <1>2, <1>5, <1>6, <3>1, <3>2, WithoutSound
    <3> QED BY <1>1, <2>1, <3>3
  <2>2. CASE Last(p) \notin SecretNames
    <3>1. p \in Paths
      BY <1>2, <2>2, PathsAndSecrets
    <3> QED BY <1>1, <1>2, <1>5, <1>6, <2>2, <3>1 DEF Sound, SecretsHeld
  <2>3. CASE others
    <3>1. \E g \in Handles : Held(handle', g, p)
      BY <1>3, <2>3 DEF Held
    <3> QED BY <1>1, <1>2, <1>5, <1>6, <2>3, <3>1 DEF Sound, SecretsHeld
  <2> QED BY <2>1, <2>2, <2>3
<1>8. PICK new \in Returned(h) : node' = Collect(at', OpenInodes(fds'), new)
  BY DEF Release
<1>9. new \in [Inodes -> Nodes] /\ \A i \in Inodes : new[i].kind = node[i].kind
  BY <1>2, ReturnedIs DEF NamesInv
<1>10. Sound(at', new, handle')
  <2>1. \A q \in AllPaths : at'[q] # None => new[at'[q]].kind = node[at'[q]].kind
    BY <1>7, <1>9 DEF Sound, IsTree
  <2> QED BY <1>7, <2>1, NodesSound
<1>11. Sound(at', node', handle') /\ node' \in [Inodes -> Nodes]
  BY <1>8, <1>9, <1>10, CollectSound
<1>12. fds' \in [Fds -> Inodes \cup {None}]
  BY DEF NamesInv, Release, Closing
<1> QED BY <1>1, <1>11, <1>12 DEF NamesInv

LEMMA StreamsKeepNames ==
    ASSUME NamesInv, FdInv, NEW s \in Streams,
           (\E p \in Paths : Opendir(s, p)) \/ Readdir(s) \/ Releasedir(s)
    PROVE  NamesInv'
<1>1. CASE Refuse \/ Readdir(s)
  BY <1>1, RefuseKeepsNames DEF Refuse, Readdir
<1>2. ASSUME NEW p \in Paths, Opendir(s, p), ~Refuse PROVE NamesInv'
  <2>1. /\ IsDir(at, node, p) /\ fds' = [fds EXCEPT ![LowestFd] = at[p]]
        /\ UNCHANGED <<fs, at, node, handle>>
    BY <1>2 DEF Opendir
  <2>2. at[p] \in Inodes
    BY <2>1 DEF IsDir, NamesInv, Sound, IsTree
  <2>3. fds' \in [Fds -> Inodes \cup {None}]
    BY <2>1, <2>2 DEF NamesInv
  <2> QED BY <2>1, <2>3 DEF NamesInv
<1>3. CASE Releasedir(s)
  <2>1. /\ fds' = [fds EXCEPT ![stream[s].fh] = None] /\ UNCHANGED <<fs, at, handle>>
        /\ node' = Collect(at, OpenInodes(fds'), node)
    BY <1>3 DEF Releasedir
  <2>2. Sound(at', node', handle') /\ node' \in [Inodes -> Nodes]
    BY <2>1, CollectSound DEF NamesInv
  <2>3. fds' \in [Fds -> Inodes \cup {None}]
    BY <2>1 DEF NamesInv
  <2> QED BY <2>1, <2>2, <2>3 DEF NamesInv
<1> QED BY <1>1, <1>2, <1>3

LEMMA NamesInit == Init => NamesInv
<1> SUFFICES ASSUME Init PROVE NamesInv
  OBVIOUS
<1>1. << >> \in AllPaths /\ << >> \in Routes
  BY PathsAreRoutes, PassThroughAssumption
<1>2. /\ at \in [AllPaths -> Inodes \cup {None}]
      /\ \A q \in AllPaths : at[q] # None => q = << >> /\ at[q] = Root
      /\ Root \in Inodes /\ None \notin Inodes
  BY PassThroughAssumption DEF Init
<1>3. node \in [Inodes -> Nodes] /\ node[Root].kind = "dir"
  BY PassThroughAssumption DEF Init, Nodes, Free, Empty
<1>4. \A h \in Handles : handle[h].st = "none" /\ DOMAIN handle[h] = {"st", "path", "fh", "refs", "file"}
  BY DEF Init, NoFile
<1>5. \A d \in Routes : IsPrefix(d, << >>) => d = << >>
  <2> SUFFICES ASSUME NEW d \in Routes, IsPrefix(d, << >>), d # << >> PROVE FALSE
    OBVIOUS
  <2>1. Len(d) \in Nat /\ Len(d) < Len(<< >>)
    BY <1>1, PrefixOrder, RouteTypes
  <2> QED BY <2>1, EmptySeq
<1>6. IsTree(at, node)
  BY <1>1, <1>2, <1>3, <1>5, PathsAreRoutes DEF IsTree
<1>7. Leads(at, node, handle)
  BY <1>4 DEF Leads, Init
<1>8. SecretsHeld(at, handle)
  BY <1>2, PassThroughAssumption DEF SecretsHeld
<1>9. fs \in Systems /\ fds \in [Fds -> Inodes \cup {None}]
  BY DEF Init
<1> QED BY <1>3, <1>4, <1>6, <1>7, <1>8, <1>9 DEF NamesInv, Sound

LEMMA NamesNext == NamesInv /\ FdInv /\ [Next]_vars => NamesInv'
<1> SUFFICES ASSUME NamesInv, FdInv, [Next]_vars PROVE NamesInv'
  OBVIOUS
<1>1. CASE UNCHANGED vars
  BY <1>1, RefuseKeepsNames DEF vars
<1>2. CASE Named
  BY <1>2, NamedKeepsNames
<1>3. CASE Looked
  BY <1>3, RefuseKeepsNames DEF Looked, ReaddirServed, Tell
<1>4. CASE Opened
  <2>1. ASSUME NEW h \in Handles, Read(h) \/ ReadServed(h) \/ WriteServed(h) PROVE NamesInv'
    BY <2>1, RefuseKeepsNames DEF Read, ReadServed, WriteServed, Tell, Refuse
  <2> QED BY <1>4, <2>1, OpenKeepsNames, WriteKeepsNames, UseKeepsNames, ReleaseKeepsNames,
             StreamsKeepNames DEF Opened
<1> QED BY <1>1, <1>2, <1>3, <1>4 DEF Next

LEMMA NamesAlways == Spec => [](NamesInv /\ FdInv)
  BY NamesInit, NamesNext, FdInit, FdNext, PTL DEF Spec

(* For every tree, any number of open files and directories and however    *)
(* calls follow each other: the path libfuse has of an open file leads to  *)
(* it, through every rename, replacement and deletion, and no name leads   *)
(* nowhere (bbfs.c, and libfuse as it calls it).                           *)
THEOREM PathsLead == Spec => []TypeOK
<1>1. NamesInv => TypeOK
  BY DEF NamesInv, Sound, IsTree, Leads, TypeOK, Free
<1> QED BY <1>1, NamesAlways, PTL

----------------------------------------------------------------------------
(* PosixFiles has the paths of users only, and inodes where bbfs has       *)
(* descriptors.                                                            *)

UserPaths(t) == [p \in Paths |-> t[p]]
OpenFiles(hs) == [h \in Handles |-> [st |-> hs[h].st, file |-> hs[h].file]]
OpenDirs(ss) == [s \in Streams |-> [dir |-> ss[s].dir, read |-> ss[s].read]]

LEMMA SameOnUserPaths ==
    ASSUME NEW t, NEW n, DOMAIN t = AllPaths
    PROVE  /\ \A p \in Paths : UserPaths(t)[p] = t[p]
           /\ \A p \in Paths : IsDir(UserPaths(t), n, p) <=> IsDir(t, n, p)
           /\ \A p \in Paths : Entries(UserPaths(t), p) \subseteq Entries(t, p)
<1>1. Paths \subseteq AllPaths
  BY PathsAreRoutes
<1>2. DOMAIN UserPaths(t) = Paths /\ \A p \in Paths : UserPaths(t)[p] = t[p]
  BY DEF UserPaths
<1> QED BY <1>1, <1>2 DEF IsDir, Entries

LEMMA UsersCan ==
    ASSUME NEW t, NEW n, DOMAIN t = AllPaths, NEW p \in Paths \ {<< >>}, NEW q \in Paths \ {<< >>}
    PROVE  /\ CanCreate(t, n, p) => CanCreate(UserPaths(t), n, p)
           /\ CanUnlink(t, n, p) => CanUnlink(UserPaths(t), n, p)
           /\ CanRmdir(t, n, p) => CanRmdir(UserPaths(t), n, p)
           /\ CanLink(t, n, p, q) => CanLink(UserPaths(t), n, p, q)
           /\ CanRename(t, n, p, q) => CanRename(UserPaths(t), n, p, q)
<1>1. Front(p) \in Paths /\ Front(q) \in Paths /\ p \in Paths /\ q \in Paths
  BY PassThroughAssumption
<1>2. /\ \A r \in Paths : UserPaths(t)[r] = t[r]
      /\ \A r \in Paths : IsDir(UserPaths(t), n, r) <=> IsDir(t, n, r)
      /\ \A r \in Paths : Entries(t, r) = {} => Entries(UserPaths(t), r) = {}
  BY SameOnUserPaths
<1>3. CanCreate(t, n, p) => CanCreate(UserPaths(t), n, p)
  BY <1>1, <1>2 DEF CanCreate
<1>4. CanUnlink(t, n, p) => CanUnlink(UserPaths(t), n, p)
  BY <1>1, <1>2 DEF CanUnlink
<1>5. \A r \in Paths : CanRmdir(t, n, r) => CanRmdir(UserPaths(t), n, r)
  BY <1>1, <1>2 DEF CanRmdir
<1>6. CanLink(t, n, p, q) => CanLink(UserPaths(t), n, p, q)
  BY <1>1, <1>2, <1>4 DEF CanLink, CanCreate
<1>7. CanRename(t, n, p, q) => CanRename(UserPaths(t), n, p, q)
  BY <1>1, <1>2, <1>5 DEF CanRename
<1> QED BY <1>1, <1>3, <1>4, <1>5, <1>6, <1>7

LEMMA UsersWithout ==
    ASSUME NEW t, DOMAIN t = AllPaths, NEW p
    PROVE  UserPaths(Without(t, p)) = IF p \in Paths THEN Without(UserPaths(t), p) ELSE UserPaths(t)
<1>1. Paths \subseteq AllPaths
  BY PathsAreRoutes
<1>2. \A q \in Paths : Without(t, p)[q] = IF q = p THEN None ELSE t[q]
  BY <1>1 DEF Without
<1> QED BY <1>2 DEF UserPaths, Without

LEMMA UsersName ==
    ASSUME NEW t, DOMAIN t = AllPaths, NEW p \in Paths, NEW i
    PROVE  UserPaths([t EXCEPT ![p] = i]) = [UserPaths(t) EXCEPT ![p] = i]
<1>1. Paths \subseteq AllPaths
  BY PathsAreRoutes
<1> QED BY <1>1 DEF UserPaths

(* Renames look the same to users: what a directory holds under secret     *)
(* names goes with it.                                                     *)
LEMMA UsersMove ==
    ASSUME NEW t, DOMAIN t = AllPaths, NEW from \in Paths, NEW to \in Paths
    PROVE  UserPaths(Move(t, from, to)) = Move(UserPaths(t), from, to)
<1>1. /\ Paths \subseteq AllPaths /\ AllPaths \subseteq Routes
      /\ DOMAIN UserPaths(t) = Paths /\ \A q \in Paths : UserPaths(t)[q] = t[q]
  BY PathsAreRoutes DEF UserPaths
<1>2. ASSUME NEW q \in Paths, IsPrefix(to, q), Renamed(q, to, from) \in AllPaths
      PROVE  Renamed(q, to, from) \in Paths
  <2>1. q \in Routes /\ from \in Routes /\ to \in Routes /\ q \in AllPaths
    BY <1>1
  <2>2. CASE q = to
    BY <1>2, <2>1, <2>2, RenamedAgain
  <2>3. CASE q # to
    <3>1. Last(Renamed(q, to, from)) = Last(q) /\ q # << >>
      BY <1>2, <2>1, <2>3, RenamedLast
    <3> QED BY <1>2, <2>1, <3>1, PathsAndSecrets
  <2> QED BY <2>2, <2>3
<1>3. \A q \in Paths : Move(t, from, to)[q] = Move(UserPaths(t), from, to)[q]
  BY <1>1, <1>2 DEF Move
<1>4. DOMAIN Move(UserPaths(t), from, to) = Paths
  BY <1>1 DEF Move
<1>5. Move(UserPaths(t), from, to) = [q \in Paths |-> Move(UserPaths(t), from, to)[q]]
  BY <1>4 DEF Move
<1> QED BY <1>3, <1>5 DEF UserPaths

(* Whether what is replaced is taken away first makes no difference. *)
LEMMA MoveOver ==
    ASSUME NEW t, DOMAIN t = Paths, NEW from \in Paths, NEW to \in Paths, ~IsPrefix(from, to)
    PROVE  Move(Without(t, to), from, to) = Move(t, from, to)
<1>1. Paths \subseteq Routes
  BY PathsAreRoutes
<1>2. DOMAIN Without(t, to) = Paths /\ \A q \in Paths \ {to} : Without(t, to)[q] = t[q]
  BY DEF Without
<1>3. \A q \in Paths : IsPrefix(to, q) => Renamed(q, to, from) # to
  BY <1>1, RenamedAgain
<1>4. IsPrefix(to, to)
  BY <1>1, PrefixOrder
<1>5. \A q \in Paths : Move(Without(t, to), from, to)[q] = Move(t, from, to)[q]
  BY <1>2, <1>3, <1>4 DEF Move
<1>6. /\ Move(Without(t, to), from, to) = [q \in Paths |-> Move(Without(t, to), from, to)[q]]
      /\ Move(t, from, to) = [q \in Paths |-> Move(t, from, to)[q]]
  BY <1>2 DEF Move
<1> QED BY <1>5, <1>6

(* To users a file with a secret name is gone. *)
LEMMA UsersHide ==
    ASSUME NEW p \in Paths \ {<< >>}, Sound(at, node, handle), IsOpen(p)
    PROVE  UserPaths(Move(at, p, SecretFor(p))) = Without(UserPaths(at), p)
<1> DEFINE s == SecretFor(p)
           m == Move(at, p, s)
<1>1. /\ s \in AllPaths \ {<< >>} /\ s \notin Paths /\ p # s
      /\ ~IsDir(at, node, p) /\ at[p] # None /\ MayMove(at, node, handle, p, s)
  BY MayHide
<1>2. /\ \A q \in AllPaths : m[q] # None =>
            \/ /\ IsPrefix(s, q) /\ Renamed(q, s, p) \in AllPaths
               /\ IsPrefix(p, Renamed(q, s, p)) /\ m[q] = at[Renamed(q, s, p)]
            \/ ~IsPrefix(s, q) /\ ~IsPrefix(p, q) /\ m[q] = at[q]
      /\ \A r \in AllPaths : at[r] # None /\ ~IsPrefix(p, r) /\ r # s => m[r] = at[r]
  BY <1>1, MoveIs
<1> HIDE DEF m, s
<1>3. Paths \subseteq AllPaths /\ AllPaths \subseteq Routes /\ p \in AllPaths /\ DOMAIN at = AllPaths
  BY PathsAreRoutes DEF Sound, IsTree
<1>4. \A q \in AllPaths : at[q] # None /\ IsPrefix(p, q) => q = p
  BY <1>1, <1>3, NothingBelow DEF Sound
<1>5. ASSUME NEW q \in Paths PROVE m[q] = IF q = p THEN None ELSE at[q]
  <2>1. ~IsPrefix(s, q)
    BY <1>1, <1>3, PathsOnTheWay
  <2>2. IsPrefix(p, p)
    BY <1>3, PrefixOrder
  <2>3. q # s
    BY <1>1
  <2> QED BY <1>2, <1>3, <1>4, <2>1, <2>2, <2>3
<1>6. UserPaths(m) = [q \in Paths |-> IF q = p THEN None ELSE at[q]]
  BY <1>5 DEF UserPaths
<1>7. Without(UserPaths(at), p) = [q \in Paths |-> IF q = p THEN None ELSE at[q]]
  BY DEF Without, UserPaths
<1> QED BY <1>6, <1>7 DEF m, s

(* Inodes stay for the same reasons, a name or an opening; what is open,    *)
(* with or without a descriptor, has a name of users or a secret one.      *)
LEMMA UsersCollect ==
    ASSUME NEW t, NEW k, NEW hs, Sound(t, k, hs), NEW n, DOMAIN n = Inodes, NEW A, NEW B,
           \A i \in Inodes : i \in A => i \in B,
           \A i \in Inodes : i \in B =>
              i \in A \/ \E h \in Handles : hs[h].st # "none" /\ hs[h].file = i,
           \A h \in Handles : hs[h].st # "none" => hs[h].file \in B
    PROVE  Collect(t, A, n) = Collect(UserPaths(t), B, n)
<1>1. /\ DOMAIN t = AllPaths /\ Paths \subseteq AllPaths
      /\ DOMAIN UserPaths(t) = Paths /\ \A p \in Paths : UserPaths(t)[p] = t[p]
  BY PathsAreRoutes DEF Sound, IsTree, UserPaths
<1>2. ASSUME NEW i \in Inodes
      PROVE  i \in A \/ (\E p \in AllPaths : t[p] = i) <=> i \in B \/ (\E p \in Paths : t[p] = i)
  <2>1. ASSUME NEW p \in AllPaths \ Paths, t[p] = i PROVE i \in B
    <3>1. t[p] # None
      BY <2>1, PassThroughAssumption
    <3>2. PICK h \in Handles : Held(hs, h, p)
      BY <3>1 DEF Sound, SecretsHeld
    <3> QED BY <2>1, <3>2 DEF Held, Sound, Leads
  <2>2. ASSUME i \in B PROVE i \in A \/ \E p \in AllPaths : t[p] = i
    BY <2>2 DEF Sound, Leads
  <2> QED BY <1>1, <2>1, <2>2
<1>3. Collect(t, A, n) = [i \in Inodes |-> IF i \in A \/ \E p \in AllPaths : t[p] = i THEN n[i] ELSE Free]
  BY <1>1 DEF Collect
<1>4. Collect(UserPaths(t), B, n) =
        [i \in Inodes |-> IF i \in B \/ \E p \in Paths : t[p] = i THEN n[i] ELSE Free]
  BY <1>1 DEF Collect
<1> QED BY <1>2, <1>3, <1>4

LEMMA SameHeld ==
    FdInv => \A i \in Inodes :
        /\ i \in OpenInodes(fds) => i \in AsPosix!Held(OpenFiles(handle), OpenDirs(stream))
        /\ i \in AsPosix!Held(OpenFiles(handle), OpenDirs(stream)) =>
              i \in OpenInodes(fds) \/ \E h \in Handles : handle[h].st # "none" /\ handle[h].file = i
<1> SUFFICES ASSUME FdInv, NEW i \in Inodes
             PROVE  /\ i \in OpenInodes(fds) => i \in AsPosix!Held(OpenFiles(handle), OpenDirs(stream))
                    /\ i \in AsPosix!Held(OpenFiles(handle), OpenDirs(stream)) =>
                          \/ i \in OpenInodes(fds)
                          \/ \E h \in Handles : handle[h].st # "none" /\ handle[h].file = i
  OBVIOUS
<1>1. i # None
  BY PassThroughAssumption
<1>2. i \in AsPosix!Held(OpenFiles(handle), OpenDirs(stream)) <=>
         \/ \E h \in Handles : handle[h].st # "none" /\ handle[h].file = i
         \/ \E s \in Streams : stream[s].dir = i
  BY DEF AsPosix!Held, OpenFiles, OpenDirs
<1>3. i \in OpenInodes(fds) <=> \E n \in Fds : fds[n] = i
  BY DEF OpenInodes
<1>4. \A s \in Streams : stream[s].dir = i => stream[s] # NoDir
  BY <1>1 DEF NoDir
<1> QED BY <1>1, <1>2, <1>3, <1>4 DEF FdInv, HoldersServed, NoneLost, IsHeld

(* The tree operators that PosixFiles brings along are those of PassThrough. *)
LEMMA SameTrees ==
    /\ AsPosix!Empty = Empty /\ AsPosix!Root = Root /\ AsPosix!Free = Free
    /\ AsPosix!Contents = Contents /\ \A f : AsPosix!IsInjective(f) <=> IsInjective(f)
    /\ \A t, n, p : AsPosix!IsDir(t, n, p) <=> IsDir(t, n, p)
    /\ \A t, n, p : AsPosix!CanCreate(t, n, p) <=> CanCreate(t, n, p)
    /\ \A t, n, p : AsPosix!CanUnlink(t, n, p) <=> CanUnlink(t, n, p)
    /\ \A t, n, p : AsPosix!CanRmdir(t, n, p) <=> CanRmdir(t, n, p)
    /\ \A t, n, p, q : AsPosix!CanLink(t, n, p, q) <=> CanLink(t, n, p, q)
    /\ \A t, n, p, q : AsPosix!CanRename(t, n, p, q) <=> CanRename(t, n, p, q)
    /\ \A t, i : AsPosix!Listing(t, i) = Listing(t, i)
    /\ \A t, p : AsPosix!Without(t, p) = Without(t, p)
    /\ \A t, p, q : AsPosix!Move(t, p, q) = Move(t, p, q)
    /\ \A t, h, n : AsPosix!Collect(t, h, n) = Collect(t, h, n)
  BY DEF AsPosix!Contents, Contents, AsPosix!IsInjective, IsInjective,
         AsPosix!Empty, AsPosix!Root, AsPosix!Free, AsPosix!IsDir, AsPosix!CanCreate, AsPosix!CanUnlink,
         AsPosix!CanRmdir, AsPosix!CanLink, AsPosix!CanRename, AsPosix!Listing, AsPosix!Entries,
         AsPosix!Without, AsPosix!Move, AsPosix!Renamed, AsPosix!Collect,
         AsPosix!Front, AsPosix!Last, AsPosix!IsPrefix,
         Empty, Root, Free, IsDir, CanCreate, CanUnlink, CanRmdir, CanLink, CanRename, Listing, Entries,
         Without, Move, Renamed, Collect, Front, Last, IsPrefix

(* Where files go by their inodes, libfuse's renaming does not show. *)
LEMMA SameOpenFiles ==
    ASSUME NEW hs, NEW table, \A h \in Handles : table[h].st = hs[h].st /\ table[h].file = hs[h].file
    PROVE  OpenFiles(table) = OpenFiles(hs)
  BY DEF OpenFiles

LEMMA CollectMaps ==
    ASSUME NamesInv', FdInv', NEW n, DOMAIN n = Inodes, node' = Collect(at', OpenInodes(fds'), n)
    PROVE  node' = Collect(UserPaths(at'), AsPosix!Held(OpenFiles(handle'), OpenDirs(stream')), n)
<1> DEFINE B == AsPosix!Held(OpenFiles(handle'), OpenDirs(stream'))
<1>1. \A i \in Inodes :
         /\ i \in OpenInodes(fds') => i \in B
         /\ i \in B =>
               i \in OpenInodes(fds') \/ \E h \in Handles : (handle')[h].st # "none" /\ (handle')[h].file = i
  <2>1. (\A i \in Inodes :
            /\ i \in OpenInodes(fds) => i \in AsPosix!Held(OpenFiles(handle), OpenDirs(stream))
            /\ i \in AsPosix!Held(OpenFiles(handle), OpenDirs(stream)) =>
                  i \in OpenInodes(fds) \/ \E h \in Handles : handle[h].st # "none" /\ handle[h].file = i)'
    BY SameHeld, PTL
  <2> QED BY <2>1
<1>2. \A h \in Handles : (handle')[h].st # "none" => (handle')[h].file \in B
  BY DEF AsPosix!Held, OpenFiles
<1>3. Sound(at', node', handle')
  BY DEF NamesInv
<1> HIDE DEF B
<1>4. Collect(at', OpenInodes(fds'), n) = Collect(UserPaths(at'), B, n)
  BY <1>1, <1>2, <1>3, UsersCollect
<1> QED BY <1>4 DEF B

(* A directory shows users the names they gave, and a secret one for a     *)
(* file that is still open.                                                *)
LEMMA UsersList ==
    ASSUME Sound(at, node, handle), NEW i
    PROVE  Listing(at, i) \in AsPosix!Shown(i)
<1> DEFINE X == Listing(at, i) \cap SecretNames
           IsOf(h, x) == \E p \in AllPaths : Held(handle, h, p) /\ x = Last(p)
           of == [x \in X |-> CHOOSE h \in Handles : IsOf(h, x)]
<1>1. /\ Paths \subseteq AllPaths /\ DOMAIN at = AllPaths
      /\ DOMAIN UserPaths(at) = Paths /\ \A p \in Paths : UserPaths(at)[p] = at[p]
  BY PathsAreRoutes DEF UserPaths, Sound, IsTree
<1>2. \A x : x \in Listing(at, i) <=>
         \E d, p \in AllPaths : at[d] = i /\ p # << >> /\ at[p] # None /\ Front(p) = d /\ x = Last(p)
  BY <1>1 DEF Listing, Entries
<1>3. \A x : x \in Listing(UserPaths(at), i) <=>
         \E d, p \in Paths : at[d] = i /\ p # << >> /\ at[p] # None /\ Front(p) = d /\ x = Last(p)
  BY <1>1 DEF Listing, Entries
<1>4. \A p \in AllPaths : p # << >> =>
         Front(p) \in Paths /\ (p \in Paths <=> Last(p) \notin SecretNames)
  BY PathsAndSecrets
<1>5. Listing(at, i) = Listing(UserPaths(at), i) \cup X
  BY <1>1, <1>2, <1>3, <1>4
<1>6. \A x \in X : \E h \in Handles : IsOf(h, x)
  <2> SUFFICES ASSUME NEW x \in X PROVE \E h \in Handles : IsOf(h, x)
    OBVIOUS
  <2>1. PICK p \in AllPaths \ Paths : at[p] # None /\ x = Last(p)
    BY <1>2, <1>4
  <2>2. PICK h \in Handles : Held(handle, h, p)
    BY <2>1 DEF Sound, SecretsHeld
  <2> QED BY <2>1, <2>2
<1>7. \A h \in Handles : \A x, y : IsOf(h, x) /\ IsOf(h, y) => x = y
  BY DEF Held
<1>8. \A h \in Handles : \A x : IsOf(h, x) => handle[h].st # "none"
  BY DEF Held
<1> HIDE DEF IsOf, X
<1>9. \A x \in X : of[x] \in Handles /\ IsOf(of[x], x)
  BY <1>6
<1>10. of \in [X -> {h \in Handles : OpenFiles(handle)[h].st # "none"}]
  BY <1>8, <1>9 DEF OpenFiles
<1>11. IsInjective(of)
  BY <1>7, <1>9 DEF IsInjective
<1> HIDE DEF of
<1>12. X \in AsPosix!Hidden
  BY <1>10, <1>11, SameTrees DEF AsPosix!Hidden, OpenFiles, X
<1>13. "hides" \in Weakness
  BY DEF Weakness
<1>14. AsPosix!Listing(UserPaths(at), i) = Listing(UserPaths(at), i)
  BY SameTrees
<1> QED BY <1>5, <1>12, <1>13, <1>14 DEF AsPosix!Shown, UserPaths

(* What users see of a change of the tree *)
UsersChange(new) ==
    /\ UserPaths(at)' = new
    /\ OpenFiles(handle)' = OpenFiles(handle) /\ OpenDirs(stream)' = OpenDirs(stream)
    /\ node' = Collect(new, AsPosix!Held(OpenFiles(handle), OpenDirs(stream)), node)
    /\ AsPosix!Answer("change", << >>, TRUE, {}) /\ UNCHANGED Weakness

LEMMA ChangeMaps ==
    ASSUME NamesInv, FdInv, NamesInv', FdInv', NEW new, NEW table, Change(new, table),
           \A h \in Handles : table[h].st = handle[h].st /\ table[h].file = handle[h].file
    PROVE  UsersChange(UserPaths(new))
<1>1. /\ at' = new /\ handle' = table /\ node' = Collect(at', OpenInodes(fds'), node)
      /\ UNCHANGED <<fs, fds, stream>> /\ Done
  BY DEF Change
<1>2. OpenFiles(handle') = OpenFiles(handle) /\ OpenDirs(stream') = OpenDirs(stream)
  BY <1>1, SameOpenFiles
<1>3. node' = Collect(UserPaths(at'), AsPosix!Held(OpenFiles(handle'), OpenDirs(stream')), node)
  BY <1>1, CollectMaps DEF NamesInv
<1>4. node' = Collect(UserPaths(new), AsPosix!Held(OpenFiles(handle), OpenDirs(stream)), node)
  BY <1>1, <1>2, <1>3
<1>5. AsPosix!Answer("change", << >>, TRUE, {})
  BY <1>1 DEF Done, Answer, AsPosix!Answer
<1>6. UNCHANGED Weakness
  BY <1>1 DEF Weakness
<1> QED BY <1>1, <1>2, <1>4, <1>5, <1>6 DEF UsersChange

LEMMA RefuseMaps == Refuse => AsPosix!Next
<1> SUFFICES ASSUME Refuse PROVE AsPosix!Next
  OBVIOUS
<1>1. UNCHANGED <<fs, at, node, handle, stream>> /\ last' = [call |-> "change", of |-> << >>, ok |-> FALSE, val |-> {}]
  BY DEF Refuse, Answer
<1>2. UNCHANGED Weakness
  BY <1>1 DEF Weakness
<1>3. AsPosix!Refuse
  BY <1>1 DEF AsPosix!Refuse, AsPosix!Answer
<1> QED BY <1>2, <1>3 DEF AsPosix!Next

(* A call that names a path and succeeds *)
LEMMA NamedMaps ==
    ASSUME NEW p \in Paths \ {<< >>}, AsPosix!Named(p), UNCHANGED Weakness,
           AsPosix!Answer("change", << >>, TRUE, {})
    PROVE  AsPosix!Next
  BY DEF AsPosix!Next

LEMMA AddMaps ==
    ASSUME NamesInv, NEW p \in Paths \ {<< >>}, NEW kind, NEW data, Add(p, kind, data)
    PROVE  AsPosix!Create(p, kind, data) /\ UNCHANGED Weakness
<1>1. PICK i \in Inodes :
         /\ node[i] = Free /\ at' = [at EXCEPT ![p] = i]
         /\ node' = [node EXCEPT ![i] = [kind |-> kind, data |-> data, perm |-> TRUE]]
  BY DEF Add
<1>2. CanCreate(at, node, p) /\ UNCHANGED <<fs, fds, handle, stream>>
  BY DEF Add
<1>3. DOMAIN at = AllPaths
  BY DEF NamesInv, Sound, IsTree
<1>4. CanCreate(UserPaths(at), node, p)
  BY <1>2, <1>3, UsersCan
<1>5. UserPaths(at') = [UserPaths(at) EXCEPT ![p] = i]
  BY <1>1, <1>3, UsersName
<1>6. AsPosix!Create(p, kind, data)
  BY <1>1, <1>2, <1>4, <1>5, SameTrees DEF AsPosix!Create, UserPaths
<1>7. UNCHANGED Weakness
  BY <1>2 DEF Weakness
<1> QED BY <1>6, <1>7

LEMMA CreateMaps ==
    ASSUME NamesInv, NEW p \in Paths \ {<< >>}, NEW kind, NEW data, Create(p, kind, data)
    PROVE  /\ AsPosix!Create(p, kind, data) /\ UNCHANGED Weakness
           /\ AsPosix!Answer("change", << >>, TRUE, {})
  BY AddMaps DEF Create, Done, Answer, AsPosix!Answer

LEMMA CreationsMap ==
    ASSUME NamesInv, NEW p \in Paths \ {<< >>},
           \/ \E kind \in Kinds : Mknod(p, kind) \/ MknodServed(p, kind)
           \/ Mkdir(p)
           \/ \E to \in Data : Symlink(to, p) \/ SymlinkServed(to, p)
    PROVE  AsPosix!Next
<1>1. ASSUME NEW kind \in Kinds \cup {"dir"}, Create(p, kind, Empty) PROVE AsPosix!Next
  <2>1. AsPosix!Create(p, kind, AsPosix!Empty)
    BY <1>1, CreateMaps DEF AsPosix!Empty, Empty
  <2> QED BY <1>1, <2>1, CreateMaps, NamedMaps DEF AsPosix!Named
<1>2. ASSUME NEW kind \in Kinds, MknodServed(p, kind), ~Refuse PROVE AsPosix!Next
  <2>1. Add(p, "file", Empty) /\ fs = "netfs" /\ Answer("change", << >>, kind = "file", {})
    BY <1>2 DEF MknodServed
  <2>2. CASE kind = "file"
    BY <1>1, <2>1, <2>2 DEF Create, Done
  <2>3. CASE kind # "file"
    <3>1. AsPosix!Create(p, "file", AsPosix!Empty) /\ UNCHANGED Weakness
      BY <2>1, AddMaps DEF AsPosix!Empty, Empty
    <3>2. "regular" \in Weakness
      BY <2>1 DEF Weakness
    <3>3. AsPosix!MakeRegular(p)
      BY <3>1, <3>2 DEF AsPosix!MakeRegular
    <3>4. AsPosix!Answer("change", << >>, FALSE, {})
      BY <2>1, <2>3 DEF Answer, AsPosix!Answer
    <3> QED BY <3>1, <3>3, <3>4 DEF AsPosix!Next
  <2> QED BY <2>2, <2>3
<1>3. ASSUME Mkdir(p) \/ \E kind \in Kinds : Mknod(p, kind), ~Refuse PROVE AsPosix!Next
  BY <1>1, <1>3 DEF Mkdir, Mknod
<1>4. ASSUME NEW to \in Data, Symlink(to, p), ~Refuse PROVE AsPosix!Next
  <2>1. Create(p, "link", {to}) /\ fs = "bbfs"
    BY <1>4 DEF Symlink
  <2>2. AsPosix!Create(p, "link", {to})
    BY <2>1, CreateMaps
  <2>3. {to} \cup (IF "rooted" \in Weakness THEN {AsPosix!Root} ELSE {}) = {to}
    BY <2>1 DEF Weakness
  <2>4. AsPosix!Symlink(to, p)
    BY <2>2, <2>3 DEF AsPosix!Symlink, AsPosix!Create
  <2> QED BY <1>4, <2>1, <2>4, CreateMaps, NamedMaps DEF AsPosix!Named
<1>5. ASSUME NEW to \in Data, SymlinkServed(to, p), ~Refuse PROVE AsPosix!Next
  <2>1. Create(p, "link", {to, Root}) /\ fs = "netfs"
    <3>1. Create(p, "link", Rooted(to)) /\ fs = "netfs"
      BY <1>5 DEF SymlinkServed
    <3>2. Rooted(to) = {to, Root}
      BY DEF Rooted
    <3> QED BY <3>1, <3>2 DEF Create
  <2>2. AsPosix!Create(p, "link", {to, Root})
    BY <2>1, CreateMaps
  <2>3. {to} \cup (IF "rooted" \in Weakness THEN {AsPosix!Root} ELSE {}) = {to, Root}
    BY <2>1, SameTrees DEF Weakness
  <2>4. AsPosix!Symlink(to, p)
    BY <2>2, <2>3 DEF AsPosix!Symlink, AsPosix!Create
  <2> QED BY <1>5, <2>1, <2>4, CreateMaps, NamedMaps DEF AsPosix!Named
<1> QED BY <1>1, <1>2, <1>3, <1>4, <1>5, RefuseMaps

LEMMA UnlinkMaps ==
    ASSUME NamesInv, FdInv, NamesInv', FdInv', NEW p \in Paths \ {<< >>}, Unlink(p)
    PROVE  AsPosix!Next
<1>1. DOMAIN at = AllPaths /\ Sound(at, node, handle)
  BY DEF NamesInv, Sound, IsTree
<1>2. CASE Refuse
  BY <1>2, RefuseMaps
<1>3. CASE ~Refuse
  <2> DEFINE new == IF IsOpen(p) THEN Move(at, p, SecretFor(p)) ELSE Without(at, p)
             table == IF IsOpen(p) THEN Follow(handle, p, SecretFor(p)) ELSE handle
  <2>1. CanUnlink(at, node, p) /\ Change(new, table)
    BY <1>3 DEF Unlink
  <2>2. UserPaths(new) = Without(UserPaths(at), p)
    BY <1>1, UsersHide, UsersWithout
  <2>3. \A h \in Handles : table[h].st = handle[h].st /\ table[h].file = handle[h].file
    BY <1>1, FollowIs DEF Sound
  <2> HIDE DEF new, table
  <2>4. UsersChange(Without(UserPaths(at), p))
    BY <2>1, <2>2, <2>3, ChangeMaps
  <2>5. AsPosix!CanUnlink(UserPaths(at), node, p)
    BY <1>1, <2>1, UsersCan, SameTrees
  <2>6. AsPosix!Unlink(p)
    BY <2>4, <2>5, SameTrees
    DEF UsersChange, AsPosix!Unlink, AsPosix!Change, UserPaths, OpenFiles, OpenDirs
  <2> QED BY <2>4, <2>6, NamedMaps DEF AsPosix!Named, UsersChange
<1> QED BY <1>2, <1>3

LEMMA RmdirMaps ==
    ASSUME NamesInv, FdInv, NamesInv', FdInv', NEW p \in Paths \ {<< >>}, Rmdir(p)
    PROVE  AsPosix!Next
<1>1. DOMAIN at = AllPaths
  BY DEF NamesInv, Sound, IsTree
<1>2. CASE Refuse
  BY <1>2, RefuseMaps
<1>3. CASE ~Refuse
  <2>1. CanRmdir(at, node, p) /\ Change(Without(at, p), handle)
    BY <1>3 DEF Rmdir
  <2>2. UserPaths(Without(at, p)) = Without(UserPaths(at), p)
    BY <1>1, UsersWithout
  <2>3. UsersChange(Without(UserPaths(at), p))
    BY <2>1, <2>2, ChangeMaps
  <2>4. AsPosix!CanRmdir(UserPaths(at), node, p)
    BY <1>1, <2>1, UsersCan, SameTrees
  <2>5. AsPosix!Rmdir(p)
    BY <2>3, <2>4, SameTrees
    DEF UsersChange, AsPosix!Rmdir, AsPosix!Change, UserPaths, OpenFiles, OpenDirs
  <2> QED BY <2>3, <2>5, NamedMaps DEF AsPosix!Named, UsersChange
<1> QED BY <1>2, <1>3

LEMMA LinkMaps ==
    ASSUME NamesInv, FdInv, NamesInv', FdInv', NEW p \in Paths \ {<< >>}, NEW q \in Paths \ {<< >>},
           Link(p, q)
    PROVE  AsPosix!Next
<1>1. DOMAIN at = AllPaths
  BY DEF NamesInv, Sound, IsTree
<1>2. CASE Refuse
  BY <1>2, RefuseMaps
<1>3. CASE ~Refuse
  <2>1. CanLink(at, node, p, q) /\ Change([at EXCEPT ![q] = at[p]], handle)
    BY <1>3 DEF Link
  <2>2. UserPaths([at EXCEPT ![q] = at[p]]) = [UserPaths(at) EXCEPT ![q] = UserPaths(at)[p]]
    <3>1. UserPaths(at)[p] = at[p]
      BY DEF UserPaths
    <3>2. \A i : UserPaths([at EXCEPT ![q] = i]) = [UserPaths(at) EXCEPT ![q] = i]
      BY <1>1, UsersName
    <3>3. UserPaths([at EXCEPT ![q] = at[p]]) = [UserPaths(at) EXCEPT ![q] = at[p]]
      BY <3>2
    <3> QED BY <3>1, <3>3
  <2>3. UsersChange([UserPaths(at) EXCEPT ![q] = UserPaths(at)[p]])
    BY <2>1, <2>2, ChangeMaps
  <2>4. AsPosix!CanLink(UserPaths(at), node, p, q)
    BY <1>1, <2>1, UsersCan, SameTrees
  <2>5. AsPosix!Link(p, q)
    BY <2>3, <2>4, SameTrees
    DEF UsersChange, AsPosix!Link, AsPosix!Change, UserPaths, OpenFiles, OpenDirs
  <2> QED BY <2>3, <2>5, NamedMaps DEF AsPosix!Named, UsersChange
<1> QED BY <1>2, <1>3

LEMMA RenameMaps ==
    ASSUME NamesInv, FdInv, NamesInv', FdInv', NEW from \in Paths \ {<< >>},
           NEW to \in Paths \ {<< >>}, Rename(from, to)
    PROVE  AsPosix!Next
<1> DEFINE A == UserPaths(at)
<1>1. DOMAIN at = AllPaths /\ Sound(at, node, handle) /\ A[from] = at[from] /\ A[to] = at[to]
  BY DEF NamesInv, Sound, IsTree, UserPaths
<1>2. CASE Refuse
  BY <1>2, RefuseMaps
<1>3. CASE ~Refuse
  <2>1. from # to /\ HasRoom(at, from, to) /\ CanRename(at, node, from, to)
    BY <1>3 DEF Rename
  <2>2. AsPosix!CanRename(A, node, from, to)
    BY <1>1, <2>1, UsersCan, SameTrees
  <2> HIDE DEF A
  <2>3. \/ A[from] = A[to] /\ UsersChange(A)
        \/ /\ A[from] = A[to] =>
                 "hides" \in Weakness /\ \E h \in Handles : OpenFiles(handle)[h].file = A[to]
           /\ UsersChange(Move(A, from, to))
    <3>1. CASE ~IsOpen(to)
      <4> DEFINE new == RenameCall(at, from, to)
                 table == Follow(handle, from, to)
      <4>1. Change(new, table)
        BY <1>3, <3>1 DEF Rename
      <4>2. \A h \in Handles : table[h].st = handle[h].st /\ table[h].file = handle[h].file
        BY <1>1, FollowIs DEF Sound
      <4>3. UserPaths(new) = IF A[from] = A[to] THEN A ELSE Move(A, from, to)
        BY <1>1, UsersMove DEF RenameCall, A
      <4> HIDE DEF new, table
      <4>4. UsersChange(IF A[from] = A[to] THEN A ELSE Move(A, from, to))
        BY <4>1, <4>2, <4>3, ChangeMaps
      <4> QED BY <4>4
    <3>2. CASE IsOpen(to)
      <4> DEFINE t == Move(at, to, SecretFor(to))
                 hs == Follow(handle, to, SecretFor(to))
                 new == RenameCall(t, from, to)
                 table == Follow(hs, from, to)
      <4>1. Change(new, table)
        BY <1>3, <3>2 DEF Rename
      <4>2. Sound(t, node, hs) /\ t[to] = None /\ t[from] # None
        BY <2>1, <3>2, HiddenFirst
      <4>3. \A h \in Handles : hs[h].st = handle[h].st /\ hs[h].file = handle[h].file
        BY <1>1, FollowIs DEF Sound
      <4>4. UserPaths(t) = Without(A, to)
        BY <1>1, <3>2, UsersHide DEF A
      <4> HIDE DEF t, hs
      <4>5. \A h \in Handles : table[h].st = handle[h].st /\ table[h].file = handle[h].file
        BY <4>2, <4>3, FollowIs DEF Sound
      <4>6. UserPaths(new) = Move(A, from, to)
        <5>1. new = Move(t, from, to) /\ DOMAIN t = AllPaths
          BY <4>2 DEF RenameCall, Sound, IsTree
        <5>2. UserPaths(new) = Move(Without(A, to), from, to)
          BY <4>4, <5>1, UsersMove
        <5>3. DOMAIN A = Paths /\ ~IsPrefix(from, to)
          BY <2>1 DEF A, UserPaths, CanRename
        <5> QED BY <5>2, <5>3, MoveOver
      <4> HIDE DEF new, table
      <4>7. UsersChange(Move(A, from, to))
        BY <4>1, <4>5, <4>6, ChangeMaps
      <4>8. PICK h \in Handles : Held(handle, h, to)
        BY <3>2 DEF IsOpen, Held
      <4>9. OpenFiles(handle)[h].file = A[to]
        BY <1>1, <4>8 DEF Sound, Leads, Held, OpenFiles
      <4>10. "hides" \in Weakness
        BY DEF Weakness
      <4> QED BY <4>7, <4>9, <4>10
    <3> QED BY <3>1, <3>2
  <2>4. AsPosix!Rename(from, to)
    BY <2>2, <2>3, SameTrees
    DEF UsersChange, AsPosix!Rename, AsPosix!Change, UserPaths, OpenFiles, OpenDirs, A
  <2>5. AsPosix!Answer("change", << >>, TRUE, {}) /\ UNCHANGED Weakness
    BY <2>3 DEF UsersChange
  <2> QED BY <2>4, <2>5, NamedMaps DEF AsPosix!Named
<1> QED BY <1>2, <1>3

(* Everything but the answer stays as it is. *)
UsersSteady ==
    /\ UserPaths(at)' = UserPaths(at) /\ OpenFiles(handle)' = OpenFiles(handle)
    /\ OpenDirs(stream)' = OpenDirs(stream) /\ UNCHANGED Weakness

LEMMA SteadyIs == UNCHANGED <<fs, at, handle, stream>> => UsersSteady
  BY DEF UsersSteady, UserPaths, OpenFiles, OpenDirs, Weakness

(* chmod and truncate *)
LEMMA AlterMaps ==
    ASSUME NamesInv, NEW p \in Paths \ {<< >>}, Chmod(p) \/ Truncate(p)
    PROVE  AsPosix!Next
<1> DEFINE A == UserPaths(at)
<1>1. A[p] = at[p] /\ AsPosix!Empty = Empty
  BY SameTrees DEF UserPaths
<1> HIDE DEF A
<1>2. CASE Refuse
  BY <1>2, RefuseMaps
<1>3. CASE Chmod(p) /\ ~Refuse
  <2>1. at[p] # None /\ Alter(at[p], [node[at[p]] EXCEPT !.perm = ~@])
    BY <1>3 DEF Chmod, Getattr
  <2>2. UsersSteady /\ AsPosix!Answer("change", << >>, TRUE, {})
    BY <2>1, SteadyIs DEF Alter, Done, Answer, AsPosix!Answer
  <2>3. AsPosix!Chmod(p)
    BY <1>1, <2>1, <2>2
    DEF Alter, AsPosix!Chmod, AsPosix!Alter, UsersSteady, A, UserPaths, OpenFiles, OpenDirs
  <2> QED BY <2>2, <2>3, NamedMaps DEF AsPosix!Named, UsersSteady
<1>4. CASE Truncate(p) /\ ~Refuse
  <2>1. fs = "bbfs" /\ MayWrite(p) /\ Alter(at[p], [node[at[p]] EXCEPT !.data = Empty])
    BY <1>4 DEF Truncate
  <2>2. at[p] # None /\ node[at[p]].kind = "file" /\ node[at[p]].perm
    BY <2>1, MayWriteIsThere DEF MayWrite, Getattr
  <2>3. UsersSteady /\ AsPosix!Answer("change", << >>, TRUE, {})
    BY <2>1, SteadyIs DEF Alter, Done, Answer, AsPosix!Answer
  <2>4. "local" \notin Weakness
    BY <2>1 DEF Weakness
  <2>5. AsPosix!Truncate(p)
    BY <1>1, <2>1, <2>2, <2>3, <2>4
    DEF Alter, AsPosix!Truncate, AsPosix!Alter, UsersSteady, A, UserPaths, OpenFiles, OpenDirs
  <2> QED BY <2>3, <2>5, NamedMaps DEF AsPosix!Named, UsersSteady
<1> QED BY <1>2, <1>3, <1>4

(* netfs: the client's own truncate, and a write to a copy *)
LEMMA ToldMaps ==
    ASSUME fs = "netfs", NEW ok \in BOOLEAN, Tell("change", << >>, ok, {})
    PROVE  AsPosix!Next
<1>1. UNCHANGED <<fs, at, node, handle, stream>> /\ Answer("change", << >>, ok, {})
  BY DEF Tell
<1>2. UsersSteady
  BY <1>1, SteadyIs
<1>3. CASE ok = TRUE
  <2>1. Weakness \cap {"local", "copies"} # {}
    BY DEF Weakness
  <2>2. AsPosix!Nothing /\ AsPosix!Answer("change", << >>, TRUE, {})
    BY <1>1, <1>3, <2>1 DEF AsPosix!Nothing, AsPosix!Answer, Answer
  <2> QED BY <1>2, <2>2 DEF AsPosix!Next, UsersSteady
<1>4. CASE ok = FALSE
  <2>1. AsPosix!Refuse
    BY <1>1, <1>4 DEF AsPosix!Refuse, AsPosix!Answer, Answer
  <2> QED BY <1>2, <2>1 DEF AsPosix!Next, UsersSteady
<1> QED BY <1>3, <1>4

(* The calls that only look *)
LEMMA LookMaps ==
    ASSUME NamesInv, NEW p \in Paths,
           TruncateLocal(p) \/ Readlink(p) \/ Access(p) \/ ReaddirServed(p)
    PROVE  AsPosix!Next
<1> DEFINE A == UserPaths(at)
<1>1. A[p] = at[p] /\ DOMAIN at = AllPaths /\ Sound(at, node, handle)
  BY DEF UserPaths, NamesInv, Sound, IsTree
<1>2. ASSUME ~Refuse PROVE UNCHANGED <<fs, at, node, handle, stream>>
  BY <1>2 DEF TruncateLocal, Readlink, Access, ReaddirServed, Tell
<1>3. ASSUME ~Refuse PROVE UsersSteady
  BY <1>2, <1>3, SteadyIs
<1>4. CASE Refuse
  BY <1>4, RefuseMaps
<1>5. CASE TruncateLocal(p)
  BY <1>5, ToldMaps DEF TruncateLocal
<1>6. CASE Access(p) /\ ~Refuse
  <2>1. at[p] # None /\ node[at[p]].perm /\ Answer("access", p, TRUE, {})
    BY <1>6 DEF Access, Tell
  <2>2. AsPosix!Access(p)
    BY <1>2, <1>6, <2>1 DEF AsPosix!Access, AsPosix!Answer, Answer
  <2> QED BY <1>3, <1>6, <2>2 DEF AsPosix!Next, UsersSteady
<1>7. CASE Readlink(p) /\ ~Refuse
  <2>1. Getattr(p) = "link" /\ Answer("readlink", p, TRUE, node[at[p]].data)
    BY <1>7 DEF Readlink, Tell
  <2>2. at[p] # None /\ node[at[p]].kind = "link"
    BY <2>1, PassThroughAssumption DEF Getattr
  <2>3. AsPosix!Readlink(p)
    BY <1>2, <1>7, <2>1, <2>2 DEF AsPosix!Readlink, AsPosix!Answer, Answer
  <2> QED BY <1>3, <1>7, <2>3 DEF AsPosix!Next, UsersSteady
<1>8. CASE ReaddirServed(p) /\ ~Refuse
  <2>1. /\ fs = "netfs" /\ IsDir(at, node, p)
        /\ Answer("list", p, TRUE, IF node[at[p]].perm THEN Listing(at, at[p]) ELSE {})
    BY <1>8 DEF ReaddirServed, Tell
  <2>2. "mute" \in Weakness
    BY <2>1 DEF Weakness
  <2>3. AsPosix!IsDir(A, node, p)
    BY <1>1, <2>1, SameOnUserPaths, SameTrees
  <2>4. Listing(at, at[p]) \in AsPosix!Shown(at[p])
    BY <1>1, UsersList
  <2>5. AsPosix!List(p)
    BY <1>1, <1>2, <1>8, <2>1, <2>2, <2>3, <2>4 DEF AsPosix!List, AsPosix!Answer, Answer, UserPaths
  <2> QED BY <1>3, <1>8, <2>5 DEF AsPosix!Next, UsersSteady
<1> QED BY <1>4, <1>5, <1>6, <1>7, <1>8

----------------------------------------------------------------------------
(* Descriptors, as users see them *)

LEMMA OpenMaps ==
    ASSUME NamesInv, FdInv, NEW h \in Handles, NEW p \in Paths \ {<< >>},
           Open(h, p) \/ OpenServed(h, p)
    PROVE  AsPosix!Next
<1>1. CASE Refuse
  BY <1>1, RefuseMaps
<1>2. CASE ~Refuse
  <2>1. /\ handle[h].st = "none" /\ MayWrite(p) /\ UNCHANGED <<fs, at, node, stream>> /\ Done
        /\ \E fh : handle' = [handle EXCEPT ![h] = [st |-> "open", path |-> p, fh |-> fh,
                                                    refs |-> 1, file |-> at[p]]]
    BY <1>2 DEF Open, OpenServed
  <2>2. at[p] # None /\ node[at[p]].kind = "file" /\ node[at[p]].perm
    BY <2>1, MayWriteIsThere DEF MayWrite, Getattr
  <2>3. OpenFiles(handle)' = [OpenFiles(handle) EXCEPT ![h] = [st |-> "open", file |-> at[p]]]
    <3>1. PICK fh : handle' = [handle EXCEPT ![h] = [st |-> "open", path |-> p, fh |-> fh,
                                                     refs |-> 1, file |-> at[p]]]
      BY <2>1
    <3>2. \A g \in Handles : handle'[g] = IF g = h THEN [st |-> "open", path |-> p, fh |-> fh,
                                                          refs |-> 1, file |-> at[p]] ELSE handle[g]
      BY <3>1 DEF FdInv, Tables
    <3>3. /\ \A g \in Handles \ {h} : handle'[g] = handle[g]
          /\ handle'[h].st = "open" /\ handle'[h].file = at[p]
      BY <3>2
    <3> QED BY <3>3 DEF OpenFiles
  <2>4. /\ UserPaths(at)' = UserPaths(at) /\ OpenDirs(stream)' = OpenDirs(stream) /\ UNCHANGED Weakness
        /\ AsPosix!Answer("change", << >>, TRUE, {})
    BY <2>1 DEF UserPaths, OpenDirs, Weakness, Done, Answer, AsPosix!Answer
  <2>5. AsPosix!Open(h, p)
    BY <2>1, <2>2, <2>3, <2>4 DEF AsPosix!Open, UserPaths, OpenFiles, OpenDirs
  <2> QED BY <2>4, <2>5, NamedMaps DEF AsPosix!Named
<1> QED BY <1>1, <1>2

(* Reading, and writing, which concern the file of the descriptor *)
LEMMA DescriptorMaps ==
    ASSUME FdInv, NEW h \in Handles, Read(h) \/ (\E d \in Data : Write(h, d)) \/ Ftruncate(h)
    PROVE  AsPosix!Next
<1>1. handle[h].st = "open" /\ fds[handle[h].fh] = handle[h].file /\ OpenFiles(handle)[h].st = "open"
      /\ OpenFiles(handle)[h].file = handle[h].file
  BY DEF Read, Write, Ftruncate, FdInv, HoldersServed, IsHeld, OpenFiles
<1>2. UsersSteady
  BY SteadyIs DEF Read, Write, Ftruncate, Tell, Alter
<1>3. CASE Read(h)
  <2>1. Answer("read", <<h>>, TRUE, node[handle[h].file].data) /\ UNCHANGED <<at, node, handle, stream>>
    BY <1>1, <1>3 DEF Read, Tell
  <2>2. AsPosix!Read(h)
    BY <1>1, <2>1 DEF AsPosix!Read, AsPosix!Answer, Answer, OpenFiles
  <2> QED BY <1>2, <2>2 DEF AsPosix!Next, UsersSteady
<1>4. CASE (\E d \in Data : Write(h, d)) \/ Ftruncate(h)
  <2>1. PICK data \in Contents :
           Alter(handle[h].file, [node[handle[h].file] EXCEPT !.data = data])
    BY <1>1, <1>4 DEF Write, Ftruncate, Contents
  <2>2. UNCHANGED <<at, handle, stream>> /\ AsPosix!Answer("change", << >>, TRUE, {})
    BY <2>1 DEF Alter, Done, Answer, AsPosix!Answer
  <2>3. AsPosix!Write(h, data)
    BY <1>1, <2>1, <2>2 DEF AsPosix!Write, AsPosix!Alter, Alter, OpenFiles
  <2>4. data \in AsPosix!Contents
    BY <2>1, SameTrees
  <2> QED BY <1>2, <2>2, <2>3, <2>4 DEF AsPosix!Next, UsersSteady
<1> QED BY <1>3, <1>4

(* The same in a copy *)
LEMMA CopyMaps ==
    ASSUME NEW h \in Handles, ReadServed(h) \/ WriteServed(h)
    PROVE  AsPosix!Next
<1>1. CASE Refuse
  BY <1>1, RefuseMaps
<1>2. CASE WriteServed(h)
  BY <1>2, ToldMaps DEF WriteServed
<1>3. CASE ReadServed(h) /\ ~Refuse
  <2>1. PICK val \in Contents : Tell("read", <<h>>, TRUE, val)
    BY <1>3 DEF ReadServed
  <2>2. UNCHANGED <<fs, at, node, handle, stream>> /\ AsPosix!Answer("read", <<h>>, TRUE, val)
    BY <2>1 DEF Tell, Answer, AsPosix!Answer
  <2>3. "copies" \in Weakness /\ val \in AsPosix!Contents
    BY <1>3, <2>1, SameTrees DEF ReadServed, Weakness
  <2>4. UsersSteady
    BY <2>2, SteadyIs
  <2>5. OpenFiles(handle)[h].st = "open"
    BY <1>3 DEF ReadServed, OpenFiles
  <2>6. AsPosix!Read(h)
    BY <2>2, <2>3, <2>5 DEF AsPosix!Read, OpenFiles
  <2> QED BY <2>4, <2>6 DEF AsPosix!Next, UsersSteady
<1> QED BY <1>1, <1>2, <1>3

(* A second descriptor of the same opening does not show, its close        *)
(* neither.                                                                *)
LEMMA CloseMaps ==
    ASSUME FdInv, NEW h \in Handles, Dup(h) \/ Close(h)
    PROVE  AsPosix!Next \/ UNCHANGED AsPosix!vars
<1>1. handle[h].st = "open" /\ UNCHANGED <<fs, at, node, stream, last>>
  BY DEF Dup, Close, Flush
<1>2. UserPaths(at)' = UserPaths(at) /\ OpenDirs(stream)' = OpenDirs(stream) /\ UNCHANGED Weakness
  BY <1>1 DEF UserPaths, OpenDirs, Weakness
<1>3. CASE Close(h) /\ handle[h].refs = 1
  <2>1. OpenFiles(handle)' = [OpenFiles(handle) EXCEPT ![h].st = "closed"]
    BY <1>3 DEF Close, FdInv, Tables, OpenFiles
  <2>2. AsPosix!Close(h)
    BY <1>1, <1>2, <2>1 DEF AsPosix!Close, UserPaths, OpenFiles, OpenDirs
  <2> QED BY <1>2, <2>2 DEF AsPosix!Next
<1>4. CASE Dup(h) \/ handle[h].refs # 1
  <2>1. \A g \in Handles : handle'[g].st = handle[g].st /\ handle'[g].file = handle[g].file
    BY <1>1, <1>4 DEF Dup, Close, FdInv, Tables
  <2>2. OpenFiles(handle)' = OpenFiles(handle)
    BY <2>1 DEF OpenFiles
  <2> QED BY <1>1, <1>2, <2>2 DEF AsPosix!vars, UserPaths, OpenFiles, OpenDirs
<1> QED BY <1>3, <1>4

LEMMA ReleaseMaps ==
    ASSUME NamesInv, FdInv, NamesInv', FdInv', NEW h \in Handles, Release(h)
    PROVE  AsPosix!Next
<1>1. /\ handle[h].st = "closed" /\ UNCHANGED <<fs, stream, last>>
      /\ handle' = [handle EXCEPT ![h] = NoFile]
  BY DEF Release
<1>2. UserPaths(at') = UserPaths(at)
  <2>1. DOMAIN at = AllPaths /\ handle[h].path \in AllPaths \ {<< >>}
    BY <1>1 DEF NamesInv, Sound, IsTree, Leads
  <2>2. CASE at' = at
    BY <2>2
  <2>3. CASE at' = Without(at, handle[h].path) /\ Last(handle[h].path) \in SecretNames
    <3>1. handle[h].path \notin Paths
      BY <2>1, <2>3, PathsAndSecrets
    <3> QED BY <2>1, <2>3, <3>1, UsersWithout
  <2> QED BY <2>2, <2>3 DEF Release
<1>3. OpenFiles(handle') = [OpenFiles(handle) EXCEPT ![h] = [st |-> "none", file |-> None]]
  BY <1>1 DEF FdInv, Tables, OpenFiles, NoFile
<1>4. PICK new \in Returned(h) : node' = Collect(at', OpenInodes(fds'), new)
  BY DEF Release
<1>5. node' = Collect(UserPaths(at), AsPosix!Held(OpenFiles(handle'), OpenDirs(stream)), new)
  <2>1. DOMAIN new = Inodes
    BY <1>4, ReturnedIs DEF NamesInv
  <2>2. node' = Collect(UserPaths(at'), AsPosix!Held(OpenFiles(handle'), OpenDirs(stream')), new)
    BY <1>4, <2>1, CollectMaps
  <2> QED BY <1>1, <1>2, <2>2
<1>6. OpenDirs(stream') = OpenDirs(stream) /\ UNCHANGED Weakness
  BY <1>1 DEF Weakness
<1>7. \/ new = node
      \/ /\ "copies" \in Weakness
         /\ \E data \in AsPosix!Contents : new = [node EXCEPT ![OpenFiles(handle)[h].file].data = data]
  <2>1. CASE new # node
    <3>1. PICK data \in Contents : new = [node EXCEPT ![at[handle[h].path]].data = data]
      BY <1>4, <2>1 DEF Returned
    <3>2. at[handle[h].path] = OpenFiles(handle)[h].file
      BY <1>1 DEF NamesInv, Sound, Leads, OpenFiles
    <3>3. fs = "netfs"
      BY <1>4, <2>1 DEF Returned
    <3>4. new = [node EXCEPT ![OpenFiles(handle)[h].file].data = data]
      BY <3>1, <3>2
    <3> QED BY <3>1, <3>3, <3>4, SameTrees DEF Weakness
  <2> QED BY <2>1
<1>8. OpenFiles(handle)[h].st = "closed"
  BY <1>1 DEF OpenFiles
<1>9. AsPosix!Release(h)
  BY <1>1, <1>2, <1>3, <1>5, <1>6, <1>7, <1>8, SameTrees
  DEF AsPosix!Release, UserPaths, OpenFiles, OpenDirs
<1> QED BY <1>6, <1>9 DEF AsPosix!Next

(* The network file system has no open directories. *)
StreamsInv == fs = "netfs" => \A s \in Streams : stream[s] = NoDir

LEMMA StreamsInit == Init => StreamsInv
  BY DEF Init, StreamsInv

LEMMA StreamsNext == StreamsInv /\ [Next]_vars => StreamsInv'
<1> SUFFICES ASSUME StreamsInv, [Next]_vars PROVE StreamsInv'
  OBVIOUS
<1>1. ASSUME UNCHANGED <<fs, stream>> PROVE StreamsInv'
  BY <1>1 DEF StreamsInv
<1>2. CASE UNCHANGED vars
  BY <1>1, <1>2 DEF vars
<1>3. CASE Named
  <2>1. UNCHANGED <<fs, stream>>
    BY <1>3 DEF Named, Mknod, MknodServed, Mkdir, Unlink, Rmdir, Symlink, SymlinkServed, Link, Rename,
                Chmod, Truncate, TruncateLocal, Readlink, Access, Create, Add, Refuse, Change, Alter, Tell
  <2> QED BY <1>1, <2>1
<1>4. CASE Looked
  BY <1>1, <1>4 DEF Looked, ReaddirServed, Tell
<1>5. ASSUME NEW h \in Handles,
             \/ \E p \in Paths \ {<< >>} : Open(h, p) \/ OpenServed(h, p)
             \/ \E d \in Data : Write(h, d)
             \/ ReadServed(h) \/ WriteServed(h)
             \/ Read(h) \/ Ftruncate(h) \/ Dup(h) \/ Close(h) \/ Release(h)
      PROVE  StreamsInv'
  BY <1>1, <1>5 DEF Open, OpenServed, Write, ReadServed, WriteServed, Read, Ftruncate, Dup, Close, Release, Refuse, Alter, Tell
<1>6. ASSUME NEW s \in Streams, (\E p \in Paths : Opendir(s, p)) \/ Readdir(s) \/ Releasedir(s)
      PROVE  StreamsInv'
  BY <1>6 DEF Opendir, Readdir, Releasedir, StreamsInv, Refuse
<1> QED BY <1>2, <1>3, <1>4, <1>5, <1>6 DEF Next, Opened

LEMMA OpendirMaps ==
    ASSUME NamesInv, FdInv, NEW s \in Streams, NEW p \in Paths, Opendir(s, p)
    PROVE  AsPosix!Next
<1>1. CASE Refuse
  BY <1>1, RefuseMaps
<1>2. CASE ~Refuse
  <2>1. /\ stream[s] = NoDir /\ IsDir(at, node, p) /\ node[at[p]].perm /\ Done
        /\ UNCHANGED <<fs, at, node, handle>>
        /\ stream' = [stream EXCEPT ![s] = [fh |-> LowestFd, dir |-> at[p], read |-> FALSE]]
    BY <1>2 DEF Opendir
  <2>2. OpenDirs(stream)' = [OpenDirs(stream) EXCEPT ![s] = [dir |-> at[p], read |-> FALSE]]
    BY <2>1 DEF FdInv, Tables, OpenDirs
  <2>3. /\ UserPaths(at)' = UserPaths(at) /\ OpenFiles(handle)' = OpenFiles(handle)
        /\ AsPosix!Answer("change", << >>, TRUE, {}) /\ UNCHANGED Weakness
    BY <2>1 DEF UserPaths, OpenFiles, Weakness, Done, Answer, AsPosix!Answer
  <2>4. AsPosix!IsDir(UserPaths(at), node, p)
    <3>1. DOMAIN at = AllPaths
      BY DEF NamesInv, Sound, IsTree
    <3> QED BY <2>1, <3>1, SameOnUserPaths, SameTrees
  <2>5. AsPosix!Opendir(s, p)
    BY <2>1, <2>2, <2>3, <2>4 DEF AsPosix!Opendir, UserPaths, OpenFiles, OpenDirs, NoDir
  <2> QED BY <2>3, <2>5 DEF AsPosix!Next
<1> QED BY <1>1, <1>2

LEMMA ReaddirMaps ==
    ASSUME NamesInv, FdInv, StreamsInv, NEW s \in Streams, Readdir(s)
    PROVE  AsPosix!Next
<1>1. /\ stream[s] # NoDir /\ stream[s].dir # None /\ fds[stream[s].fh] = stream[s].dir
      /\ UNCHANGED <<fs, at, node, handle>> /\ stream' = [stream EXCEPT ![s].read = TRUE]
      /\ \/ Answer("readdir", <<s>>, TRUE, Listing(at, stream[s].dir))
         \/ stream[s].read /\ \E ok \in BOOLEAN : Answer("readdir", <<s>>, ok, {})
  BY DEF Readdir, FdInv, HoldersServed
<1>2. "once" \in Weakness
  BY <1>1, PassThroughAssumption DEF StreamsInv, NamesInv, Weakness
<1>3. Listing(at, stream[s].dir) \in AsPosix!Shown(stream[s].dir)
  BY UsersList DEF NamesInv
<1>4. OpenDirs(stream)' = [OpenDirs(stream) EXCEPT ![s].read = TRUE]
  BY <1>1 DEF FdInv, Tables, OpenDirs
<1>5. UserPaths(at)' = UserPaths(at) /\ OpenFiles(handle)' = OpenFiles(handle) /\ UNCHANGED Weakness
  BY <1>1 DEF UserPaths, OpenFiles, Weakness
<1>6. OpenDirs(stream)[s].dir = stream[s].dir /\ OpenDirs(stream)[s].read = stream[s].read
  BY DEF OpenDirs
<1>7. \/ \E names \in AsPosix!Shown(OpenDirs(stream)[s].dir) :
            AsPosix!Answer("readdir", <<s>>, TRUE, names)
      \/ /\ "once" \in Weakness /\ OpenDirs(stream)[s].read
         /\ \E ok \in BOOLEAN : AsPosix!Answer("readdir", <<s>>, ok, {})
  BY <1>1, <1>2, <1>3, <1>6 DEF Answer, AsPosix!Answer, AsPosix!Shown
<1>8. AsPosix!Readdir(s)
  BY <1>1, <1>4, <1>5, <1>6, <1>7 DEF AsPosix!Readdir, UserPaths, OpenFiles, OpenDirs
<1> QED BY <1>5, <1>8 DEF AsPosix!Next

LEMMA ReleasedirMaps ==
    ASSUME NamesInv, FdInv, NamesInv', FdInv', NEW s \in Streams, Releasedir(s)
    PROVE  AsPosix!Next
<1>1. /\ stream[s] # NoDir /\ stream[s].dir # None /\ UNCHANGED <<fs, at, handle, last>>
      /\ stream' = [stream EXCEPT ![s] = NoDir] /\ node' = Collect(at', OpenInodes(fds'), node)
  BY DEF Releasedir, FdInv, HoldersServed
<1>2. OpenDirs(stream') = [OpenDirs(stream) EXCEPT ![s] = [dir |-> None, read |-> FALSE]]
  BY <1>1 DEF FdInv, Tables, OpenDirs, NoDir
<1>3. node' = Collect(UserPaths(at'), AsPosix!Held(OpenFiles(handle'), OpenDirs(stream')), node)
  BY <1>1, CollectMaps DEF NamesInv
<1>4. UserPaths(at') = UserPaths(at) /\ OpenFiles(handle') = OpenFiles(handle) /\ UNCHANGED Weakness
  BY <1>1 DEF Weakness
<1>5. node' = Collect(UserPaths(at), AsPosix!Held(OpenFiles(handle), OpenDirs(stream')), node)
  BY <1>3, <1>4
<1>6. OpenDirs(stream)[s].dir # None
  BY <1>1 DEF OpenDirs
<1>7. AsPosix!Closedir(s)
  BY <1>1, <1>2, <1>4, <1>5, <1>6, SameTrees DEF AsPosix!Closedir, UserPaths, OpenFiles, OpenDirs
<1> QED BY <1>4, <1>7 DEF AsPosix!Next

LEMMA InitMaps == Init => AsPosix!Init
<1> SUFFICES ASSUME Init PROVE AsPosix!Init
  OBVIOUS
<1>1. Weakness \in SUBSET AsPosix!Weaknesses
  BY DEF Weakness, AsPosix!Weaknesses
<1>2. [p \in Paths |-> at[p]] = [p \in Paths |-> IF p = << >> THEN AsPosix!Root ELSE None]
  BY SameTrees, PathsAreRoutes DEF Init
<1>3. node = [i \in Inodes |-> IF i = AsPosix!Root THEN [AsPosix!Free EXCEPT !.kind = "dir"]
                               ELSE AsPosix!Free]
  BY SameTrees DEF Init
<1>4. /\ [h \in Handles |-> [st |-> handle[h].st, file |-> handle[h].file]] =
            [h \in Handles |-> [st |-> "none", file |-> None]]
      /\ [s \in Streams |-> [dir |-> stream[s].dir, read |-> stream[s].read]] =
            [s \in Streams |-> [dir |-> None, read |-> FALSE]]
  BY DEF Init, NoFile, NoDir
<1>5. last = [call |-> "change", of |-> << >>, ok |-> TRUE, val |-> {}]
  BY DEF Init
<1> QED BY <1>1, <1>2, <1>3, <1>4, <1>5 DEF AsPosix!Init

LEMMA MapsNext ==
    ASSUME NamesInv, FdInv, StreamsInv, NamesInv', FdInv', [Next]_vars
    PROVE  AsPosix!Next \/ UNCHANGED AsPosix!vars
<1>1. CASE UNCHANGED vars
  BY <1>1 DEF vars, AsPosix!vars, Weakness
<1>2. CASE Named
  <2>1. PICK p \in Paths \ {<< >>} :
           \/ \E kind \in Kinds : Mknod(p, kind) \/ MknodServed(p, kind)
           \/ Mkdir(p) \/ Unlink(p) \/ Rmdir(p)
           \/ \E to \in Data : Symlink(to, p) \/ SymlinkServed(to, p)
           \/ \E q \in Paths \ {<< >>} : Link(p, q) \/ Rename(p, q)
           \/ Chmod(p) \/ Truncate(p) \/ TruncateLocal(p) \/ Readlink(p) \/ Access(p)
    BY <1>2 DEF Named
  <2> QED BY <2>1, CreationsMap, UnlinkMaps, RmdirMaps, LinkMaps, RenameMaps, AlterMaps, LookMaps
<1>3. CASE Looked
  BY <1>3, LookMaps DEF Looked
<1>4. CASE Opened
  BY <1>4, OpenMaps, DescriptorMaps, CopyMaps, CloseMaps, ReleaseMaps, OpendirMaps, ReaddirMaps,
     ReleasedirMaps DEF Opened
<1> QED BY <1>1, <1>2, <1>3, <1>4 DEF Next

(* For every tree and every sequence of calls, bbfs and the network file   *)
(* system show their users PosixFiles, but for the weaknesses listed in    *)
(* Weakness: a call takes effect as a whole or is refused without effect,  *)
(* what is open when it loses its name, deleted or replaced, is kept until *)
(* its release and no longer, and a listing shows no other name than those *)
(* of users but one secret name for each such file (bbfs.c, client_fs.c    *)
(* and server_fs.c).                                                       *)
THEOREM UsersSeePosix == Spec => ImplementsPosixFiles
<1>1. Init /\ StreamsInv /\ [][Next]_vars => []StreamsInv
  BY StreamsNext, PTL
<1>2. Spec => [](NamesInv /\ FdInv /\ StreamsInv)
  BY <1>1, StreamsInit, NamesAlways, PTL DEF Spec
<1>3. NamesInv /\ FdInv /\ StreamsInv /\ NamesInv' /\ FdInv' /\ [Next]_vars =>
         [AsPosix!Next]_(AsPosix!vars)
  BY MapsNext
<1>4. Spec => AsPosix!Spec
  BY <1>2, <1>3, InitMaps, PTL DEF Spec, AsPosix!Spec
<1> QED BY <1>4 DEF ImplementsPosixFiles
=============================================================================
