---------------------------- MODULE FileSessions ----------------------------
(***************************************************************************)
(* File contents in AOS2/client_fs.c.  open() asks the server for the      *)
(* file's full path, copies the file with scp to /tmp/<hash of the path>   *)
(* and opens the copy (the descriptor is never used nor closed); read()    *)
(* and write() work on the copy; release(), which the kernel sends some    *)
(* time after close(), copies it back with scp, whatever the file was      *)
(* opened for.  A mount runs one request at a time (README: -s).           *)
(*                                                                         *)
(* Contents are a few blocks; scp moves them one after the other while the *)
(* other mounts go on, and may fail, which nobody looks at.  The name in   *)
(* /tmp is a hash: two paths may share it (hash * 33 + c gives "/ab" and   *)
(* "/bA" one).  A call waits for its answer without a timeout: when a      *)
(* datagram is lost or taken for another, it waits for ever (UdpRpc), and  *)
(* with it the mount's only thread.  An answer that comes is the right one;*)
(* a refused OPEN changes nothing and is a stuttering step.  Lengths are   *)
(* not modelled.                                                           *)
(***************************************************************************)
EXTENDS Integers, FiniteSets

CONSTANTS
    Mounts,         \* clients, each on a machine of its own
    Paths,
    Key,            \* hash_path: [Paths -> names in /tmp]
    Handles,        \* open files of one mount
    NBlocks,        \* bound: blocks of a file
    MaxVersion,     \* bound: different values written to a block
    MaxFds,         \* the limit on open descriptors of a process
    ScpMayFail,
    NoFile, NoPath  \* no copy in /tmp; no path

VARIABLES
    served,     \* [Paths -> content]: the files of the server
    cache,      \* [Mounts -> [names in /tmp -> content or NoFile]]
    handle,     \* [Mounts -> [Handles -> [st, path, mode]]]
    busy,       \* [Mounts -> the request the mount's thread is working on]
    fds,        \* [Mounts -> descriptors xmp_open left open]
    alive,      \* [Mounts -> BOOLEAN]: FALSE after exit(EXIT_FAILURE)
    last        \* the last read or write

vars == <<served, cache, handle, busy, fds, alive, last>>

Blocks == 1 .. NBlocks
Names  == {Key[p] : p \in Paths}

(* A value tells where it was written. Version 0 is the file as it was. *)
Version(p, b) == [path : {p}, block : {b}, ver : 0 .. MaxVersion]
Original(p, b) == [path |-> p, block |-> b, ver |-> 0]
Hole == [path |-> NoPath, block |-> 0, ver |-> 0]
Value == [path : Paths, block : Blocks, ver : 0 .. MaxVersion] \cup {Hole}
Content == [Blocks -> Value]

Closed == [st |-> "none", path |-> NoPath, mode |-> "R"]
Idle   == [pc |-> "idle", h |-> 0, path |-> NoPath, mode |-> "R", next |-> 1]
Hung   == [Idle EXCEPT !.pc = "hung"]

ASSUME SessionsAssumption ==
    /\ NBlocks \in Nat \ {0}
    /\ MaxVersion \in Nat
    /\ MaxFds \in Nat
    /\ ScpMayFail \in BOOLEAN
    /\ Key \in [Paths -> Names]
    /\ NoFile \notin Content
    /\ NoPath \notin Paths

Init ==
    /\ served = [p \in Paths |-> [b \in Blocks |-> Original(p, b)]]
    /\ cache = [m \in Mounts |-> [k \in Names |-> NoFile]]
    /\ handle = [m \in Mounts |-> [h \in Handles |-> Closed]]
    /\ busy = [m \in Mounts |-> Idle]
    /\ fds = [m \in Mounts |-> 0]
    /\ alive = [m \in Mounts |-> TRUE]
    /\ last = << >>

Ready(m) == alive[m] /\ busy[m].pc = "idle"

(* Slip: one descriptor too many. *)
FdFreeOneMore(m) == fds[m] <= MaxFds

(* A descriptor is needed for the socket of a call and for every open *)
FdFree(m) == fds[m] < MaxFds

(* send_through_net: socket() fails for want of a descriptor *)
Exits(m) ==
    /\ alive' = [alive EXCEPT ![m] = FALSE]
    /\ busy' = [busy EXCEPT ![m] = Idle]
    /\ UNCHANGED <<served, cache, handle, fds, last>>

(* send_through_net: recvfrom() waits for an answer that does not come *)
Hangs(m) ==
    /\ FdFree(m)
    /\ busy' = [busy EXCEPT ![m] = Hung]
    /\ UNCHANGED <<served, cache, handle, fds, alive, last>>

----------------------------------------------------------------------------
(* xmp_open: the call OPEN; then scp is about to start *)
OpenCall(m, h, p, mode) ==
    /\ Ready(m)
    /\ handle[m][h].st = "none"
    /\ \/ /\ FdFree(m)
          /\ busy' = [busy EXCEPT ![m] =
                [pc |-> "fetch", h |-> h, path |-> p, mode |-> mode, next |-> 1]]
          /\ UNCHANGED <<served, cache, handle, fds, alive, last>>
       \/ Hangs(m)
       \/ ~FdFree(m) /\ Exits(m)

(* scp server:path /tmp/name, one block *)
FetchBlock(m) ==
    LET p == busy[m].path  b == busy[m].next  k == Key[p] IN
    /\ alive[m]
    /\ busy[m].pc = "fetch"
    /\ cache' = [cache EXCEPT ![m][k] =
          [(IF @ = NoFile THEN [c \in Blocks |-> Hole] ELSE @) EXCEPT ![b] = served[p][b]]]
    /\ busy' = [busy EXCEPT ![m] =
          IF b = NBlocks THEN [@ EXCEPT !.pc = "open"] ELSE [@ EXCEPT !.next = b + 1]]
    /\ UNCHANGED <<served, handle, fds, alive, last>>

(* The status system() returns is dropped. *)
FetchFails(m) ==
    /\ ScpMayFail
    /\ alive[m]
    /\ busy[m].pc = "fetch"
    /\ busy' = [busy EXCEPT ![m].pc = "open"]
    /\ UNCHANGED <<served, cache, handle, fds, alive, last>>

(* open(/tmp/name): the descriptor stays open for good *)
OpenCopy(m) ==
    /\ alive[m]
    /\ busy[m].pc = "open"
    /\ busy' = [busy EXCEPT ![m] = Idle]
    /\ \/ /\ FdFree(m) /\ cache[m][Key[busy[m].path]] # NoFile
          /\ fds' = [fds EXCEPT ![m] = @ + 1]
          /\ handle' = [handle EXCEPT ![m][busy[m].h] =
                [st |-> "open", path |-> busy[m].path, mode |-> busy[m].mode]]
       \/ /\ ~FdFree(m) \/ cache[m][Key[busy[m].path]] = NoFile
          /\ UNCHANGED <<fds, handle>>
    /\ UNCHANGED <<served, cache, alive, last>>

----------------------------------------------------------------------------
(* xmp_read and xmp_write open the copy anew; without a descriptor they fail *)

Read(m, h, b) ==
    /\ Ready(m)
    /\ handle[m][h].st = "open"
    /\ FdFree(m)
    /\ last' = [by |-> "read", path |-> handle[m][h].path, block |-> b,
                val |-> cache[m][Key[handle[m][h].path]][b]]
    /\ UNCHANGED <<served, cache, handle, busy, fds, alive>>

Write(m, h, b) ==
    /\ Ready(m)
    /\ handle[m][h].st = "open"
    /\ handle[m][h].mode = "RW"
    /\ FdFree(m)
    /\ \E v \in Version(handle[m][h].path, b) \ {Original(handle[m][h].path, b)} :
          /\ cache' = [cache EXCEPT ![m][Key[handle[m][h].path]][b] = v]
          /\ last' = [by |-> "write", path |-> handle[m][h].path, block |-> b, val |-> v]
    /\ UNCHANGED <<served, handle, busy, fds, alive>>

----------------------------------------------------------------------------
(* close() returns at once; the kernel queues the RELEASE *)
Close(m, h) ==
    /\ alive[m]
    /\ handle[m][h].st = "open"
    /\ handle' = [handle EXCEPT ![m][h].st = "closed"]
    /\ UNCHANGED <<served, cache, busy, fds, alive, last>>

(* Slip: only what was opened for writing is released. *)
ReleaseCallOfWriter(m, h) ==
    /\ Ready(m)
    /\ handle[m][h].st = "closed"
    /\ handle[m][h].mode = "RW"
    /\ FdFree(m)
    /\ busy' = [busy EXCEPT ![m] =
          [pc |-> "store", h |-> h, path |-> handle[m][h].path, mode |-> "RW", next |-> 1]]
    /\ UNCHANGED <<served, cache, handle, fds, alive, last>>

(* xmp_release: the call RELEASE *)
ReleaseCall(m, h) ==
    /\ Ready(m)
    /\ handle[m][h].st = "closed"
    /\ \/ /\ FdFree(m)
          /\ busy' = [busy EXCEPT ![m] =
                [pc |-> "store", h |-> h, path |-> handle[m][h].path,
                 mode |-> handle[m][h].mode, next |-> 1]]
          /\ UNCHANGED <<served, cache, handle, fds, alive, last>>
       \/ Hangs(m)
       \/ ~FdFree(m) /\ Exits(m)

Released(m) == [handle EXCEPT ![m][busy[m].h] = Closed]

(* Slip: the copy goes back only as far as its first block. *)
StoreBlockFirst(m) ==
    /\ alive[m]
    /\ busy[m].pc = "store"
    /\ served' = [served EXCEPT ![busy[m].path][1] = cache[m][Key[busy[m].path]][1]]
    /\ busy' = [busy EXCEPT ![m] = Idle]
    /\ handle' = Released(m)
    /\ UNCHANGED <<cache, fds, alive, last>>

(* scp /tmp/name server:path, one block *)
StoreBlock(m) ==
    LET p == busy[m].path  b == busy[m].next IN
    /\ alive[m]
    /\ busy[m].pc = "store"
    /\ served' = [served EXCEPT ![p][b] = cache[m][Key[p]][b]]
    /\ IF b = NBlocks
       THEN /\ busy' = [busy EXCEPT ![m] = Idle]
            /\ handle' = Released(m)
       ELSE /\ busy' = [busy EXCEPT ![m].next = b + 1]
            /\ UNCHANGED handle
    /\ UNCHANGED <<cache, fds, alive, last>>

(* release returns 0 all the same *)
StoreFails(m) ==
    /\ ScpMayFail
    /\ alive[m]
    /\ busy[m].pc = "store"
    /\ busy' = [busy EXCEPT ![m] = Idle]
    /\ handle' = Released(m)
    /\ UNCHANGED <<served, cache, fds, alive, last>>

Working(m) ==
    FetchBlock(m) \/ FetchFails(m) \/ OpenCopy(m) \/ StoreBlock(m) \/ StoreFails(m)

Request(m) ==
    \E h \in Handles :
        \/ \E b \in Blocks : Read(m, h, b) \/ Write(m, h, b)
        \/ Close(m, h)
        \/ ReleaseCall(m, h)

Next ==
    \E m \in Mounts :
        \/ \E h \in Handles, p \in Paths, mode \in {"R", "RW"} : OpenCall(m, h, p, mode)
        \/ Request(m)
        \/ Working(m)

Spec == Init /\ [][Next]_vars

(* The mount's thread and its scp run on unless a call hangs, and the      *)
(* kernel's queue is first in, first out: while the thread takes requests, *)
(* a RELEASE gets its turn.  That the call is answered is not assumed.     *)
FairSpec ==
    /\ Spec
    /\ \A m \in Mounts :
          /\ WF_vars(Working(m))
          /\ \A h \in Handles : SF_vars(ReleaseCall(m, h))

----------------------------------------------------------------------------
(* The files as the users see them *)

InUse(m, p) == \E h \in Handles : handle[m][h].st # "none" /\ handle[m][h].path = p

FileView ==
    [p \in Paths |->
        IF \E m \in Mounts : InUse(m, p)
        THEN cache[CHOOSE m \in Mounts : InUse(m, p)][Key[p]]
        ELSE served[p]]

Plain == INSTANCE PlainFiles WITH file <- FileView

(* The discipline under which the copies are not noticed: nobody opens a   *)
(* file that another mount has open, or has not released yet, nor one that *)
(* this mount has written to and not released, nor one whose name in /tmp  *)
(* is that of another file this mount has open; and no mount opens files   *)
(* more than MaxFds - 1 times.                                             *)
Disciplined(m, p) ==
    /\ \A n \in Mounts \ {m} : ~InUse(n, p) /\ busy[n].path # p
    /\ InUse(m, p) => cache[m][Key[p]] = served[p]
    /\ \A q \in Paths \ {p} : InUse(m, q) => Key[q] # Key[p]
    /\ fds[m] < MaxFds - 1

DisciplinedNext ==
    \E m \in Mounts :
        \/ \E h \in Handles, p \in Paths, mode \in {"R", "RW"} :
              Disciplined(m, p) /\ OpenCall(m, h, p, mode)
        \/ Request(m)
        \/ Working(m)

DisciplinedSpec == Init /\ [][DisciplinedNext]_vars

----------------------------------------------------------------------------
(* Properties *)

TypeOK ==
    /\ served \in [Paths -> Content]
    /\ cache \in [Mounts -> [Names -> Content \cup {NoFile}]]
    /\ handle \in [Mounts -> [Handles -> [st : {"none", "open", "closed"},
                                         path : Paths \cup {NoPath}, mode : {"R", "RW"}]]]
    /\ busy \in [Mounts -> [pc : {"idle", "hung", "fetch", "open", "store"},
                            h : Handles \cup {0}, path : Paths \cup {NoPath}, mode : {"R", "RW"}, next : Blocks]]
    /\ fds \in [Mounts -> 0 .. MaxFds]
    /\ alive \in [Mounts -> BOOLEAN]

(* For users who keep the discipline the file system is one of plain files:*)
(* copying in and out, read-only handles whose release writes the file     *)
(* back, a late RELEASE and reopening are not noticed. It is the case of   *)
(* testcode.c, which opens a file twice, writes through one descriptor,    *)
(* closes it and expects the data from the other.                          *)
ImplementsPlainFiles == Plain!Spec

(* A handle that was closed is released, whatever it was opened for and    *)
(* whether or not scp works, unless its mount has exited or waits for an   *)
(* answer that does not come: xmp_release has no other way out.            *)
ClosedIsReleased ==
    \A m \in Mounts, h \in Handles :
        handle[m][h].st = "closed" ~>
            handle[m][h].st = "none" \/ ~alive[m] \/ busy[m].pc = "hung"

(* xmp_release is headed "Just a stub. This method is optional and can     *)
(* safely be left unimplemented": the release of a file that was only read *)
(* would then leave the server's copy alone.                               *)
ReaderReleaseIsStub ==
    [][\A m \in Mounts : StoreBlock(m) /\ busy[m].mode = "R" => UNCHANGED served]_vars
=============================================================================
