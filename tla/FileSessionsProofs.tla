------------------------- MODULE FileSessionsProofs -------------------------
(***************************************************************************)
(* Theorems about open files and their copies, for every number of mounts, *)
(* paths, handles, blocks, versions and descriptors.                       *)
(***************************************************************************)
EXTENDS FileSessions, TLAPS

(* An open file, and a request under way, is about a path; what is open or *)
(* on its way back has its copy in /tmp, which nothing takes away.         *)
Copied(m, p) == p \in Paths /\ cache[m][Key[p]] # NoFile

HandlesCopied ==
    \A m \in Mounts, h \in Handles : handle[m][h].st # "none" => Copied(m, handle[m][h].path)

RequestsSound ==
    \A m \in Mounts : busy[m].pc \notin {"idle", "hung"} =>
        /\ busy[m].h \in Handles
        /\ busy[m].path \in Paths
        /\ busy[m].pc = "store" => Copied(m, busy[m].path)

SessionsInv == TypeOK /\ HandlesCopied /\ RequestsSound

Open(m) == \E h \in Handles, p \in Paths, mode \in {"R", "RW"} : OpenCall(m, h, p, mode)

LEMMA Values ==
    /\ 1 \in Blocks
    /\ Hole \in Value
    /\ \A p \in Paths, b \in Blocks : Original(p, b) \in Value /\ Version(p, b) \subseteq Value
    /\ [c \in Blocks |-> Hole] \in Content
    /\ \A p \in Paths : Key[p] \in Names
<1>1. 1 \in Blocks /\ 0 \in 0 .. MaxVersion
  BY SessionsAssumption DEF Blocks
<1>2. Hole \in Value
  BY DEF Hole, Value
<1>3. ASSUME NEW p \in Paths, NEW b \in Blocks
      PROVE  Original(p, b) \in Value /\ Version(p, b) \subseteq Value
  BY <1>1 DEF Original, Version, Value
<1>4. [c \in Blocks |-> Hole] \in Content
  BY <1>2 DEF Content
<1>5. \A p \in Paths : Key[p] \in Names
  BY DEF Names
<1> QED BY <1>1, <1>2, <1>3, <1>4, <1>5

HandleRecord == [st : {"none", "open", "closed"}, path : Paths \cup {NoPath}, mode : {"R", "RW"}]

BusyRecord == [pc : {"idle", "hung", "fetch", "open", "store"}, h : Handles \cup {0},
               path : Paths \cup {NoPath}, mode : {"R", "RW"}, next : Blocks]

LEMMA Records ==
    /\ Closed \in HandleRecord /\ Idle \in BusyRecord /\ Hung \in BusyRecord
    /\ TypeOK <=> /\ served \in [Paths -> Content]
                  /\ cache \in [Mounts -> [Names -> Content \cup {NoFile}]]
                  /\ handle \in [Mounts -> [Handles -> HandleRecord]]
                  /\ busy \in [Mounts -> BusyRecord]
                  /\ fds \in [Mounts -> 0 .. MaxFds]
                  /\ alive \in [Mounts -> BOOLEAN]
  BY Values DEF HandleRecord, BusyRecord, Closed, Idle, Hung, TypeOK

LEMMA NextBlock ==
    ASSUME NEW b \in Blocks, b # NBlocks
    PROVE  b + 1 \in Blocks
  BY SessionsAssumption DEF Blocks

LEMMA SessionsInit == Init => SessionsInv
<1> SUFFICES ASSUME Init PROVE SessionsInv
  OBVIOUS
<1>1. served \in [Paths -> Content]
  BY Values DEF Init, Content
<1>2. TypeOK
  BY <1>1, Values, SessionsAssumption DEF Init, TypeOK, Closed, Idle
<1> QED BY <1>2 DEF Init, SessionsInv, HandlesCopied, RequestsSound, Closed, Idle

(* A mount whose thread stops leaves everything else as it was. *)
LEMMA ThreadStops ==
    ASSUME SessionsInv, NEW m \in Mounts, Exits(m) \/ Hangs(m)
    PROVE  SessionsInv'
<1>1. PICK r \in {Idle, Hung} : busy' = [busy EXCEPT ![m] = r]
  BY DEF Exits, Hangs
<1>2. UNCHANGED <<served, cache, handle, fds>> /\ alive' \in [Mounts -> BOOLEAN]
  BY DEF Exits, Hangs, SessionsInv, TypeOK
<1>3. r \in BusyRecord /\ r.pc \in {"idle", "hung"}
  BY Records DEF Idle, Hung
<1>4. busy' \in [Mounts -> BusyRecord]
  BY <1>1, <1>3, Records DEF SessionsInv
<1>5. TypeOK'
  BY <1>2, <1>4 DEF SessionsInv, TypeOK, BusyRecord
<1>6. \A n \in Mounts : busy'[n] = busy[n] \/ busy'[n].pc \in {"idle", "hung"}
  BY <1>1, <1>3 DEF SessionsInv, TypeOK
<1> QED BY <1>2, <1>5, <1>6 DEF SessionsInv, HandlesCopied, RequestsSound, Copied

(* One lemma for the requests that only move a mount's thread, its handles *)
(* or its descriptors, one for those that write a copy, and one for those  *)
(* that write a file of the server.                                        *)
LEMMA ThreadMoves ==
    ASSUME SessionsInv, NEW m \in Mounts,
           \/ Open(m)
           \/ FetchFails(m)
           \/ OpenCopy(m)
           \/ \E h \in Handles : Close(m, h) \/ ReleaseCall(m, h)
           \/ StoreFails(m)
           \/ \E h \in Handles, b \in Blocks : Read(m, h, b)
    PROVE  SessionsInv'
<1> USE DEF SessionsInv, HandlesCopied, RequestsSound, Copied, Ready
<1>1. ASSUME NEW h \in Handles, NEW p \in Paths, NEW mode \in {"R", "RW"}, OpenCall(m, h, p, mode)
      PROVE  SessionsInv'
  <2>1. CASE Exits(m) \/ Hangs(m)
    BY <2>1, ThreadStops
  <2>2. CASE /\ busy' = [busy EXCEPT ![m] =
                   [pc |-> "fetch", h |-> h, path |-> p, mode |-> mode, next |-> 1]]
             /\ UNCHANGED <<served, cache, handle, fds, alive, last>>
    <3>1. TypeOK'
      BY <2>2, Values DEF TypeOK
    <3> QED BY <2>2, <3>1 DEF TypeOK
  <2> QED BY <1>1, <2>1, <2>2 DEF OpenCall
<1>2. CASE FetchFails(m)
  <2>1. /\ busy' = [busy EXCEPT ![m] = [busy[m] EXCEPT !.pc = "open"]]
        /\ UNCHANGED <<served, cache, handle, fds, alive>> /\ busy[m].pc = "fetch"
    BY <1>2 DEF FetchFails, TypeOK
  <2>2. busy[m] \in BusyRecord /\ [busy[m] EXCEPT !.pc = "open"] \in BusyRecord
    BY Records DEF BusyRecord
  <2>3. TypeOK'
    BY <2>1, <2>2, Records DEF TypeOK, BusyRecord
  <2> QED BY <2>1, <2>3 DEF TypeOK
<1>3. CASE OpenCopy(m)
  <2>1. busy' = [busy EXCEPT ![m] = Idle] /\ UNCHANGED <<served, cache, alive, last>>
    BY <1>3 DEF OpenCopy
  <2>2. busy' \in [Mounts -> BusyRecord]
    BY <2>1, Records
  <2>3. CASE FdFree(m) /\ cache[m][Key[busy[m].path]] # NoFile
    <3> DEFINE new == [st |-> "open", path |-> busy[m].path, mode |-> busy[m].mode]
    <3>1. /\ fds' = [fds EXCEPT ![m] = @ + 1]
          /\ handle' = [handle EXCEPT ![m][busy[m].h] = new]
      BY <1>3, <2>3 DEF OpenCopy
    <3>2. busy[m].h \in Handles /\ busy[m].path \in Paths
      BY <1>3 DEF OpenCopy
    <3>3. new \in HandleRecord
      BY <3>2 DEF TypeOK, HandleRecord
    <3>4. fds' \in [Mounts -> 0 .. MaxFds]
      BY <2>3, <3>1, SessionsAssumption DEF TypeOK, FdFree
    <3>5. handle' \in [Mounts -> [Handles -> HandleRecord]]
      BY <3>1, <3>3, Records
    <3>6. HandlesCopied'
      BY <2>1, <2>3, <3>1, <3>2 DEF TypeOK
    <3>7. RequestsSound'
      BY <2>1 DEF TypeOK, Idle
    <3>8. TypeOK'
      BY <2>1, <2>2, <3>4, <3>5, Records DEF TypeOK, HandleRecord, BusyRecord
    <3> QED BY <3>6, <3>7, <3>8
  <2>4. CASE ~(FdFree(m) /\ cache[m][Key[busy[m].path]] # NoFile)
    <3>1. UNCHANGED <<fds, handle>>
      BY <1>3, <2>4 DEF OpenCopy
    <3>2. TypeOK'
      BY <2>1, <2>2, <3>1 DEF TypeOK, BusyRecord
    <3> QED BY <2>1, <3>1, <3>2 DEF TypeOK, Idle
  <2> QED BY <2>3, <2>4
<1>4. ASSUME NEW h \in Handles, Close(m, h)
      PROVE  SessionsInv'
  <2>1. handle' = [handle EXCEPT ![m][h].st = "closed"] /\ handle[m][h].st = "open"
        /\ UNCHANGED <<served, cache, busy, fds, alive, last>>
    BY <1>4 DEF Close
  <2>2. [handle[m][h] EXCEPT !.st = "closed"] \in HandleRecord
    <3>1. handle[m][h] \in HandleRecord
      BY Records
    <3> QED BY <3>1 DEF HandleRecord
  <2>3. handle' = [handle EXCEPT ![m] = [@ EXCEPT ![h] = [handle[m][h] EXCEPT !.st = "closed"]]]
    BY <2>1 DEF TypeOK
  <2>4. handle' \in [Mounts -> [Handles -> HandleRecord]]
    BY <2>2, <2>3, Records
  <2>5. TypeOK'
    BY <2>1, <2>4 DEF TypeOK, HandleRecord
  <2>6. \A n \in Mounts, g \in Handles :
           /\ handle'[n][g].path = handle[n][g].path
           /\ handle'[n][g].st # "none" => handle[n][g].st # "none"
    BY <2>1 DEF TypeOK
  <2> QED BY <2>1, <2>5, <2>6
<1>5. ASSUME NEW h \in Handles, ReleaseCall(m, h)
      PROVE  SessionsInv'
  <2>1. CASE Exits(m) \/ Hangs(m)
    BY <2>1, ThreadStops
  <2>2. CASE /\ busy' = [busy EXCEPT ![m] =
                   [pc |-> "store", h |-> h, path |-> handle[m][h].path,
                    mode |-> handle[m][h].mode, next |-> 1]]
             /\ handle[m][h].st = "closed"
             /\ UNCHANGED <<served, cache, handle, fds, alive, last>>
    <3>1. TypeOK'
      BY <2>2, Values DEF TypeOK
    <3> QED BY <2>2, <3>1 DEF TypeOK
  <2> QED BY <1>5, <2>1, <2>2 DEF ReleaseCall
<1>6. CASE StoreFails(m)
  <2>1. TypeOK'
    BY <1>6, Values DEF StoreFails, TypeOK, Idle, Released, Closed
  <2> QED BY <1>6, <2>1 DEF StoreFails, TypeOK, Idle, Released, Closed
<1>7. ASSUME NEW h \in Handles, NEW b \in Blocks, Read(m, h, b)
      PROVE  SessionsInv'
  <2>1. UNCHANGED <<served, cache, handle, busy, fds, alive>>
    BY <1>7 DEF Read
  <2>2. TypeOK'
    BY <2>1 DEF TypeOK
  <2> QED BY <2>1, <2>2
<1> QED BY <1>1, <1>2, <1>3, <1>4, <1>5, <1>6, <1>7 DEF Open

(* What FetchBlock leaves in the copy: the block of the server's file, and *)
(* the rest as it was, or holes.                                           *)
Fetched(m) ==
    [(IF cache[m][Key[busy[m].path]] = NoFile THEN [c \in Blocks |-> Hole]
      ELSE cache[m][Key[busy[m].path]])
        EXCEPT ![busy[m].next] = served[busy[m].path][busy[m].next]]

Advanced(m) ==
    IF busy[m].next = NBlocks THEN [busy[m] EXCEPT !.pc = "open"]
    ELSE [busy[m] EXCEPT !.next = busy[m].next + 1]

LEMMA FetchSound ==
    ASSUME SessionsInv, NEW m \in Mounts, FetchBlock(m)
    PROVE  /\ busy[m].path \in Paths /\ busy[m].next \in Blocks
           /\ Fetched(m) \in Content /\ Fetched(m) # NoFile
           /\ cache' = [cache EXCEPT ![m][Key[busy[m].path]] = Fetched(m)]
           /\ UNCHANGED <<served, handle, fds, alive, last>>
           /\ busy' = [busy EXCEPT ![m] = Advanced(m)]
<1>1. busy[m].path \in Paths /\ busy[m].next \in Blocks
  BY DEF SessionsInv, RequestsSound, FetchBlock, TypeOK
<1>2. Key[busy[m].path] \in Names
  BY <1>1, Values
<1>3. served[busy[m].path][busy[m].next] \in Value
  BY <1>1 DEF SessionsInv, TypeOK, Content
<1>4. Fetched(m) \in Content
  <2>1. cache[m][Key[busy[m].path]] \in Content \cup {NoFile}
    BY <1>2 DEF SessionsInv, TypeOK
  <2> QED BY <1>1, <1>3, <2>1, Values DEF Fetched, Content
<1>5. Fetched(m) # NoFile
  BY <1>4, SessionsAssumption
<1>6. cache' = [cache EXCEPT ![m][Key[busy[m].path]] = Fetched(m)]
  BY <1>2 DEF FetchBlock, Fetched, SessionsInv, TypeOK
<1>7. /\ UNCHANGED <<served, handle, fds, alive, last>>
      /\ busy' = [busy EXCEPT ![m] = Advanced(m)]
  <2>1. busy' = [busy EXCEPT ![m] =
           IF busy[m].next = NBlocks THEN [@ EXCEPT !.pc = "open"]
           ELSE [@ EXCEPT !.next = busy[m].next + 1]]
    BY DEF FetchBlock
  <2>2. UNCHANGED <<served, handle, fds, alive, last>>
    BY DEF FetchBlock
  <2> QED BY <2>1, <2>2 DEF Advanced, SessionsInv, TypeOK
<1> QED BY <1>1, <1>4, <1>5, <1>6, <1>7

LEMMA CopyWritten ==
    ASSUME SessionsInv, NEW m \in Mounts,
           FetchBlock(m) \/ \E h \in Handles, b \in Blocks : Write(m, h, b)
    PROVE  SessionsInv'
<1> USE DEF SessionsInv, HandlesCopied, RequestsSound, Copied
<1>1. CASE FetchBlock(m)
  <2>1. /\ busy[m].path \in Paths /\ busy[m].next \in Blocks
        /\ Fetched(m) \in Content /\ Fetched(m) # NoFile
        /\ cache' = [cache EXCEPT ![m][Key[busy[m].path]] = Fetched(m)]
        /\ UNCHANGED <<served, handle, fds, alive, last>>
        /\ busy' = [busy EXCEPT ![m] = Advanced(m)]
    BY <1>1, FetchSound
  <2>2. cache' \in [Mounts -> [Names -> Content \cup {NoFile}]]
    BY <2>1, Values DEF TypeOK
  <2>3. busy' \in [Mounts -> BusyRecord]
    <3>1. busy[m].next \in Blocks /\ busy[m] \in BusyRecord
      BY <2>1, Records
    <3>2. busy[m].next # NBlocks => busy[m].next + 1 \in Blocks
      BY <3>1, NextBlock
    <3>3. Advanced(m) \in BusyRecord
      BY <3>1, <3>2 DEF Advanced, BusyRecord
    <3> QED BY <2>1, <3>3, Records
  <2>4. TypeOK'
    BY <2>1, <2>2, <2>3 DEF TypeOK, BusyRecord
  <2>5. \A n \in Mounts, p \in Paths : cache[n][Key[p]] # NoFile => cache'[n][Key[p]] # NoFile
    BY <2>1, Values DEF TypeOK
  <2>6. HandlesCopied'
    BY <2>1, <2>5
  <2>7. RequestsSound'
    <3>1. ASSUME NEW n \in Mounts, n # m
          PROVE  busy'[n] = busy[n]
      BY <2>1, <3>1 DEF TypeOK
    <3>2. /\ busy'[m].pc \in {"fetch", "open"} /\ busy'[m].h = busy[m].h
          /\ busy'[m].path = busy[m].path
      BY <1>1, <2>1 DEF TypeOK, FetchBlock, Advanced
    <3>3. busy[m].h \in Handles
      BY <1>1 DEF FetchBlock
    <3> QED BY <2>1, <2>5, <3>1, <3>2, <3>3
  <2> QED BY <2>4, <2>6, <2>7
<1>2. ASSUME NEW h \in Handles, NEW b \in Blocks, Write(m, h, b)
      PROVE  SessionsInv'
  <2>1. handle[m][h].path \in Paths /\ cache[m][Key[handle[m][h].path]] # NoFile
    BY <1>2 DEF Write
  <2>2. PICK v \in Version(handle[m][h].path, b) \ {Original(handle[m][h].path, b)} :
           cache' = [cache EXCEPT ![m][Key[handle[m][h].path]][b] = v]
    BY <1>2 DEF Write
  <2> DEFINE k == Key[handle[m][h].path]
             c == [cache[m][k] EXCEPT ![b] = v]
  <2>3. v \in Value /\ k \in Names /\ cache[m][k] \in Content
    BY <2>1, <2>2, Values DEF TypeOK
  <2>4. c \in Content /\ c # NoFile
    BY <2>3, SessionsAssumption DEF Content
  <2>5. cache' = [cache EXCEPT ![m][k] = c]
    BY <2>2, <2>3 DEF TypeOK
  <2> HIDE DEF c
  <2>6. TypeOK'
    <3>1. cache' \in [Mounts -> [Names -> Content \cup {NoFile}]]
      BY <2>3, <2>4, <2>5 DEF TypeOK
    <3> QED BY <1>2, <3>1 DEF TypeOK, Write
  <2>7. \A n \in Mounts, p \in Paths : cache[n][Key[p]] # NoFile => cache'[n][Key[p]] # NoFile
    BY <2>4, <2>5, Values DEF TypeOK
  <2>8. UNCHANGED <<handle, busy>>
    BY <1>2 DEF Write
  <2> QED BY <2>6, <2>7, <2>8
<1> QED BY <1>1, <1>2

LEMMA ServerWritten ==
    ASSUME SessionsInv, NEW m \in Mounts, StoreBlock(m)
    PROVE  SessionsInv'
<1> USE DEF SessionsInv, HandlesCopied, RequestsSound, Copied
<1> DEFINE p == busy[m].path
           b == busy[m].next
<1>1. p \in Paths /\ b \in Blocks /\ Key[p] \in Names /\ cache[m][Key[p]] \in Content
  <2>1. busy[m].pc = "store"
    BY DEF StoreBlock
  <2>2. p \in Paths /\ cache[m][Key[p]] # NoFile /\ Key[p] \in Names
    BY <2>1, Values
  <2> QED BY <2>2 DEF TypeOK
<1>2. served' = [served EXCEPT ![p][b] = cache[m][Key[p]][b]]
  BY DEF StoreBlock
<1>3. served' \in [Paths -> Content]
  BY <1>1, <1>2 DEF TypeOK, Content
<1>4. UNCHANGED <<cache, fds, alive, last>> /\ busy[m].h \in Handles
  BY DEF StoreBlock
<1>5. CASE b = NBlocks
  <2>1. /\ busy' = [busy EXCEPT ![m] = Idle]
        /\ handle' = [handle EXCEPT ![m][busy[m].h] = Closed]
    BY <1>5 DEF StoreBlock, Released
  <2>2. /\ busy' \in [Mounts -> BusyRecord]
        /\ handle' \in [Mounts -> [Handles -> HandleRecord]]
    BY <1>4, <2>1, Records
  <2>3. TypeOK'
    BY <1>3, <1>4, <2>2 DEF TypeOK, BusyRecord, HandleRecord
  <2>4. HandlesCopied'
    BY <1>4, <2>1 DEF TypeOK, Closed
  <2>5. RequestsSound'
    BY <1>4, <2>1 DEF TypeOK, Idle
  <2> QED BY <2>3, <2>4, <2>5
<1>6. CASE b # NBlocks
  <2>1. busy' = [busy EXCEPT ![m].next = b + 1] /\ UNCHANGED handle
    BY <1>6 DEF StoreBlock
  <2>2. b + 1 \in Blocks
    BY <1>1, <1>6, NextBlock
  <2>3. busy' \in [Mounts -> BusyRecord]
    <3>1. [busy[m] EXCEPT !.next = b + 1] \in BusyRecord
      BY <2>2, Records DEF BusyRecord
    <3>2. busy' = [busy EXCEPT ![m] = [busy[m] EXCEPT !.next = b + 1]]
      BY <2>1, Records
    <3> QED BY <3>1, <3>2, Records
  <2>4. TypeOK'
    BY <1>3, <1>4, <2>1, <2>3 DEF TypeOK, BusyRecord
  <2>5. \A n \in Mounts : /\ busy'[n].pc = busy[n].pc /\ busy'[n].h = busy[n].h
                           /\ busy'[n].path = busy[n].path
    BY <2>1 DEF TypeOK
  <2> QED BY <1>4, <2>1, <2>4, <2>5
<1> QED BY <1>5, <1>6

LEMMA SessionsNext == SessionsInv /\ [Next]_vars => SessionsInv'
<1> SUFFICES ASSUME SessionsInv, [Next]_vars PROVE SessionsInv'
  OBVIOUS
<1>1. CASE UNCHANGED vars
  BY <1>1 DEF vars, SessionsInv, TypeOK, HandlesCopied, RequestsSound, Copied
<1>2. ASSUME NEW m \in Mounts, Open(m) \/ Request(m) \/ Working(m)
      PROVE  SessionsInv'
  BY <1>2, ThreadMoves, CopyWritten, ServerWritten DEF Request, Working
<1> QED BY <1>1, <1>2 DEF Next, Open

(* Files, copies, handles and requests stay within their types, whatever   *)
(* fails.                                                                  *)
THEOREM SessionTypes == Spec => []TypeOK
<1>1. SessionsInv => TypeOK  BY DEF SessionsInv
<1> QED BY <1>1, SessionsInit, SessionsNext, PTL DEF Spec
----------------------------------------------------------------------------
(* The discipline.  A mount touches a path while it has it open, or is     *)
(* fetching it or sending it back.                                         *)
Touches(m, p) == InUse(m, p) \/ busy[m].path = p

Exclusive ==
    \A m, n \in Mounts, p \in Paths : Touches(m, p) /\ Touches(n, p) => m = n

(* Of the paths with one name in /tmp a mount touches one. *)
OnePerName(m) ==
    \A p, q \in Paths : Touches(m, p) /\ Touches(m, q) /\ Key[p] = Key[q] => p = q

(* The copy the mount's request works on, and the blocks scp has moved *)
Copy(m) == cache[m][Key[busy[m].path]]

Moved(m) ==
    \A b \in Blocks : b < busy[m].next =>
        Copy(m) # NoFile /\ Copy(m)[b] = served[busy[m].path][b]

(* Until a file is open its copy is the server's file, so far; until it is *)
(* released the server's file is the copy, so far.                         *)
InStep(m) ==
    /\ busy[m].pc \in {"fetch", "open"} =>
          /\ handle[m][busy[m].h].st = "none"
          /\ InUse(m, busy[m].path) => Copy(m) = served[busy[m].path]
    /\ busy[m].pc = "open" => Copy(m) = served[busy[m].path]
    /\ busy[m].pc = "store" =>
          /\ handle[m][busy[m].h].st = "closed"
          /\ handle[m][busy[m].h].path = busy[m].path
    /\ busy[m].pc \in {"fetch", "store"} => Moved(m)

RequestsInStep == \A m \in Mounts : InStep(m) /\ OnePerName(m)

DisciplineInv == SessionsInv /\ Exclusive /\ RequestsInStep

(* What the users see of a path is the copy of the one mount that has it   *)
(* open, or else the server's file.                                        *)
ViewOfPaths ==
    \A p \in Paths :
        /\ \A m \in Mounts : InUse(m, p) => FileView[p] = cache[m][Key[p]]
        /\ (\A m \in Mounts : ~InUse(m, p)) => FileView[p] = served[p]

LEMMA ViewOfOne == Exclusive => ViewOfPaths
<1> SUFFICES ASSUME Exclusive, NEW p \in Paths
             PROVE  /\ \A m \in Mounts : InUse(m, p) => FileView[p] = cache[m][Key[p]]
                    /\ (\A m \in Mounts : ~InUse(m, p)) => FileView[p] = served[p]
  BY DEF ViewOfPaths
<1>1. ASSUME NEW m \in Mounts, InUse(m, p)
      PROVE  FileView[p] = cache[m][Key[p]]
  <2> DEFINE n == CHOOSE n \in Mounts : InUse(n, p)
  <2>1. n \in Mounts /\ InUse(n, p)
    BY <1>1
  <2> HIDE DEF n
  <2>2. n = m
    BY <1>1, <2>1 DEF Exclusive, Touches
  <2>3. FileView[p] = cache[n][Key[p]]
    BY <1>1 DEF FileView, n
  <2> QED BY <2>2, <2>3
<1>2. ASSUME \A m \in Mounts : ~InUse(m, p)
      PROVE  FileView[p] = served[p]
  BY <1>2 DEF FileView
<1> QED BY <1>1, <1>2

(* A step of one mount that takes a file from the server to its copy, or   *)
(* back, when the two are the same, is not seen.                           *)
LEMMA SameView ==
    ASSUME Exclusive, Exclusive', NEW m \in Mounts,
           \A n \in Mounts \ {m}, p \in Paths :
              (InUse(n, p)' <=> InUse(n, p)) /\ cache'[n] = cache[n],
           \A p \in Paths : InUse(m, p) =>
              IF InUse(m, p)' THEN cache'[m][Key[p]] = cache[m][Key[p]]
              ELSE served'[p] = cache[m][Key[p]],
           \A p \in Paths : ~InUse(m, p) /\ InUse(m, p)' => cache'[m][Key[p]] = served[p],
           \A p \in Paths : ~InUse(m, p) => served'[p] = served[p]
    PROVE  FileView' = FileView
<1>1. ViewOfPaths
  BY ViewOfOne
<1>2. ViewOfPaths'
  <2>1. (Exclusive => ViewOfPaths)'
    BY ViewOfOne, PTL
  <2> QED BY <2>1
<1>3. ASSUME NEW p \in Paths
      PROVE  FileView'[p] = FileView[p]
  <2>1. CASE InUse(m, p)
    <3>1. \A n \in Mounts \ {m} : ~InUse(n, p) /\ ~InUse(n, p)'
      BY <2>1 DEF Exclusive, Touches
    <3> QED BY <1>1, <1>2, <2>1, <3>1 DEF ViewOfPaths
  <2>2. CASE ~InUse(m, p) /\ InUse(m, p)'
    <3>1. \A n \in Mounts \ {m} : ~InUse(n, p)'
      BY <2>2 DEF Exclusive, Touches
    <3> QED BY <1>1, <1>2, <2>2, <3>1 DEF ViewOfPaths
  <2>3. CASE ~InUse(m, p) /\ ~InUse(m, p)'
    <3>1. CASE \E n \in Mounts \ {m} : InUse(n, p)
      BY <1>1, <1>2, <3>1 DEF ViewOfPaths
    <3>2. CASE ~\E n \in Mounts \ {m} : InUse(n, p)
      BY <1>1, <1>2, <2>3, <3>2 DEF ViewOfPaths
    <3> QED BY <3>1, <3>2
  <2> QED BY <2>1, <2>2, <2>3
<1>4. FileView = [p \in Paths |-> FileView[p]] /\ FileView' = [p \in Paths |-> FileView'[p]]
  BY DEF FileView
<1> QED BY <1>3, <1>4

(* A mount leaves the others alone when it writes no file of the server    *)
(* but those it touches, and comes to touch only what no other does, and   *)
(* no second path of one name.                                             *)
LEMMA OthersInStep ==
    ASSUME DisciplineInv, NEW m \in Mounts,
           \A n \in Mounts \ {m} :
              handle'[n] = handle[n] /\ cache'[n] = cache[n] /\ busy'[n] = busy[n],
           \A p \in Paths : ~Touches(m, p) => served'[p] = served[p],
           \/ \A p \in Paths : Touches(m, p)' => Touches(m, p)
           \/ /\ OnePerName(m)'
              /\ \A p \in Paths : Touches(m, p)' =>
                    Touches(m, p) \/ \A n \in Mounts \ {m} : ~Touches(n, p),
           InStep(m)'
    PROVE  /\ Exclusive' /\ RequestsInStep'
           /\ \A n \in Mounts \ {m}, p \in Paths :
                 (InUse(n, p)' <=> InUse(n, p)) /\ cache'[n] = cache[n]
<1>1. \A n \in Mounts \ {m}, p \in Paths :
         (InUse(n, p)' <=> InUse(n, p)) /\ (Touches(n, p)' <=> Touches(n, p))
  BY DEF InUse, Touches
<1>2. Exclusive'
  BY <1>1 DEF DisciplineInv, Exclusive
<1>3. ASSUME NEW n \in Mounts \ {m}
      PROVE  InStep(n)'
  <2>1. InStep(n)
    BY DEF DisciplineInv, RequestsInStep
  <2>2. CASE busy[n].pc \in {"idle", "hung"}
    BY <2>2 DEF InStep
  <2>3. CASE busy[n].pc \notin {"idle", "hung"}
    <3>1. busy[n].path \in Paths
      BY <2>3 DEF DisciplineInv, SessionsInv, RequestsSound
    <3>2. served'[busy[n].path] = served[busy[n].path]
      BY <3>1 DEF DisciplineInv, Exclusive, Touches
    <3> QED BY <1>1, <2>1, <3>1, <3>2 DEF InStep, Copy, Moved
  <2> QED BY <2>2, <2>3
<1>4. \A n \in Mounts : OnePerName(n)'
  BY <1>1 DEF DisciplineInv, RequestsInStep, OnePerName
<1>5. RequestsInStep'
  BY <1>3, <1>4 DEF RequestsInStep
<1> QED BY <1>1, <1>2, <1>5

(* The steps that only move the mount's thread *)
LEMMA CallsInStep ==
    ASSUME DisciplineInv, NEW m \in Mounts,
           \/ \E h \in Handles, p \in Paths, mode \in {"R", "RW"} :
                 Disciplined(m, p) /\ OpenCall(m, h, p, mode)
           \/ \E h \in Handles : ReleaseCall(m, h)
    PROVE  Exclusive' /\ RequestsInStep' /\ FileView' = FileView /\ last' = last
<1> USE DEF DisciplineInv
<1>1. UNCHANGED <<served, cache, handle, last>>
  BY DEF OpenCall, ReleaseCall, Exits, Hangs
<1>2. \A n \in Mounts \ {m} : busy'[n] = busy[n]
  BY DEF OpenCall, ReleaseCall, Exits, Hangs, SessionsInv, TypeOK
<1>3. \A n \in Mounts, p \in Paths : InUse(n, p)' <=> InUse(n, p)
  BY <1>1 DEF InUse
<1>4. CASE Exits(m) \/ Hangs(m)
  <2>1. busy'[m] \in {Idle, Hung}
    BY <1>4 DEF Exits, Hangs, SessionsInv, TypeOK
  <2>2. InStep(m)'
    BY <2>1 DEF InStep, Idle, Hung
  <2>3. \A p \in Paths : Touches(m, p)' => Touches(m, p)
    BY <1>3, <2>1, SessionsAssumption DEF Touches, Idle, Hung
  <2>4. Exclusive' /\ RequestsInStep'
    BY <1>1, <1>2, <2>2, <2>3, OthersInStep
  <2> QED BY <1>1, <1>3, <2>4, SameView
<1>5. ASSUME NEW h \in Handles, NEW p \in Paths, NEW mode \in {"R", "RW"},
             Disciplined(m, p), OpenCall(m, h, p, mode), ~Exits(m), ~Hangs(m)
      PROVE  Exclusive' /\ RequestsInStep' /\ FileView' = FileView
  <2>1. /\ busy'[m] = [pc |-> "fetch", h |-> h, path |-> p, mode |-> mode, next |-> 1]
        /\ handle[m][h].st = "none"
    BY <1>5 DEF OpenCall, SessionsInv, TypeOK
  <2>2. InUse(m, p) => cache[m][Key[p]] = served[p]
    BY <1>5 DEF Disciplined
  <2>3. \A b \in Blocks : ~(b < 1)
    BY SessionsAssumption DEF Blocks
  <2>4. InStep(m)'
    BY <1>1, <1>3, <2>1, <2>2, <2>3 DEF InStep, Copy, Moved
  <2>5. \A q \in Paths : Touches(m, q)' =>
           Touches(m, q) \/ \A n \in Mounts \ {m} : ~Touches(n, q)
    BY <1>3, <1>5, <2>1 DEF Touches, Disciplined
  <2>6. OnePerName(m)'
    <3>1. \A q \in Paths : InUse(m, q) /\ q # p => Key[q] # Key[p]
      BY <1>5 DEF Disciplined
    <3>2. \A q \in Paths : Touches(m, q)' => InUse(m, q) \/ q = p
      BY <1>3, <2>1 DEF Touches
    <3> QED BY <3>1, <3>2 DEF OnePerName, RequestsInStep, Touches
  <2>7. Exclusive' /\ RequestsInStep'
    BY <1>1, <1>2, <2>4, <2>5, <2>6, OthersInStep
  <2> QED BY <1>1, <1>3, <2>7, SameView
<1>6. ASSUME NEW h \in Handles, ReleaseCall(m, h), ~Exits(m), ~Hangs(m)
      PROVE  Exclusive' /\ RequestsInStep' /\ FileView' = FileView
  <2>1. /\ busy'[m] = [pc |-> "store", h |-> h, path |-> handle[m][h].path,
                       mode |-> handle[m][h].mode, next |-> 1]
        /\ handle[m][h].st = "closed"
    BY <1>6 DEF ReleaseCall, SessionsInv, TypeOK
  <2>2. \A b \in Blocks : ~(b < 1)
    BY SessionsAssumption DEF Blocks
  <2>3. InStep(m)'
    BY <1>1, <2>1, <2>2 DEF InStep, Copy, Moved
  <2>4. \A q \in Paths : Touches(m, q)' => Touches(m, q)
    BY <1>3, <2>1 DEF Touches, InUse
  <2>5. Exclusive' /\ RequestsInStep'
    BY <1>1, <1>2, <2>3, <2>4, OthersInStep
  <2> QED BY <1>1, <1>3, <2>5, SameView
<1> QED BY <1>1, <1>4, <1>5, <1>6

(* scp to the mount: the copy becomes the server's file *)
LEMMA FetchInStep ==
    ASSUME DisciplineInv, NEW m \in Mounts, FetchBlock(m)
    PROVE  Exclusive' /\ RequestsInStep' /\ FileView' = FileView /\ last' = last
<1> USE DEF DisciplineInv
<1>0. PICK p \in Paths, b \in Blocks : p = busy[m].path /\ b = busy[m].next
  BY FetchSound
<1>1. /\ Fetched(m) \in Content /\ Fetched(m) # NoFile
      /\ cache' = [cache EXCEPT ![m][Key[p]] = Fetched(m)]
      /\ UNCHANGED <<served, handle, fds, alive, last>>
      /\ busy' = [busy EXCEPT ![m] = Advanced(m)]
  BY <1>0, FetchSound
<1>2. /\ cache'[m][Key[p]] = Fetched(m)
      /\ \A q \in Paths : Key[q] # Key[p] => cache'[m][Key[q]] = cache[m][Key[q]]
      /\ \A n \in Mounts \ {m} : cache'[n] = cache[n] /\ busy'[n] = busy[n]
      /\ busy'[m] = Advanced(m)
  BY <1>1, Values DEF SessionsInv, TypeOK
<1>3. /\ busy[m].pc = "fetch" /\ InStep(m) /\ served[p] \in Content
      /\ cache[m][Key[p]] \in Content \cup {NoFile}
  BY <1>0, Values DEF FetchBlock, RequestsInStep, SessionsInv, TypeOK
<1>4. InUse(m, p) => Fetched(m) = served[p] /\ cache[m][Key[p]] = served[p]
  <2> SUFFICES ASSUME InUse(m, p) PROVE Fetched(m) = served[p] /\ cache[m][Key[p]] = served[p]
    OBVIOUS
  <2>1. cache[m][Key[p]] = served[p]
    BY <1>0, <1>3 DEF InStep, Copy
  <2>2. served[p] # NoFile
    BY <1>3, SessionsAssumption
  <2> QED BY <1>0, <1>1, <1>3, <2>1, <2>2 DEF Fetched, Content
<1>5. \A c \in Blocks : c <= b => Fetched(m)[c] = served[p][c]
  <2> SUFFICES ASSUME NEW c \in Blocks, c <= b PROVE Fetched(m)[c] = served[p][c]
    OBVIOUS
  <2>1. CASE c = b
    BY <1>0, <1>1, <1>3, <2>1 DEF Fetched, Content
  <2>2. CASE c # b
    <3>1. c < b
      BY <1>1, <2>2 DEF Blocks
    <3>2. cache[m][Key[p]] # NoFile /\ cache[m][Key[p]][c] = served[p][c]
      BY <1>0, <1>3, <3>1 DEF InStep, Moved, Copy
    <3> QED BY <1>0, <1>1, <1>3, <2>2, <3>2 DEF Fetched, Content
  <2> QED BY <2>1, <2>2
<1>6. b = NBlocks => Fetched(m) = served[p]
  <2>1. b = NBlocks => \A c \in Blocks : c <= b
    BY SessionsAssumption DEF Blocks
  <2> QED BY <1>1, <1>3, <1>5, <2>1 DEF Content
<1>7. /\ busy'[m].h = busy[m].h /\ busy'[m].path = p
      /\ b = NBlocks => busy'[m].pc = "open"
      /\ b # NBlocks => busy'[m].pc = "fetch" /\ busy'[m].next = b + 1
  BY <1>0, <1>2, <1>3 DEF Advanced, SessionsInv, TypeOK
<1>8. \A n \in Mounts, q \in Paths :
         (InUse(n, q)' <=> InUse(n, q)) /\ (Touches(n, q)' <=> Touches(n, q))
  BY <1>0, <1>1, <1>2, <1>7 DEF InUse, Touches
<1>9. InStep(m)'
  <2>1. \A c \in Blocks : c < b + 1 => c <= b
    BY <1>1 DEF Blocks
  <2>2. /\ handle'[m][busy'[m].h].st = "none"
        /\ InUse(m, p)' => cache'[m][Key[p]] = served'[p]
    <3>1. handle[m][busy[m].h].st = "none"
      BY <1>3 DEF InStep
    <3>2. handle'[m][busy'[m].h].st = "none"
      BY <1>1, <1>7, <3>1
    <3>3. InUse(m, p)' => cache'[m][Key[p]] = served'[p]
      BY <1>1, <1>2, <1>4, <1>8
    <3> QED BY <3>2, <3>3
  <2>3. CASE b = NBlocks
    BY <1>1, <1>2, <1>6, <1>7, <2>2, <2>3 DEF InStep, Copy
  <2>4. CASE b # NBlocks
    <3>1. Moved(m)'
      BY <1>1, <1>2, <1>5, <1>7, <2>1, <2>4 DEF Moved, Copy
    <3>2. busy'[m].pc = "fetch" /\ busy'[m].path = p
      BY <1>7, <2>4
    <3> QED BY <2>2, <3>1, <3>2 DEF InStep, Copy
  <2> QED BY <2>3, <2>4
<1>10. Exclusive' /\ RequestsInStep'
  BY <1>1, <1>2, <1>8, <1>9, OthersInStep
<1>11. \A q \in Paths : InUse(m, q) => cache'[m][Key[q]] = cache[m][Key[q]]
  <2> SUFFICES ASSUME NEW q \in Paths, InUse(m, q) PROVE cache'[m][Key[q]] = cache[m][Key[q]]
    OBVIOUS
  <2>1. CASE q = p
    BY <1>2, <1>4, <2>1
  <2>2. CASE q # p
    <3>1. Touches(m, p) /\ Touches(m, q)
      BY <1>0 DEF Touches
    <3>2. Key[q] # Key[p]
      BY <2>2, <3>1 DEF RequestsInStep, OnePerName
    <3> QED BY <1>2, <3>2
  <2> QED BY <2>1, <2>2
<1> QED BY <1>1, <1>2, <1>8, <1>10, <1>11, SameView

(* The copy is opened, or not: then the request is over. *)
LEMMA OpenInStep ==
    ASSUME DisciplineInv, NEW m \in Mounts, OpenCopy(m)
    PROVE  Exclusive' /\ RequestsInStep' /\ FileView' = FileView /\ last' = last
<1> USE DEF DisciplineInv
<1>1. /\ busy[m].pc = "open" /\ busy' = [busy EXCEPT ![m] = Idle]
      /\ UNCHANGED <<served, cache, last>>
  BY DEF OpenCopy
<1>2. busy'[m] = Idle /\ \A n \in Mounts \ {m} : busy'[n] = busy[n]
  BY <1>1 DEF SessionsInv, TypeOK
<1>3. PICK p \in Paths, h \in Handles : p = busy[m].path /\ h = busy[m].h
  BY <1>1 DEF SessionsInv, RequestsSound
<1>4. handle[m][h].st = "none" /\ cache[m][Key[p]] = served[p]
  BY <1>1, <1>3 DEF RequestsInStep, InStep, Copy
<1>5. \/ UNCHANGED handle
      \/ handle' = [handle EXCEPT ![m][h] = [st |-> "open", path |-> p, mode |-> busy[m].mode]]
  BY <1>3 DEF OpenCopy
<1>6. \A n \in Mounts \ {m} : handle'[n] = handle[n]
  BY <1>5 DEF SessionsInv, TypeOK
<1>7. \A g \in Handles : g # h => handle'[m][g] = handle[m][g]
  BY <1>5 DEF SessionsInv, TypeOK
<1>8. handle'[m][h] = handle[m][h] \/ handle'[m][h].path = p
  BY <1>5 DEF SessionsInv, TypeOK
<1>9. \A q \in Paths : (q # p => (InUse(m, q)' <=> InUse(m, q))) /\ (InUse(m, p) => InUse(m, p)')
  BY <1>4, <1>7, <1>8 DEF InUse
<1>10. \A q \in Paths : Touches(m, q)' => Touches(m, q)
  BY <1>2, <1>3, <1>9, SessionsAssumption DEF Touches, Idle
<1>11. InStep(m)'
  BY <1>2 DEF InStep, Idle
<1>12. /\ Exclusive' /\ RequestsInStep'
       /\ \A n \in Mounts \ {m}, q \in Paths :
             (InUse(n, q)' <=> InUse(n, q)) /\ cache'[n] = cache[n]
  BY <1>1, <1>2, <1>6, <1>10, <1>11, OthersInStep
<1>13. \A q \in Paths : InUse(m, q) => InUse(m, q)'
  BY <1>9
<1>14. \A q \in Paths : ~InUse(m, q) /\ InUse(m, q)' => cache'[m][Key[q]] = served[q]
  BY <1>1, <1>4, <1>9
<1> QED BY <1>1, <1>12, <1>13, <1>14, SameView

(* A file closed stays in use until it is released. *)
LEMMA CloseInStep ==
    ASSUME DisciplineInv, NEW m \in Mounts, NEW h \in Handles, Close(m, h)
    PROVE  Exclusive' /\ RequestsInStep' /\ FileView' = FileView /\ last' = last
<1> USE DEF DisciplineInv
<1>1. /\ UNCHANGED <<served, cache, busy, last>> /\ handle[m][h].st = "open"
      /\ handle' = [handle EXCEPT ![m][h].st = "closed"]
  BY DEF Close
<1>2. \A n \in Mounts \ {m} : handle'[n] = handle[n]
  BY <1>1 DEF SessionsInv, TypeOK
<1>3. \A g \in Handles :
         /\ handle'[m][g].path = handle[m][g].path
         /\ handle'[m][g].st = "none" <=> handle[m][g].st = "none"
         /\ handle[m][g].st = "closed" => handle'[m][g].st = "closed"
  BY <1>1 DEF SessionsInv, TypeOK
<1>4. \A n \in Mounts, q \in Paths :
         (InUse(n, q)' <=> InUse(n, q)) /\ (Touches(n, q)' <=> Touches(n, q))
  BY <1>1, <1>2, <1>3 DEF InUse, Touches
<1>5. InStep(m)'
  <2>1. InStep(m)
    BY DEF RequestsInStep
  <2>2. CASE busy[m].pc \in {"idle", "hung"}
    BY <1>1, <2>2 DEF InStep
  <2>3. CASE busy[m].pc \notin {"idle", "hung"}
    <3>1. PICK g \in Handles, p \in Paths : g = busy[m].h /\ p = busy[m].path
      BY <2>3 DEF SessionsInv, RequestsSound
    <3>2. /\ busy'[m].h = g /\ busy'[m].path = p
          /\ (InUse(m, p)' <=> InUse(m, p))
      BY <1>1, <1>4, <3>1
    <3>3. Copy(m)' = Copy(m) /\ (Moved(m) => Moved(m)')
      BY <1>1 DEF Copy, Moved
    <3> QED BY <1>1, <1>3, <2>1, <3>1, <3>2, <3>3 DEF InStep
  <2> QED BY <2>2, <2>3
<1>6. Exclusive' /\ RequestsInStep'
  BY <1>1, <1>2, <1>4, <1>5, OthersInStep
<1> QED BY <1>1, <1>4, <1>6, SameView

(* scp to the server: its file becomes the copy, and the last block        *)
(* releases the handle.                                                    *)
LEMMA StoreInStep ==
    ASSUME DisciplineInv, NEW m \in Mounts, StoreBlock(m)
    PROVE  Exclusive' /\ RequestsInStep' /\ FileView' = FileView /\ last' = last
<1> USE DEF DisciplineInv
<1>1. busy[m].pc = "store" /\ UNCHANGED <<cache, last>> /\ InStep(m)
  BY DEF StoreBlock, RequestsInStep
<1>2. PICK p \in Paths, b \in Blocks, h \in Handles :
         p = busy[m].path /\ b = busy[m].next /\ h = busy[m].h
  BY <1>1 DEF SessionsInv, RequestsSound, TypeOK
<1>3. /\ handle[m][h].st = "closed" /\ handle[m][h].path = p
      /\ cache[m][Key[p]] \in Content /\ served[p] \in Content
      /\ \A c \in Blocks : c < b => cache[m][Key[p]][c] = served[p][c]
  <2>1. cache[m][Key[p]] # NoFile
    BY <1>1, <1>2 DEF SessionsInv, RequestsSound, Copied
  <2> QED BY <1>1, <1>2, <2>1, Values DEF InStep, Moved, Copy, SessionsInv, TypeOK
<1>4. /\ served'[p] = [served[p] EXCEPT ![b] = cache[m][Key[p]][b]]
      /\ \A q \in Paths \ {p} : served'[q] = served[q]
  BY <1>2 DEF StoreBlock, SessionsInv, TypeOK
<1>5. \A c \in Blocks : c <= b => served'[p][c] = cache[m][Key[p]][c]
  <2> SUFFICES ASSUME NEW c \in Blocks, c <= b PROVE served'[p][c] = cache[m][Key[p]][c]
    OBVIOUS
  <2>1. CASE c = b
    BY <1>3, <1>4, <2>1 DEF Content
  <2>2. CASE c # b
    <3>1. c < b
      BY <2>2 DEF Blocks
    <3> QED BY <1>3, <1>4, <2>2, <3>1 DEF Content
  <2> QED BY <2>1, <2>2
<1>6. Touches(m, p)
  BY <1>2 DEF Touches
<1>7. CASE b = NBlocks
  <2>1. busy' = [busy EXCEPT ![m] = Idle] /\ handle' = [handle EXCEPT ![m][h] = Closed]
    BY <1>2, <1>7 DEF StoreBlock, Released
  <2>2. /\ busy'[m] = Idle /\ handle'[m][h] = Closed
        /\ \A g \in Handles \ {h} : handle'[m][g] = handle[m][g]
        /\ \A n \in Mounts \ {m} : busy'[n] = busy[n] /\ handle'[n] = handle[n]
    BY <2>1 DEF SessionsInv, TypeOK
  <2>3. served'[p] = cache[m][Key[p]]
    <3>1. \A c \in Blocks : c <= b
      BY <1>7, SessionsAssumption DEF Blocks
    <3> QED BY <1>3, <1>4, <1>5, <3>1 DEF Content
  <2>4. /\ \A q \in Paths : InUse(m, q)' => InUse(m, q)
        /\ \A q \in Paths \ {p} : InUse(m, q) => InUse(m, q)'
        /\ InUse(m, p)
    BY <1>3, <2>2 DEF InUse, Closed
  <2>5. \A q \in Paths : Touches(m, q)' => Touches(m, q)
    BY <2>2, <2>4, SessionsAssumption DEF Touches, Idle
  <2>6. InStep(m)'
    BY <2>2 DEF InStep, Idle
  <2>7. /\ Exclusive' /\ RequestsInStep'
        /\ \A n \in Mounts \ {m}, q \in Paths :
              (InUse(n, q)' <=> InUse(n, q)) /\ cache'[n] = cache[n]
    BY <1>1, <1>4, <1>6, <2>2, <2>5, <2>6, OthersInStep
  <2>8. FileView' = FileView
    BY <1>1, <1>4, <2>3, <2>4, <2>7, SameView
  <2> QED BY <1>1, <2>7, <2>8
<1>8. CASE b # NBlocks
  <2>1. busy' = [busy EXCEPT ![m].next = b + 1] /\ UNCHANGED handle
    BY <1>2, <1>8 DEF StoreBlock
  <2>2. /\ busy'[m].pc = "store" /\ busy'[m].h = h /\ busy'[m].path = p
        /\ busy'[m].next = b + 1
        /\ \A n \in Mounts \ {m} : busy'[n] = busy[n]
    BY <1>1, <1>2, <2>1 DEF SessionsInv, TypeOK
  <2>3. \A n \in Mounts, q \in Paths :
           (InUse(n, q)' <=> InUse(n, q)) /\ (Touches(n, q)' <=> Touches(n, q))
    BY <1>2, <2>1, <2>2 DEF InUse, Touches
  <2>4. \A c \in Blocks : c < b + 1 => c <= b
    BY DEF Blocks
  <2>5. Moved(m)'
    <3>1. cache[m][Key[p]] # NoFile
      BY <1>3, SessionsAssumption
    <3> QED BY <1>1, <1>5, <2>2, <2>4, <3>1 DEF Moved, Copy
  <2>6. InStep(m)'
    BY <1>3, <2>1, <2>2, <2>5 DEF InStep
  <2>7. /\ Exclusive' /\ RequestsInStep'
        /\ \A n \in Mounts \ {m}, q \in Paths :
              (InUse(n, q)' <=> InUse(n, q)) /\ cache'[n] = cache[n]
    BY <1>1, <1>4, <1>6, <2>1, <2>2, <2>3, <2>6, OthersInStep
  <2>8. InUse(m, p)
    BY <1>3 DEF InUse
  <2>9. FileView' = FileView
    BY <1>1, <1>4, <2>3, <2>7, <2>8, SameView
  <2> QED BY <1>1, <2>7, <2>9
<1> QED BY <1>7, <1>8

LEMMA ReadInStep ==
    ASSUME DisciplineInv, NEW m \in Mounts, NEW h \in Handles, NEW b \in Blocks, Read(m, h, b)
    PROVE  Exclusive' /\ RequestsInStep' /\ \E p \in Paths : Plain!Read(p, b)
<1> USE DEF DisciplineInv
<1>1. PICK p \in Paths : p = handle[m][h].path
  BY DEF Read, SessionsInv, HandlesCopied, Copied
<1>2. /\ UNCHANGED <<served, cache, handle, busy, fds, alive>>
      /\ last' = [by |-> "read", path |-> p, block |-> b, val |-> cache[m][Key[p]][b]]
      /\ InUse(m, p)
  BY <1>1 DEF Read, InUse
<1>3. FileView' = FileView
  BY <1>2 DEF FileView, InUse
<1>4. FileView[p] = cache[m][Key[p]]
  BY <1>2, ViewOfOne DEF ViewOfPaths
<1>5. Plain!Read(p, b)
  BY <1>2, <1>3, <1>4 DEF Plain!Read
<1>6. Exclusive' /\ RequestsInStep'
  BY <1>2 DEF Exclusive, Touches, InUse, RequestsInStep, OnePerName, InStep, Copy, Moved
<1> QED BY <1>5, <1>6

LEMMA WriteInStep ==
    ASSUME DisciplineInv,
           NEW m \in Mounts, NEW h \in Handles, NEW b \in Blocks, Write(m, h, b)
    PROVE  /\ Exclusive' /\ RequestsInStep'
           /\ \E p \in Paths : \E v \in Version(p, b) : Plain!Write(p, b, v)
<1> USE DEF DisciplineInv
<1>1. PICK p \in Paths : p = handle[m][h].path
  BY DEF Write, SessionsInv, HandlesCopied, Copied
<1>2. /\ UNCHANGED <<served, handle, busy, fds, alive>> /\ busy[m].pc = "idle"
      /\ InUse(m, p)
  BY <1>1 DEF Write, InUse, Ready
<1>3. PICK v \in Version(p, b) \ {Original(p, b)} :
         /\ cache' = [cache EXCEPT ![m][Key[p]][b] = v]
         /\ last' = [by |-> "write", path |-> p, block |-> b, val |-> v]
  BY <1>1 DEF Write
<1>4. cache[m][Key[p]] \in Content
  <2>1. cache[m][Key[p]] # NoFile
    BY <1>1 DEF Write, SessionsInv, HandlesCopied, Copied
  <2> QED BY <2>1, Values DEF SessionsInv, TypeOK
<1>5. /\ cache'[m][Key[p]] = [cache[m][Key[p]] EXCEPT ![b] = v]
      /\ \A q \in Paths \ {p} : InUse(m, q) => cache'[m][Key[q]] = cache[m][Key[q]]
      /\ \A n \in Mounts \ {m} : cache'[n] = cache[n]
  <2>1. \A q \in Paths \ {p} : InUse(m, q) => Key[q] # Key[p]
    BY <1>2 DEF RequestsInStep, OnePerName, Touches
  <2> QED BY <1>3, <2>1, Values DEF SessionsInv, TypeOK
<1>6. \A n \in Mounts, q \in Paths :
         (InUse(n, q)' <=> InUse(n, q)) /\ (Touches(n, q)' <=> Touches(n, q))
  BY <1>2 DEF InUse, Touches
<1>7. Exclusive' /\ RequestsInStep'
  <2>1. InStep(m)'
    BY <1>2 DEF InStep
  <2> QED BY <1>2, <1>5, <1>6, <2>1, OthersInStep
<1>8. ViewOfPaths /\ ViewOfPaths'
  <2>1. (Exclusive => ViewOfPaths)'
    BY ViewOfOne, PTL
  <2> QED BY <1>7, <2>1, ViewOfOne
<1>9. FileView[p] = cache[m][Key[p]] /\ FileView'[p] = [FileView[p] EXCEPT ![b] = v]
  BY <1>2, <1>5, <1>6, <1>8 DEF ViewOfPaths
<1>10. ASSUME NEW q \in Paths \ {p}
       PROVE  FileView'[q] = FileView[q]
  <2>1. CASE \E n \in Mounts : InUse(n, q)
    BY <1>5, <1>6, <1>8, <2>1 DEF ViewOfPaths
  <2>2. CASE ~\E n \in Mounts : InUse(n, q)
    BY <1>2, <1>6, <1>8, <2>2 DEF ViewOfPaths
  <2> QED BY <2>1, <2>2
<1>11. FileView' = [FileView EXCEPT ![p][b] = v]
  <2>1. FileView = [q \in Paths |-> FileView[q]] /\ FileView' = [q \in Paths |-> FileView'[q]]
    BY DEF FileView
  <2> QED BY <1>9, <1>10, <2>1
<1>12. Plain!Write(p, b, v)
  BY <1>3, <1>11 DEF Plain!Write
<1> QED BY <1>7, <1>12

LEMMA PlainInit == Init => Exclusive /\ RequestsInStep /\ Plain!Init
<1> SUFFICES ASSUME Init PROVE Exclusive /\ RequestsInStep /\ Plain!Init
  OBVIOUS
<1>1. \A m \in Mounts, p \in Paths : ~Touches(m, p) /\ ~InUse(m, p)
  BY SessionsAssumption DEF Init, Touches, InUse, Closed, Idle
<1>2. Exclusive
  BY <1>1 DEF Exclusive
<1>3. RequestsInStep
  BY <1>1 DEF Init, RequestsInStep, OnePerName, InStep, Idle
<1>4. \A p \in Paths, b \in Blocks : Original(p, b) \in Version(p, b)
  BY SessionsAssumption DEF Original, Version
<1>5. FileView = served
  BY <1>1 DEF FileView, Init
<1>6. Plain!Init
  BY <1>4, <1>5 DEF Init, Plain!Init
<1> QED BY <1>2, <1>3, <1>6

LEMMA DisciplineNext ==
    ASSUME ~ScpMayFail, DisciplineInv, [DisciplinedNext]_vars
    PROVE  DisciplineInv' /\ [Plain!Next]_(Plain!vars)
<1>1. SessionsInv'
  <2>1. DisciplinedNext => Next
    BY DEF DisciplinedNext, Next
  <2> QED BY <2>1, SessionsNext DEF DisciplineInv
<1>2. CASE UNCHANGED vars
  <2>1. Exclusive' /\ RequestsInStep'
    BY <1>2 DEF vars, DisciplineInv, Exclusive, Touches, InUse, RequestsInStep,
                     OnePerName, InStep, Copy, Moved
  <2>2. FileView' = FileView
    BY <1>2 DEF vars, FileView, InUse
  <2> QED BY <1>1, <1>2, <2>1, <2>2 DEF DisciplineInv, Plain!vars, vars
<1>3. ASSUME NEW m \in Mounts,
             \/ \E h \in Handles, p \in Paths, mode \in {"R", "RW"} :
                   Disciplined(m, p) /\ OpenCall(m, h, p, mode)
             \/ Working(m)
             \/ \E h \in Handles : Close(m, h) \/ ReleaseCall(m, h)
      PROVE  Exclusive' /\ RequestsInStep' /\ FileView' = FileView /\ last' = last
  <2>1. ~FetchFails(m) /\ ~StoreFails(m)
    BY DEF FetchFails, StoreFails
  <2> QED BY <1>3, <2>1, CallsInStep, FetchInStep, OpenInStep, CloseInStep, StoreInStep DEF Working
<1>4. ASSUME NEW m \in Mounts, NEW h \in Handles, NEW b \in Blocks,
             Read(m, h, b) \/ Write(m, h, b)
      PROVE  Exclusive' /\ RequestsInStep' /\ Plain!Next
  BY <1>4, ReadInStep, WriteInStep DEF Plain!Next
<1> QED BY <1>1, <1>2, <1>3, <1>4 DEF DisciplinedNext, Request, DisciplineInv, Plain!vars

(* Users who keep the discipline cannot tell the copies from plain files,  *)
(* whichever paths share a name in /tmp, when scp does not fail.           *)
THEOREM DisciplineHidesCopies ==
    ASSUME ~ScpMayFail
    PROVE  DisciplinedSpec => ImplementsPlainFiles
<1>1. Init => DisciplineInv /\ Plain!Init
  BY SessionsInit, PlainInit DEF DisciplineInv
<1>2. DisciplineInv /\ [DisciplinedNext]_vars => DisciplineInv' /\ [Plain!Next]_(Plain!vars)
  BY DisciplineNext, ~ScpMayFail
<1> QED BY <1>1, <1>2, PTL DEF DisciplinedSpec, ImplementsPlainFiles, Plain!Spec
----------------------------------------------------------------------------
(* A mount with a file open has a descriptor left for its calls, and one   *)
(* that is opening a file has two.                                         *)
DescriptorsLeft ==
    \A m \in Mounts :
        /\ alive[m]
        /\ busy[m].pc \in {"fetch", "open"} => fds[m] < MaxFds - 1
        /\ \A h \in Handles : handle[m][h].st # "none" => fds[m] < MaxFds

LEMMA DescriptorsKept ==
    ASSUME SessionsInv, DescriptorsLeft, [DisciplinedNext]_vars
    PROVE  DescriptorsLeft'
<1> USE DEF SessionsInv, DescriptorsLeft
<1>1. CASE UNCHANGED vars
  BY <1>1 DEF vars
<1>2. ASSUME NEW m \in Mounts, NEW h \in Handles, NEW p \in Paths, NEW mode \in {"R", "RW"},
             Disciplined(m, p), OpenCall(m, h, p, mode)
      PROVE  DescriptorsLeft'
  <2>1. fds[m] < MaxFds - 1
    BY <1>2 DEF Disciplined
  <2>2. FdFree(m)
    BY <2>1, SessionsAssumption DEF FdFree, TypeOK
  <2>3. CASE Hangs(m)
    BY <2>3 DEF Hangs, Hung, Idle, TypeOK
  <2>4. CASE ~Hangs(m)
    BY <1>2, <2>1, <2>2, <2>4 DEF OpenCall, TypeOK
  <2> QED BY <2>3, <2>4
<1>3. ASSUME NEW m \in Mounts, NEW h \in Handles, ReleaseCall(m, h)
      PROVE  DescriptorsLeft'
  <2>1. FdFree(m)
    BY <1>3 DEF ReleaseCall, FdFree
  <2>2. CASE Hangs(m)
    BY <2>2 DEF Hangs, Hung, Idle, TypeOK
  <2>3. CASE ~Hangs(m)
    <3>1. /\ busy' = [busy EXCEPT ![m] =
                 [pc |-> "store", h |-> h, path |-> handle[m][h].path,
                  mode |-> handle[m][h].mode, next |-> 1]]
          /\ UNCHANGED <<handle, fds, alive>>
      BY <1>3, <2>1, <2>3 DEF ReleaseCall
    <3>2. \A n \in Mounts : busy'[n].pc \in {"fetch", "open"} => busy[n].pc \in {"fetch", "open"}
      BY <3>1 DEF TypeOK
    <3> QED BY <3>1, <3>2
  <2> QED BY <2>2, <2>3
<1>4. ASSUME NEW m \in Mounts, NEW h \in Handles, Close(m, h)
      PROVE  DescriptorsLeft'
  BY <1>4 DEF Close, TypeOK
<1>5. ASSUME NEW m \in Mounts, NEW h \in Handles, NEW b \in Blocks, Read(m, h, b) \/ Write(m, h, b)
      PROVE  DescriptorsLeft'
  BY <1>5 DEF Read, Write
<1>6. ASSUME NEW m \in Mounts, FetchBlock(m) \/ FetchFails(m)
      PROVE  DescriptorsLeft'
  BY <1>6 DEF FetchBlock, FetchFails, TypeOK
<1>7. ASSUME NEW m \in Mounts, OpenCopy(m)
      PROVE  DescriptorsLeft'
  <2>1. /\ fds[m] < MaxFds - 1 /\ fds[m] \in Nat
        /\ busy' = [busy EXCEPT ![m] = Idle] /\ UNCHANGED alive
    BY <1>7 DEF OpenCopy, TypeOK
  <2>2. \/ UNCHANGED <<fds, handle>>
        \/ /\ fds' = [fds EXCEPT ![m] = @ + 1]
           /\ \A n \in Mounts \ {m} : handle'[n] = handle[n]
    BY <1>7 DEF OpenCopy, TypeOK
  <2>3. CASE UNCHANGED <<fds, handle>>
    BY <2>1, <2>3 DEF TypeOK, Idle
  <2>4. CASE /\ fds' = [fds EXCEPT ![m] = @ + 1]
             /\ \A n \in Mounts \ {m} : handle'[n] = handle[n]
    <3>1. fds'[m] < MaxFds /\ \A n \in Mounts \ {m} : fds'[n] = fds[n]
      BY <2>1, <2>4, SessionsAssumption DEF TypeOK
    <3> QED BY <2>1, <2>4, <3>1 DEF TypeOK, Idle
  <2> QED BY <2>2, <2>3, <2>4
<1>8. ASSUME NEW m \in Mounts, StoreBlock(m) \/ StoreFails(m)
      PROVE  DescriptorsLeft'
  <2>1. /\ UNCHANGED <<fds, alive>> /\ busy[m].h \in Handles
        /\ busy' = [busy EXCEPT ![m] = Idle] \/ busy' = [busy EXCEPT ![m].next = busy[m].next + 1]
        /\ UNCHANGED handle \/ handle' = [handle EXCEPT ![m][busy[m].h] = Closed]
    BY <1>8 DEF StoreBlock, StoreFails, RequestsSound, Released
  <2>2. \A n \in Mounts :
           busy'[n].pc \in {"fetch", "open"} => busy[n].pc \in {"fetch", "open"}
    <3>1. CASE busy' = [busy EXCEPT ![m] = Idle]
      BY <3>1 DEF TypeOK, Idle
    <3>2. CASE busy' = [busy EXCEPT ![m].next = busy[m].next + 1]
      BY <3>2 DEF TypeOK
    <3> QED BY <2>1, <3>1, <3>2
  <2>3. \A n \in Mounts, h \in Handles :
           handle'[n][h].st # "none" => handle[n][h].st # "none"
    <3>1. CASE handle' = [handle EXCEPT ![m][busy[m].h] = Closed]
      BY <2>1, <3>1 DEF TypeOK, Closed
    <3> QED BY <2>1, <3>1
  <2> QED BY <2>1, <2>2, <2>3
<1> QED BY <1>1, <1>2, <1>3, <1>4, <1>5, <1>6, <1>7, <1>8
        DEF DisciplinedNext, Request, Working

(* Under the discipline no client exits for want of a descriptor, though   *)
(* every open leaves one behind.                                           *)
THEOREM DisciplineKeepsAlive == DisciplinedSpec => [](\A m \in Mounts : alive[m])
<1>1. Init => DescriptorsLeft
  BY DEF Init, DescriptorsLeft, Idle, Closed
<1>2. [DisciplinedNext]_vars => [Next]_vars
  BY DEF DisciplinedNext, Next
<1>3. SessionsInv /\ DescriptorsLeft /\ [DisciplinedNext]_vars => SessionsInv' /\ DescriptorsLeft'
  BY <1>2, SessionsNext, DescriptorsKept
<1>4. DescriptorsLeft => \A m \in Mounts : alive[m]
  BY DEF DescriptorsLeft
<1> QED BY <1>1, <1>3, <1>4, SessionsInit, PTL DEF DisciplinedSpec
=============================================================================
