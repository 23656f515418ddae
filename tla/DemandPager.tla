---------------------------- MODULE DemandPager ----------------------------
(***************************************************************************)
(* The demand pagers of AOS3: dpager.c maps the page of an ELF file that a *)
(* SIGSEGV reports, hpager.c maps Prefetch pages at once for addresses at  *)
(* or above Threshold.  A program (a process of its own here) issues       *)
(* loads, stores and instruction fetches; the hardware completes those the *)
(* page's protection allows and otherwise the signal handler runs and the  *)
(* access is tried again.  The kernel's own accesses, on behalf of a       *)
(* system call, raise no signal: they fail with EFAULT.                    *)
(*                                                                         *)
(* dpager.c is Prefetch = 1 (Threshold is then irrelevant).                *)
(***************************************************************************)
EXTENDS Pages, FiniteSetsExt

CONSTANTS
    Segments,       \* the PT_LOAD program headers, in file order
    Values,         \* what a byte of memory may hold
    Prefetch,
    Threshold,
    Accesses,       \* what the program may do: see Access
    NoAccess,
    Efault,
    PreadMayFail,   \* pread, whose result is not looked at, may fail
    MaxTotal        \* bound of the counter totalsize

VARIABLES
    mem,        \* [Addr -> Values]
    prot,       \* [Page -> SUBSET Right]; {} : not mapped
    pending,    \* the access under way, or NoAccess
    reg,        \* the value the last load, fetch or system call returned
    exited,     \* exit(-1) was called
    totalsize   \* bytes requested from the file so far

vars == <<mem, prot, pending, reg, exited, totalsize>>

Access == [by : {"cpu", "kernel"}, kind : Right, addr : Addr, val : Values]

ASSUME SizesAssumption ==
    /\ Prefetch \in Nat \ {0}
    /\ Threshold \in Nat
    /\ MaxTotal \in Nat
    /\ PreadMayFail \in BOOLEAN

ASSUME ValuesAssumption ==
    /\ 0 \in Values
    /\ Efault \notin Values
    /\ Accesses \subseteq Access
    /\ NoAccess \notin Access

(* The headers of a well-formed executable: the file holds every segment   *)
(* and the bytes that precede it in its first page.                        *)
ASSUME SegmentsAssumption ==
    /\ Segments \in Seq(Segment)
    /\ \A i \in DOMAIN Segments :
          /\ Segments[i].offset >= PageOffset(Segments[i].vaddr)
          /\ \A o \in 0 .. Segments[i].offset + Segments[i].filesz :
                o < Segments[i].offset + Segments[i].filesz
                   => o \in DOMAIN FileBytes /\ FileBytes[o] \in Values

----------------------------------------------------------------------------
(* The handler's search of the program headers *)

Serves(i, addr) ==
    /\ addr >= Segments[i].vaddr
    /\ addr < Segments[i].vaddr + Segments[i].memsz
    /\ FileReach(Segments[i]) > 0

Serving(addr) == {i \in DOMAIN Segments : Serves(i, addr)}

FirstServing(addr) ==
    CHOOSE i \in Serving(addr) : \A j \in Serving(addr) : i <= j

(* Slip: the pages above the faulting one are fetched whatever the address. *)
heuristicEverywhere(addr) == 2 * PageSize

heuristic(addr) == IF addr >= Threshold THEN PageSize * Prefetch ELSE PageSize

(* Slips: no test that the page lies in the file's part; the copy always as *)
(* long as the mapping; the copy one page long whatever was mapped.         *)
CopySizeUnchecked(seg, addrpage, csize) ==
    LET offset == addrpage - PageStart(seg.vaddr) IN
    IF offset + csize > seg.filesz THEN seg.filesz - offset ELSE csize
CopySizeWhole(seg, addrpage, csize) ==
    IF addrpage - PageStart(seg.vaddr) >= seg.filesz THEN 0 ELSE csize
CopySizeOnePage(seg, addrpage, csize) ==
    LET offset == addrpage - PageStart(seg.vaddr) IN
    IF offset >= seg.filesz THEN 0
    ELSE IF offset + PageSize > seg.filesz THEN seg.filesz - offset
    ELSE PageSize

(* How many bytes of seg the handler asks of the file for csize bytes at addrpage *)
CopySize(seg, addrpage, csize) ==
    LET offset == addrpage - PageStart(seg.vaddr) IN
    IF offset >= seg.filesz THEN 0
    ELSE IF offset + csize > seg.filesz THEN seg.filesz - offset
    ELSE csize

(* The byte that lands at address a of a page filled for seg *)
FileByteAt(seg, a) == FileBytes[FileOffset(seg, a)]

----------------------------------------------------------------------------
Init ==
    /\ mem = [a \in Addr |-> 0]
    /\ prot = [p \in Page |-> {}]
    /\ pending = NoAccess
    /\ reg = Efault
    /\ exited = FALSE
    /\ totalsize = 0

Permitted == pending.kind \in prot[PageStart(pending.addr)]

(* The program: one access at a time *)
Issue(acc) ==
    /\ ~exited
    /\ pending = NoAccess
    /\ pending' = acc
    /\ UNCHANGED <<mem, prot, reg, exited, totalsize>>

Load ==
    /\ pending # NoAccess
    /\ Permitted
    /\ pending.kind \in {"R", "X"}
    /\ reg' = mem[pending.addr]
    /\ pending' = NoAccess
    /\ UNCHANGED <<mem, prot, exited, totalsize>>

Store ==
    /\ pending # NoAccess
    /\ Permitted
    /\ pending.kind = "W"
    /\ mem' = [mem EXCEPT ![pending.addr] = pending.val]
    /\ pending' = NoAccess
    /\ UNCHANGED <<prot, reg, exited, totalsize>>

(* The kernel's copy to or from user memory does not raise SIGSEGV *)
SyscallRefused ==
    /\ pending # NoAccess
    /\ ~Permitted
    /\ pending.by = "kernel"
    /\ reg' = Efault
    /\ pending' = NoAccess
    /\ UNCHANGED <<mem, prot, exited, totalsize>>

Faulting ==
    /\ pending # NoAccess
    /\ ~Permitted
    /\ pending.by = "cpu"

(* exit(-1): a null pointer, or mmap returning MAP_FAILED *)
HandlerExits ==
    /\ Faulting
    /\ pending.addr = 0 \/ Serving(pending.addr) # {}
    /\ exited' = TRUE
    /\ pending' = NoAccess
    /\ UNCHANGED <<mem, prot, reg, totalsize>>

(* No header serves the address: the handler returns and the access faults again *)
HandlerGivesUp ==
    /\ Faulting
    /\ pending.addr # 0
    /\ Serving(pending.addr) = {}
    /\ UNCHANGED vars

(* mmap(MAP_FIXED) over csize bytes, pread of the part the file has, and   *)
(* mprotect of the first page only, whose result nobody looks at: it is    *)
(* taken to succeed, on memory just mapped. pread reads all or nothing.    *)
MapAndFill(seg, addrpage, csize, filled) ==
    LET cpy    == CopySize(seg, addrpage, csize)
        Mapped == {a \in Addr : addrpage <= a /\ a < addrpage + csize}
    IN  /\ mem' = [a \in Addr |->
                      IF a \notin Mapped THEN mem[a]
                      ELSE IF filled /\ a < addrpage + cpy THEN FileByteAt(seg, a)
                      ELSE 0]
        /\ prot' = [p \in Page |->
                      IF p = addrpage THEN Rights(seg)
                      ELSE IF p \in Mapped THEN {"R", "W"}
                      ELSE prot[p]]
        /\ totalsize' = IF totalsize + cpy <= MaxTotal THEN totalsize + cpy ELSE MaxTotal

HandlerServes ==
    /\ Faulting
    /\ pending.addr # 0
    /\ Serving(pending.addr) # {}
    /\ \E filled \in {TRUE, ~PreadMayFail} :
          MapAndFill(Segments[FirstServing(pending.addr)],
                     PageStart(pending.addr), heuristic(pending.addr), filled)
    /\ UNCHANGED <<pending, reg, exited>>

segv_handler == HandlerExits \/ HandlerGivesUp \/ HandlerServes

Hardware == Load \/ Store \/ SyscallRefused

Next ==
    \/ \E acc \in Accesses : Issue(acc)
    \/ Hardware
    \/ segv_handler

Spec == Init /\ [][Next]_vars

(* The kernel delivers the signal and reruns the instruction: neither an   *)
(* access nor a handler that can serve one is put off for ever. That mmap  *)
(* fails is never assumed.                                                 *)
FairSpec == Spec /\ WF_vars(Hardware) /\ WF_vars(HandlerServes)

----------------------------------------------------------------------------
(* The memory the program was linked for *)

Owners(p) == {i \in DOMAIN Segments : \E b \in Addr : PageStart(b) = p /\ Serves(i, b)}

(* The linker gives every segment pages of its own. *)
ASSUME LayoutAssumption ==
    \A p \in Page : \A i, j \in Owners(p) : i = j

Bytes    == {a \in Addr : Owners(PageStart(a)) # {}}
Owner(a) == Segments[CHOOSE i \in Owners(PageStart(a)) : TRUE]
Writable == {a \in Bytes : "W" \in Owner(a).flags}

(* What the handler fills a page with: the copy stops filesz bytes after   *)
(* the start of the segment's first PAGE.                                  *)
LoadedImage ==
    [a \in Bytes |->
        IF a - PageStart(Owner(a).vaddr) < Owner(a).filesz THEN FileByteAt(Owner(a), a) ELSE 0]

(* What ELF prescribes: the file's bytes stop filesz bytes after p_vaddr.  *)
ElfImage ==
    [a \in Bytes |->
        IF a < Owner(a).vaddr + Owner(a).filesz THEN FileByteAt(Owner(a), a) ELSE 0]

(* An access the segment's own flags allow *)
WellBehaved(acc) ==
    /\ Serving(acc.addr) # {}
    /\ acc.kind \in Owner(acc.addr).flags \cup {"R"}

(* The program never jumps into a writable page that is not executable. *)
FetchesAreFromCode ==
    \A acc \in Accesses :
        acc.kind = "X" /\ acc.addr \in Writable => "X" \in Owner(acc.addr).flags

Mapped(a) == prot[PageStart(a)] # {}

(* The memory as the program sees it: a page not there yet holds its image. *)
View(image) == [a \in Bytes |-> IF Mapped(a) THEN mem[a] ELSE image[a]]

Loaded == INSTANCE ProgramMemory WITH Image <- LoadedImage, view <- View(LoadedImage)
Elf    == INSTANCE ProgramMemory WITH Image <- ElfImage,    view <- View(ElfImage)

----------------------------------------------------------------------------
(* Properties *)

TypeOK ==
    /\ mem \in [Addr -> Values]
    /\ prot \in [Page -> SUBSET Right]
    /\ pending \in Accesses \cup {NoAccess}
    /\ reg \in Values \cup {Efault}
    /\ exited \in BOOLEAN
    /\ totalsize \in 0 .. MaxTotal

(* segv_handler builds, page by page and in whatever order the program     *)
(* touches it, the memory the file describes: no load ever sees another    *)
(* value, no store is undone by a later fault, read-only bytes are never   *)
(* stored to and an address no header serves is never accessed.            *)
ImplementsLoadedImage == Loaded!Spec

(* The same for the image ELF prescribes. *)
ImplementsElfImage == Elf!Spec

(* A fault never undoes a store: what a mapped, writable page holds is     *)
(* changed by the program alone (mmap with MAP_FIXED and pread both write  *)
(* over whatever is at addrpage).                                          *)
NoStoreLost ==
    [][\A a \in Addr :
          "W" \in prot[PageStart(a)] /\ mem'[a] # mem[a] => Store /\ pending.addr = a]_vars

(* The bytes of the pages of a segment that is not writable are never      *)
(* other than the image, whatever the program tries to store.              *)
TextIntact ==
    \A a \in Bytes \ Writable : Mapped(a) => mem[a] = LoadedImage[a]

(* Of dpager: a page that is there belongs to a segment and has just the   *)
(* protection of that segment, so that no access beside the segments and   *)
(* none against their flags is ever made, and no page ever needs a second  *)
(* fault for an access its segment allows.                                 *)
PagesOwned ==
    \A a \in Addr :
        Mapped(a) => a \in Bytes /\ prot[PageStart(a)] = Owner(a).flags \cup {"R"}

(* Once a page is mapped for an access its header allows, the access is    *)
(* made: the handler is not entered for ever.                              *)
WellBehavedCompletes ==
    \A acc \in {x \in Accesses : WellBehaved(x)} : pending = acc ~> pending = NoAccess

(* Bytes a prefetch can have destroyed: hpager.c maps over pages that are  *)
(* there already, but only over the Prefetch - 1 pages above the page that *)
(* faulted, and only for a page that was not there before.                 *)
LossIsPrefetch ==
    [][\A a \in Addr :
          "W" \in prot[PageStart(a)] /\ mem'[a] # mem[a] /\ ~Store =>
             /\ pending.addr >= Threshold
             /\ ~Mapped(pending.addr)
             /\ PageStart(pending.addr) < PageStart(a)
             /\ PageStart(a) < PageStart(pending.addr) + Prefetch * PageSize]_vars

Prefetched(addr) ==
    {p \in Page : PageStart(addr) < p /\ p < PageStart(addr) + heuristic(addr)}

(* A fault whose prefetch reaches a page that is there, or one of another  *)
(* segment.                                                                *)
Overreaches ==
    Faulting /\ \E p \in Prefetched(pending.addr) :
                    Mapped(p) \/ ~(Owners(p) \subseteq Owners(PageStart(pending.addr)))

(* A fault whose pread fails *)
Unread ==
    Faulting /\ Serving(pending.addr) # {} /\
    MapAndFill(Segments[FirstServing(pending.addr)],
               PageStart(pending.addr), heuristic(pending.addr), FALSE)

(* A prefetch does no other harm: whatever the pages it brings in, every   *)
(* step of a program that keeps to its headers is one that a program in    *)
(* plain memory makes, but for the two kinds of fault above. So hpager is  *)
(* as good as dpager for a program that touches its high pages upwards.    *)
PrefetchHarmless ==
    [][\/ Loaded!Next
       \/ UNCHANGED Loaded!vars
       \/ Overreaches
       \/ Unread
       \/ pending # NoAccess /\ ~WellBehaved(pending)]_vars

(* totalsize, the figure the pager prints at every fault, is the number of *)
(* file bytes in memory: no page is read from the file a second time.      *)
FilePart(p) == IF Owners(p) = {} THEN 0 ELSE CopySize(Owner(p), p, PageSize)

TotalIsResident ==
    totalsize = MapThenSumSet(FilePart, {p \in Page : prot[p] # {}})

(* Of hpager: the bytes read stay below Prefetch times the file's, even    *)
(* though prefetched pages are read again.                                 *)
TotalIsBounded ==
    totalsize <= Prefetch * MapThenSumSet(FilePart, Page)
=============================================================================
