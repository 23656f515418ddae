------------------------- MODULE DemandPagerProofs -------------------------
(***************************************************************************)
(* Theorems about DemandPager, for every executable, page size and program.*)
(***************************************************************************)
EXTENDS DemandPager, PageProofs, FiniteSetTheorems, WellFoundedInduction

(* What the constants say of a header that serves an address.              *)
LEMMA HeaderFacts ==
    ASSUME NEW i \in DOMAIN Segments
    PROVE  /\ Segments[i] \in Segment
           /\ Segments[i].vaddr \in Nat
           /\ Segments[i].offset \in Nat
           /\ Segments[i].filesz \in Nat
           /\ Segments[i].memsz \in Nat
           /\ Segments[i].flags \subseteq Right
           /\ Segments[i].offset >= PageOffset(Segments[i].vaddr)
           /\ PageOffset(Segments[i].vaddr) \in Nat
           /\ PageStart(Segments[i].vaddr) \in Nat
           /\ PageStart(Segments[i].vaddr) <= Segments[i].vaddr
<1>1. Segments[i] \in Segment  BY SegmentsAssumption
<1>2. Segments[i].vaddr \in Nat  BY <1>1 DEF Segment
<1> QED BY <1>1, <1>2, SegmentsAssumption, PageStartBounds DEF Segment

(* The only header that serves an address owns the address's page, so the  *)
(* handler's search and Owner agree.                                       *)
LEMMA ServingIsOwner ==
    ASSUME NEW addr \in Addr, Serving(addr) # {},
           NEW a \in Addr, PageStart(a) = PageStart(addr)
    PROVE  /\ FirstServing(addr) \in DOMAIN Segments
           /\ Serves(FirstServing(addr), addr)
           /\ a \in Bytes
           /\ Owner(a) = Segments[FirstServing(addr)]
<1>1. PICK i \in Serving(addr) : TRUE  OBVIOUS
<1>2. Serving(addr) \subseteq Owners(PageStart(addr))
  BY DEF Serving, Owners
<1>3. \A j \in Owners(PageStart(addr)) : j = i
  BY <1>1, <1>2, PageFacts, LayoutAssumption
<1>4. i \in Nat
  BY <1>1, SegmentsAssumption DEF Serving
<1>5. FirstServing(addr) = i
  BY <1>1, <1>2, <1>3, <1>4 DEF FirstServing
<1>6. Owner(a) = Segments[i]
  BY <1>1, <1>2, <1>3 DEF Owner
<1> QED BY <1>1, <1>2, <1>5, <1>6 DEF Serving, Bytes

(* The bytes of a page the handler reads from the file exist, and lie in   *)
(* the part of the file the header covers.                                 *)
LEMMA FileByteInFile ==
    ASSUME NEW i \in DOMAIN Segments, NEW a \in Nat,
           PageStart(Segments[i].vaddr) <= a,
           a - PageStart(Segments[i].vaddr) < Segments[i].filesz
    PROVE  FileByteAt(Segments[i], a) \in Values
<1> DEFINE seg == Segments[i]
           o == a - PageStart(seg.vaddr) + (seg.offset - PageOffset(seg.vaddr))
<1>1. o \in 0 .. seg.offset + seg.filesz /\ o < seg.offset + seg.filesz
  BY HeaderFacts
<1> HIDE DEF o
<1>2. FileBytes[o] \in Values
  BY <1>1, SegmentsAssumption
<1> QED BY <1>2 DEF FileByteAt, FileOffset, o

(* What one run of the handler copies, byte by byte.                       *)
LEMMA CopyBounds ==
    ASSUME NEW addr \in Addr, Serving(addr) # {}, NEW csize \in Nat,
           NEW a \in Addr, PageStart(addr) <= a, a < PageStart(addr) + csize
    PROVE  LET seg == Segments[FirstServing(addr)]
               cpy == CopySize(seg, PageStart(addr), csize)
           IN  /\ cpy \in Nat
               /\ PageStart(seg.vaddr) <= a
               /\ a < PageStart(addr) + cpy <=> a - PageStart(seg.vaddr) < seg.filesz
<1> DEFINE i == FirstServing(addr)
           seg == Segments[i]
<1>1. i \in DOMAIN Segments /\ Serves(i, addr)  BY ServingIsOwner
<1>2. /\ seg.vaddr \in Nat /\ seg.filesz \in Nat
      /\ PageStart(seg.vaddr) \in Nat  BY <1>1, HeaderFacts
<1>3. addr \in Nat /\ seg.vaddr <= addr  BY <1>1, <1>2, PageFacts DEF Serves, FileReach
<1>4. PageStart(addr) \in Nat /\ PageStart(seg.vaddr) <= PageStart(addr)
  BY <1>2, <1>3, PageStartMonotone, PageStartBounds
<1>5. a \in Nat  BY PageFacts
<1> HIDE DEF seg, i
<1>6. /\ CopySize(seg, PageStart(addr), csize) \in Nat
      /\ PageStart(seg.vaddr) <= a
      /\ a < PageStart(addr) + CopySize(seg, PageStart(addr), csize)
            <=> a - PageStart(seg.vaddr) < seg.filesz
  BY <1>2, <1>4, <1>5 DEF CopySize
<1> QED BY <1>6 DEF seg, i

LEMMA CopySizeNat ==
    ASSUME NEW addr \in Addr, Serving(addr) # {}, NEW csize \in Nat
    PROVE  CopySize(Segments[FirstServing(addr)], PageStart(addr), csize) \in Nat
<1> DEFINE seg == Segments[FirstServing(addr)]
<1>1. FirstServing(addr) \in DOMAIN Segments /\ Serves(FirstServing(addr), addr)
  BY ServingIsOwner
<1>2. /\ seg.filesz \in Nat
      /\ PageStart(seg.vaddr) \in Nat  BY <1>1, HeaderFacts
<1>3. PageStart(addr) \in Nat  BY PageFacts, PageStartBounds
<1> HIDE DEF seg
<1>4. CopySize(seg, PageStart(addr), csize) \in Nat
  BY <1>2, <1>3 DEF CopySize
<1> QED BY <1>4 DEF seg

----------------------------------------------------------------------------
(* Type correctness *)

LEMMA HeuristicNat ==
    ASSUME NEW addr \in Nat
    PROVE  heuristic(addr) \in Nat
  BY PagesAssumption, SizesAssumption DEF heuristic

LEMMA PendingFacts ==
    ASSUME TypeOK, pending # NoAccess
    PROVE  /\ pending \in Accesses
           /\ pending.addr \in Addr
           /\ pending.addr \in Nat
           /\ pending.kind \in Right
           /\ pending.val \in Values
           /\ PageStart(pending.addr) \in Page
<1>1. pending \in Accesses /\ pending \in Access
  BY ValuesAssumption DEF TypeOK
<1>2. pending.addr \in Addr  BY <1>1 DEF Access
<1> QED BY <1>1, <1>2, PageFacts DEF Access

(* TypeOK holds of every run of either pager: the memory, the protection   *)
(* of the pages and the counters stay what the C declarations make them,   *)
(* in particular CopySize never asks pread for a negative length.          *)
THEOREM TypeCorrect == Spec => []TypeOK
<1>1. Init => TypeOK
  <2> SUFFICES ASSUME Init PROVE TypeOK
    OBVIOUS
  <2>1. mem \in [Addr -> Values]  BY ValuesAssumption DEF Init
  <2>2. prot \in [Page -> SUBSET Right]  BY DEF Init
  <2>3. totalsize \in 0 .. MaxTotal  BY SizesAssumption DEF Init
  <2> QED BY <2>1, <2>2, <2>3 DEF Init, TypeOK
<1>2. TypeOK /\ [Next]_vars => TypeOK'
  <2> SUFFICES ASSUME TypeOK, [Next]_vars PROVE TypeOK'
    OBVIOUS
  <2>1. ASSUME NEW acc \in Accesses, Issue(acc) PROVE TypeOK'
    BY <2>1 DEF Issue, TypeOK
  <2>2. CASE Load
    BY <2>2, PendingFacts DEF Load, TypeOK
  <2>3. CASE Store
    BY <2>3, PendingFacts DEF Store, TypeOK
  <2>4. CASE SyscallRefused
    BY <2>4 DEF SyscallRefused, TypeOK
  <2>5. CASE HandlerExits
    BY <2>5 DEF HandlerExits, TypeOK
  <2>6. CASE HandlerGivesUp
    BY <2>6 DEF HandlerGivesUp, TypeOK, vars
  <2>7. CASE HandlerServes
    <3> DEFINE addr == pending.addr
               seg == Segments[FirstServing(addr)]
               cs == heuristic(addr)
               cpy == CopySize(seg, PageStart(addr), cs)
    <3>1. /\ addr \in Addr /\ addr \in Nat /\ Serving(addr) # {}
          /\ UNCHANGED <<pending, reg, exited>>
      BY <2>7, PendingFacts DEF HandlerServes, Faulting
    <3>2. PICK filled \in BOOLEAN : MapAndFill(seg, PageStart(addr), cs, filled)
      BY <2>7, SizesAssumption DEF HandlerServes
    <3>3. cs \in Nat  BY <3>1, HeuristicNat
    <3>4. FirstServing(addr) \in DOMAIN Segments  BY <3>1, ServingIsOwner
    <3>5. mem' \in [Addr -> Values]
      <4>1. ASSUME NEW a \in Addr, PageStart(addr) <= a, a < PageStart(addr) + cs,
                   a < PageStart(addr) + cpy
            PROVE  FileByteAt(seg, a) \in Values
        <5>1. PageStart(seg.vaddr) <= a /\ a - PageStart(seg.vaddr) < seg.filesz
          BY <4>1, <3>1, <3>3, CopyBounds
        <5>2. a \in Nat  BY PageFacts
        <5> QED BY <5>1, <5>2, <3>4, FileByteInFile
      <4> HIDE DEF addr, seg, cs
      <4> QED BY <4>1, <3>2, ValuesAssumption DEF MapAndFill, TypeOK
    <3>6. prot' \in [Page -> SUBSET Right]
      <4>1. Rights(seg) \in SUBSET Right
        BY <3>4, HeaderFacts DEF Rights, Right
      <4> HIDE DEF addr, seg, cs
      <4> QED BY <4>1, <3>2 DEF MapAndFill, TypeOK, Right
    <3>7. totalsize' \in 0 .. MaxTotal
      <4>1. cpy \in Nat  BY <3>1, <3>3, CopySizeNat
      <4>2. totalsize' = IF totalsize + cpy <= MaxTotal THEN totalsize + cpy ELSE MaxTotal
        BY <3>2 DEF MapAndFill
      <4> HIDE DEF cpy
      <4> QED BY <4>1, <4>2, SizesAssumption DEF TypeOK
    <3> QED BY <3>1, <3>5, <3>6, <3>7 DEF TypeOK
  <2>8. CASE UNCHANGED vars
    BY <2>8 DEF vars, TypeOK
  <2> QED
    BY <2>1, <2>2, <2>3, <2>4, <2>5, <2>6, <2>7, <2>8 DEF Next, Hardware, segv_handler
<1> QED BY <1>1, <1>2, PTL DEF Spec

----------------------------------------------------------------------------
(* dpager: one page per fault *)

(* What a fault does to a byte of the page it maps and to every other byte.*)
LEMMA OnePageFault ==
    ASSUME TypeOK, Prefetch = 1, HandlerServes, NEW a \in Addr
    PROVE  /\ PageStart(a) = PageStart(pending.addr) =>
                 /\ a \in Bytes
                 /\ Owner(a) = Owner(pending.addr)
                 /\ prot'[PageStart(a)] = Owner(a).flags \cup {"R"}
                 /\ ~PreadMayFail => mem'[a] = LoadedImage[a]
           /\ PageStart(a) # PageStart(pending.addr) =>
                 /\ mem'[a] = mem[a]
                 /\ prot'[PageStart(a)] = prot[PageStart(a)]
<1> DEFINE addr == pending.addr
           seg == Segments[FirstServing(addr)]
           cpy == CopySize(seg, PageStart(addr), PageSize)
<1>1. addr \in Addr /\ addr \in Nat /\ Serving(addr) # {}
  BY PendingFacts DEF HandlerServes, Faulting
<1>2. heuristic(addr) = PageSize /\ PageSize \in Nat \ {0}
  BY PagesAssumption, SizesAssumption DEF heuristic
<1>3. PICK filled \in {TRUE, ~PreadMayFail} : MapAndFill(seg, PageStart(addr), PageSize, filled)
  BY <1>2 DEF HandlerServes
<1>4. /\ a \in Nat /\ PageStart(a) \in Page /\ PageStart(a) \in Nat
      /\ PageStart(PageStart(a)) = PageStart(a)
      /\ PageStart(a) <= a /\ a < PageStart(a) + PageSize
      /\ PageStart(addr) \in Nat
  BY <1>1, PageFacts, PageStartBounds
<1>5. CASE PageStart(a) = PageStart(addr)
  <2>1. a \in Bytes /\ Owner(a) = seg /\ Owner(addr) = seg /\ FirstServing(addr) \in DOMAIN Segments
    BY <1>1, <1>5, ServingIsOwner
  <2>2. prot'[PageStart(a)] = Rights(seg)
    <3> HIDE DEF addr, seg
    <3> QED BY <1>3, <1>4, <1>5 DEF MapAndFill
  <2>3. Rights(seg) = seg.flags \cup {"R"}
    BY <2>1, HeaderFacts DEF Rights, Right
  <2>4. ASSUME ~PreadMayFail PROVE mem'[a] = LoadedImage[a]
    <3>1. filled = TRUE  BY <1>3, <2>4
    <3>2. a < PageStart(addr) + cpy <=> a - PageStart(seg.vaddr) < seg.filesz
      BY <1>1, <1>2, <1>4, <1>5, CopyBounds
    <3>3. mem'[a] = IF a < PageStart(addr) + cpy THEN FileByteAt(seg, a) ELSE 0
      <4> HIDE DEF addr, seg
      <4> QED BY <1>3, <1>4, <1>5, <3>1 DEF MapAndFill
    <3>4. LoadedImage[a] = IF a - PageStart(seg.vaddr) < seg.filesz THEN FileByteAt(seg, a) ELSE 0
      BY <2>1 DEF LoadedImage
    <3> QED BY <3>2, <3>3, <3>4
  <2> QED BY <1>5, <2>1, <2>2, <2>3, <2>4
<1>6. CASE PageStart(a) # PageStart(addr)
  <2>1. ~(PageStart(addr) <= a /\ a < PageStart(addr) + PageSize)
    BY <1>1, <1>4, <1>6, PageStartUnique
  <2>2. ~(PageStart(addr) <= PageStart(a) /\ PageStart(a) < PageStart(addr) + PageSize)
    BY <1>1, <1>4, <1>6, PageStartUnique
  <2>3. mem'[a] = mem[a] /\ prot'[PageStart(a)] = prot[PageStart(a)]
    <3> HIDE DEF addr, seg
    <3> QED BY <1>3, <1>4, <1>6, <2>1, <2>2 DEF MapAndFill
  <2> QED BY <1>6, <2>3
<1> QED BY <1>5, <1>6

(* The program's own steps and the other outcomes of the handler leave the *)
(* pages alone, and only Store touches a byte, of a page it may write.     *)
LEMMA OtherSteps ==
    ASSUME TypeOK, [Next]_vars, ~HandlerServes
    PROVE  /\ UNCHANGED prot
           /\ UNCHANGED mem \/ Store
<1>1. ASSUME NEW acc \in Accesses, Issue(acc) PROVE UNCHANGED <<prot, mem>>
  BY <1>1 DEF Issue
<1>2. CASE Load  BY <1>2 DEF Load
<1>3. CASE Store  BY <1>3 DEF Store
<1>4. CASE SyscallRefused  BY <1>4 DEF SyscallRefused
<1>5. CASE HandlerExits  BY <1>5 DEF HandlerExits
<1>6. CASE HandlerGivesUp  BY <1>6 DEF HandlerGivesUp, vars
<1>7. CASE UNCHANGED vars  BY <1>7 DEF vars
<1> QED BY <1>1, <1>2, <1>3, <1>4, <1>5, <1>6, <1>7 DEF Next, Hardware, segv_handler

LEMMA StoreEffect ==
    ASSUME TypeOK, Store, NEW a \in Addr
    PROVE  /\ a # pending.addr => mem'[a] = mem[a]
           /\ a = pending.addr => mem'[a] = pending.val
           /\ "W" \in prot[PageStart(pending.addr)]
           /\ pending.addr \in Addr
  BY PendingFacts DEF Store, Permitted, TypeOK

(* dpager maps a page for the segment that owns it and for no other, with  *)
(* that segment's protection (mprotect at the end of segv_handler).        *)
THEOREM DpagerPages == ASSUME Prefetch = 1 PROVE Spec => []PagesOwned
<1>1. Init => PagesOwned
  BY PageFacts DEF Init, PagesOwned, Mapped
<1>2. TypeOK /\ PagesOwned /\ [Next]_vars => PagesOwned'
  <2> SUFFICES ASSUME TypeOK, PagesOwned, [Next]_vars, NEW a \in Addr,
                      prot'[PageStart(a)] # {}
               PROVE  a \in Bytes /\ prot'[PageStart(a)] = Owner(a).flags \cup {"R"}
    BY DEF PagesOwned, Mapped
  <2>1. CASE HandlerServes
    BY <2>1, OnePageFault DEF PagesOwned, Mapped
  <2>2. CASE ~HandlerServes
    BY <2>2, OtherSteps DEF PagesOwned, Mapped
  <2> QED BY <2>1, <2>2
<1> QED BY <1>1, <1>2, TypeCorrect, PTL DEF Spec

(* The pages of a segment that is not writable hold the file's bytes, what-*)
(* ever the program tries.                                                 *)
THEOREM DpagerTextIntact ==
    ASSUME Prefetch = 1, ~PreadMayFail PROVE Spec => []TextIntact
<1>1. Init => TextIntact
  BY PageFacts DEF Init, TextIntact, Mapped, Bytes
<1>2. TypeOK /\ PagesOwned /\ TextIntact /\ [Next]_vars => TextIntact'
  <2> SUFFICES ASSUME TypeOK, PagesOwned, TextIntact, [Next]_vars,
                      NEW a \in Bytes \ Writable, prot'[PageStart(a)] # {}
               PROVE  mem'[a] = LoadedImage[a]
    BY DEF TextIntact, Mapped
  <2>0. a \in Addr /\ "W" \notin Owner(a).flags  BY DEF Bytes, Writable
  <2>1. CASE HandlerServes
    BY <2>0, <2>1, OnePageFault DEF TextIntact, Mapped
  <2>2. CASE ~HandlerServes
    <3>1. prot[PageStart(a)] # {} /\ mem[a] = LoadedImage[a]
      BY <2>2, OtherSteps DEF TextIntact, Mapped
    <3>2. CASE Store
      <4>1. "W" \notin prot[PageStart(a)]
        BY <2>0, <3>1 DEF PagesOwned, Mapped
      <4>2. a # pending.addr
        BY <2>0, <3>2, <4>1, StoreEffect
      <4> QED BY <2>0, <3>1, <3>2, <4>2, StoreEffect
    <3>3. CASE UNCHANGED mem  BY <3>1, <3>3
    <3> QED BY <2>2, <3>2, <3>3, OtherSteps
  <2> QED BY <2>1, <2>2
<1> QED BY <1>1, <1>2, TypeCorrect, DpagerPages, PTL DEF Spec

(* A page the handler is entered for is one the program never stored to.   *)
LEMMA FaultsAreClean ==
    ASSUME TypeOK, PagesOwned, FetchesAreFromCode, HandlerServes,
           NEW a \in Addr, PageStart(a) = PageStart(pending.addr), Mapped(a)
    PROVE  a \notin Writable /\ "W" \notin prot[PageStart(a)]
<1>1. /\ pending \in Accesses /\ pending.addr \in Addr /\ pending.kind \in Right
      /\ pending.kind \notin prot[PageStart(pending.addr)]
      /\ Serving(pending.addr) # {}
  BY PendingFacts DEF HandlerServes, Faulting, Permitted
<1>2. Owner(a) = Owner(pending.addr) /\ pending.addr \in Bytes /\ a \in Bytes
  BY <1>1, ServingIsOwner
<1>3. prot[PageStart(a)] = Owner(a).flags \cup {"R"}
  BY DEF PagesOwned
<1>4. "W" \notin Owner(a).flags
  <2>1. CASE pending.kind = "W"  BY <1>1, <1>2, <1>3, <2>1
  <2>2. CASE pending.kind = "X"
    BY <1>1, <1>2, <1>3, <2>2 DEF FetchesAreFromCode, Writable
  <2> QED BY <1>1, <1>3, <2>1, <2>2 DEF Right
<1> QED BY <1>3, <1>4 DEF Writable

(* No fault ever undoes a store: mmap(MAP_FIXED) never hits a page the     *)
(* program could have written, even when pread fails.                      *)
THEOREM DpagerKeepsStores ==
    ASSUME Prefetch = 1, FetchesAreFromCode PROVE Spec => NoStoreLost
<1> DEFINE Keep == \A a \in Addr :
                      "W" \in prot[PageStart(a)] /\ mem'[a] # mem[a] => Store /\ pending.addr = a
<1>1. TypeOK /\ PagesOwned /\ [Next]_vars => [Keep]_vars
  <2> SUFFICES ASSUME TypeOK, PagesOwned, [Next]_vars, NEW a \in Addr,
                      "W" \in prot[PageStart(a)], mem'[a] # mem[a]
               PROVE  Store /\ pending.addr = a
    OBVIOUS
  <2>1. CASE HandlerServes
    <3>1. PageStart(a) = PageStart(pending.addr)  BY <2>1, OnePageFault
    <3> QED BY <2>1, <3>1, FaultsAreClean DEF Mapped
  <2>2. CASE ~HandlerServes
    <3>1. Store  BY <2>2, OtherSteps
    <3> QED BY <3>1, StoreEffect
  <2> QED BY <2>1, <2>2
<1> QED BY <1>1, TypeCorrect, DpagerPages, PTL DEF Spec, NoStoreLost

----------------------------------------------------------------------------
(* dpager implements ProgramMemory: every step of the pager is a step of   *)
(* the abstract memory, and a fault is none at all.                        *)

LEMMA ViewUnchanged ==
    ASSUME UNCHANGED <<mem, prot>>
    PROVE  UNCHANGED View(LoadedImage)
  BY DEF View, Mapped

LEMMA MappedView ==
    ASSUME PagesOwned, NEW a \in Addr, prot[PageStart(a)] # {}
    PROVE  a \in Bytes /\ View(LoadedImage)[a] = mem[a]
  BY DEF View, PagesOwned, Mapped

(* A fault does not change what the program sees.                          *)
LEMMA FaultIsInvisible ==
    ASSUME TypeOK, PagesOwned, TextIntact, HandlerServes,
           Prefetch = 1, ~PreadMayFail, FetchesAreFromCode
    PROVE  UNCHANGED View(LoadedImage)
<1> SUFFICES ASSUME NEW a \in Bytes
             PROVE  (IF Mapped(a) THEN mem[a] ELSE LoadedImage[a])'
                       = IF Mapped(a) THEN mem[a] ELSE LoadedImage[a]
  BY DEF View
<1>0. a \in Addr  BY DEF Bytes
<1>1. CASE PageStart(a) = PageStart(pending.addr)
  <2>1. Mapped(a)' /\ mem'[a] = LoadedImage[a]
    BY <1>0, <1>1, OnePageFault DEF Mapped
  <2>2. Mapped(a) => mem[a] = LoadedImage[a]
    BY <1>0, <1>1, FaultsAreClean DEF TextIntact
  <2> QED BY <2>1, <2>2
<1>2. CASE PageStart(a) # PageStart(pending.addr)
  BY <1>0, <1>2, OnePageFault DEF Mapped
<1> QED BY <1>1, <1>2

(* For every executable, page size and program: demand paging is invisible.*)
THEOREM DpagerImplements ==
    ASSUME Prefetch = 1, ~PreadMayFail, FetchesAreFromCode
    PROVE  Spec => ImplementsLoadedImage
<1>1. Init => Loaded!Init
  <2> SUFFICES ASSUME Init PROVE Loaded!Init
    OBVIOUS
  <2>1. View(LoadedImage) = LoadedImage
    BY PageFacts DEF Init, View, Mapped, LoadedImage, Bytes
  <2> QED BY <2>1 DEF Init, Loaded!Init
<1>2. TypeOK /\ PagesOwned /\ TextIntact /\ [Next]_vars => [Loaded!Next]_(Loaded!vars)
  <2> SUFFICES ASSUME TypeOK, PagesOwned, TextIntact, [Next]_vars
               PROVE  [Loaded!Next]_(Loaded!vars)
    OBVIOUS
  <2> USE DEF Loaded!Next, Loaded!vars
  <2>1. ASSUME NEW acc \in Accesses, Issue(acc) PROVE Loaded!Next
    BY <2>1, ViewUnchanged DEF Issue, Loaded!Issue
  <2>2. CASE Load
    <3>1. pending.addr \in Addr /\ prot[PageStart(pending.addr)] # {}
      BY <2>2, PendingFacts DEF Load, Permitted
    <3>2. pending.addr \in Bytes /\ View(LoadedImage)[pending.addr] = mem[pending.addr]
      BY <3>1, MappedView
    <3>3. UNCHANGED View(LoadedImage)
      BY <2>2, ViewUnchanged DEF Load
    <3> QED BY <2>2, <3>2, <3>3 DEF Load, Loaded!Load
  <2>3. CASE Store
    <3>1. /\ pending.addr \in Addr /\ "W" \in prot[PageStart(pending.addr)]
          /\ UNCHANGED prot
      BY <2>3, PendingFacts DEF Store, Permitted
    <3>2. pending.addr \in Writable
      BY <3>1 DEF PagesOwned, Mapped, Writable
    <3>3. View(LoadedImage)' = [View(LoadedImage) EXCEPT ![pending.addr] = pending.val]
      BY <2>3, <3>1, StoreEffect DEF View, Mapped, Bytes
    <3> QED BY <2>3, <3>2, <3>3 DEF Store, Loaded!Store
  <2>4. CASE SyscallRefused
    BY <2>4, ViewUnchanged DEF SyscallRefused, Loaded!Refuse
  <2>5. CASE HandlerExits
    BY <2>5, ViewUnchanged DEF HandlerExits, Faulting, Loaded!Exit
  <2>6. CASE HandlerGivesUp
    BY <2>6, ViewUnchanged DEF HandlerGivesUp, vars
  <2>7. CASE HandlerServes
    BY <2>7, FaultIsInvisible DEF HandlerServes
  <2>8. CASE UNCHANGED vars
    BY <2>8, ViewUnchanged DEF vars
  <2> QED
    BY <2>1, <2>2, <2>3, <2>4, <2>5, <2>6, <2>7, <2>8 DEF Next, Hardware, segv_handler
<1> QED
  BY <1>1, <1>2, TypeCorrect, DpagerPages, DpagerTextIntact, PTL
     DEF Spec, ImplementsLoadedImage, Loaded!Spec

----------------------------------------------------------------------------
(* The image dpager builds and the image ELF prescribes *)

(* segv_handler measures filesz from the start of the segment's first      *)
(* page: of a segment that begins PageOffset bytes into its page, the last *)
(* PageOffset bytes of file contents stay zero, and no others are wrong.   *)
THEOREM TailGap ==
    ASSUME NEW a \in Bytes, LoadedImage[a] # ElfImage[a]
    PROVE  LET seg == Owner(a) IN
           /\ LoadedImage[a] = 0
           /\ seg.vaddr + seg.filesz - PageOffset(seg.vaddr) <= a
           /\ a < seg.vaddr + seg.filesz
<1> DEFINE seg == Owner(a)
<1>1. a \in Nat /\ Owners(PageStart(a)) # {}  BY PageFacts DEF Bytes
<1>2. PICK i \in DOMAIN Segments : seg = Segments[i]
  BY <1>1 DEF Owner, Owners
<1>3. /\ seg.vaddr \in Nat /\ seg.filesz \in Nat
      /\ PageStart(seg.vaddr) \in Nat /\ PageOffset(seg.vaddr) \in Nat
      /\ PageStart(seg.vaddr) + PageOffset(seg.vaddr) = seg.vaddr
  BY <1>2, HeaderFacts, PageStartBounds
<1>4. /\ LoadedImage[a] = IF a - PageStart(seg.vaddr) < seg.filesz THEN FileByteAt(seg, a) ELSE 0
      /\ ElfImage[a] = IF a < seg.vaddr + seg.filesz THEN FileByteAt(seg, a) ELSE 0
  BY DEF LoadedImage, ElfImage
<1> HIDE DEF seg
<1>5. /\ LoadedImage[a] = 0
      /\ seg.vaddr + seg.filesz - PageOffset(seg.vaddr) <= a
      /\ a < seg.vaddr + seg.filesz
  BY <1>1, <1>3, <1>4
<1> QED BY <1>5 DEF seg

(* Of an executable whose segments all begin a page, demand paging builds  *)
(* just the memory ELF prescribes.                                         *)
THEOREM DpagerImplementsElf ==
    ASSUME Prefetch = 1, ~PreadMayFail, FetchesAreFromCode,
           \A i \in DOMAIN Segments : PageOffset(Segments[i].vaddr) = 0
    PROVE  Spec => ImplementsElfImage
<1>1. LoadedImage = ElfImage
  <2> SUFFICES ASSUME NEW a \in Bytes, LoadedImage[a] # ElfImage[a] PROVE FALSE
    BY DEF LoadedImage, ElfImage
  <2>1. PICK i \in DOMAIN Segments : Owner(a) = Segments[i]
    BY DEF Owner, Owners, Bytes
  <2>2. PageOffset(Owner(a).vaddr) = 0 /\ Owner(a).vaddr \in Nat /\ Owner(a).filesz \in Nat
    BY <2>1, HeaderFacts
  <2>3. a \in Nat  BY PageFacts DEF Bytes
  <2> QED BY <2>2, <2>3, TailGap
<1>2. Loaded!Init => Elf!Init
  BY <1>1 DEF Loaded!Init, Elf!Init
<1>3. [Loaded!Next]_(Loaded!vars) => [Elf!Next]_(Elf!vars)
  BY <1>1 DEF Loaded!Next, Loaded!vars, Loaded!Issue, Loaded!Load, Loaded!Store,
              Loaded!Refuse, Loaded!Exit,
              Elf!Next, Elf!vars, Elf!Issue, Elf!Load, Elf!Store, Elf!Refuse, Elf!Exit
<1> QED
  BY <1>2, <1>3, DpagerImplements, PTL
     DEF ImplementsElfImage, ImplementsLoadedImage, Loaded!Spec, Elf!Spec

----------------------------------------------------------------------------
(***************************************************************************)
(* hpager: what prefetching can destroy and what it cannot, for every page *)
(* size, executable, Prefetch and Threshold.                               *)
(***************************************************************************)

(* No instruction is fetched at or above Threshold: there is the data. *)
FetchesAreLow == \A acc \in Accesses : acc.kind = "X" => acc.addr < Threshold

(* The program makes no access its headers do not allow. *)
KeepsToHeaders == \A acc \in Accesses : WellBehaved(acc)

(* The page of a is one of those prefetched by a fault at addr. *)
Reached(a, addr) ==
    PageStart(addr) < PageStart(a) /\ PageStart(a) < PageStart(addr) + heuristic(addr)

LEMMA NextPage ==
    ASSUME NEW x \in Nat, NEW y \in Nat, PageStart(x) < PageStart(y)
    PROVE  x < PageStart(y)
<1>1. /\ PageStart(x) \in Nat /\ PageStart(y) \in Nat /\ PageSize \in Nat
      /\ x < PageStart(x) + PageSize
  BY PageStartBounds, PagesAssumption
<1>2. PageStart(x) + PageSize <= PageStart(y)
  <2>1. PICK q \in Nat : PageStart(x) = q * PageSize  BY Multiple
  <2>2. PICK r \in Nat : PageStart(y) = r * PageSize  BY Multiple
  <2>3. CASE q < r  BY <2>1, <2>2, <2>3, BetweenMultiples
  <2>4. CASE r < q
    <3>1. PageStart(y) + PageSize <= PageStart(x)  BY <2>1, <2>2, <2>4, BetweenMultiples
    <3> QED BY <1>1, <3>1
  <2>5. CASE q = r  BY <1>1, <2>1, <2>2, <2>5
  <2> QED BY <2>3, <2>4, <2>5
<1> QED BY <1>1, <1>2

(* What heuristic returns: whole pages, and more than one only from        *)
(* Threshold on.                                                           *)
LEMMA HeuristicPages ==
    ASSUME NEW addr \in Nat
    PROVE  /\ \E k \in Nat : heuristic(addr) = k * PageSize
           /\ heuristic(addr) \in Nat /\ PageSize <= heuristic(addr)
           /\ heuristic(addr) <= Prefetch * PageSize
           /\ addr < Threshold => heuristic(addr) = PageSize
<1>1. PageSize \in Nat \ {0} /\ Prefetch \in Nat \ {0} /\ Threshold \in Nat
  BY PagesAssumption, SizesAssumption
<1>2. PICK m \in Nat : Prefetch = m + 1
  <2>1. Prefetch - 1 \in Nat /\ Prefetch = (Prefetch - 1) + 1  BY <1>1
  <2> QED BY <2>1
<1>3. m * PageSize \in Nat /\ (m + 1) * PageSize = m * PageSize + PageSize
  BY <1>1, <1>2
<1>4. PageSize * Prefetch = Prefetch * PageSize /\ 1 * PageSize = PageSize
  BY <1>1
<1>5. Prefetch * PageSize \in Nat /\ PageSize <= Prefetch * PageSize
  BY <1>1, <1>2, <1>3
<1>6. CASE addr >= Threshold
  <2>1. heuristic(addr) = Prefetch * PageSize  BY <1>4, <1>6 DEF heuristic
  <2>2. ~(addr < Threshold)  BY <1>1, <1>6
  <2> QED BY <1>1, <1>5, <2>1, <2>2
<1>7. CASE ~(addr >= Threshold)
  <2>1. heuristic(addr) = PageSize /\ heuristic(addr) = 1 * PageSize
    BY <1>4, <1>7 DEF heuristic
  <2>2. \E k \in Nat : heuristic(addr) = k * PageSize  BY <2>1
  <2> QED BY <1>1, <1>5, <2>1, <2>2
<1> QED BY <1>6, <1>7

(* The bytes a fault maps are those of its page and of the pages it reaches.*)
LEMMA MappedBytes ==
    ASSUME NEW addr \in Nat, NEW a \in Nat
    PROVE  /\ PageStart(addr) <= a /\ a < PageStart(addr) + heuristic(addr)
                 <=> PageStart(a) = PageStart(addr) \/ Reached(a, addr)
           /\ PageStart(addr) <= PageStart(a) /\ PageStart(a) < PageStart(addr) + heuristic(addr)
                 <=> PageStart(a) = PageStart(addr) \/ Reached(a, addr)
<1>1. PICK q \in Nat : PageStart(addr) = q * PageSize  BY Multiple
<1>2. PICK k \in Nat : heuristic(addr) = k * PageSize  BY HeuristicPages
<1>3. /\ PageStart(addr) \in Nat /\ PageStart(a) \in Nat /\ PageSize \in Nat \ {0}
      /\ heuristic(addr) \in Nat /\ PageSize <= heuristic(addr)
      /\ PageStart(a) <= a /\ a < PageStart(a) + PageSize
  BY PageStartBounds, PagesAssumption, HeuristicPages
<1>4. q + k \in Nat /\ PageStart(addr) + heuristic(addr) = (q + k) * PageSize
  BY <1>1, <1>2, <1>3
<1>5. PageStart(addr) <= a <=> PageStart(addr) <= PageStart(a)
  BY <1>1, MultipleBoundsPages
<1>6. a < PageStart(addr) + heuristic(addr) <=> PageStart(a) < PageStart(addr) + heuristic(addr)
  BY <1>4, MultipleBoundsPages
<1> QED BY <1>3, <1>5, <1>6 DEF Reached
----------------------------------------------------------------------------
(* What a fault of hpager does *)

(* A fault gives its page the segment's protection, makes the pages it     *)
(* reaches readable and writable, and leaves every other byte alone.       *)
LEMMA FaultEffect ==
    ASSUME TypeOK, HandlerServes, NEW a \in Addr
    PROVE  /\ PageStart(a) = PageStart(pending.addr) =>
                 a \in Bytes /\ prot'[PageStart(a)] = Owner(a).flags \cup {"R"}
           /\ Reached(a, pending.addr) => prot'[PageStart(a)] = {"R", "W"}
           /\ PageStart(a) # PageStart(pending.addr) /\ ~Reached(a, pending.addr) =>
                 /\ mem'[a] = mem[a]
                 /\ prot'[PageStart(a)] = prot[PageStart(a)]
<1> DEFINE addr == pending.addr
           seg == Segments[FirstServing(addr)]
           cs == heuristic(addr)
<1>1. addr \in Addr /\ addr \in Nat /\ Serving(addr) # {}
  BY PendingFacts DEF HandlerServes, Faulting
<1>2. PICK filled \in BOOLEAN : MapAndFill(seg, PageStart(addr), cs, filled)
  BY SizesAssumption DEF HandlerServes
<1>3. /\ a \in Nat /\ PageStart(a) \in Page /\ PageStart(a) \in Addr
      /\ PageStart(a) \in Nat /\ PageStart(addr) \in Nat
  BY <1>1, PageFacts, PageStartBounds
<1>4. /\ PageStart(addr) <= a /\ a < PageStart(addr) + cs
            <=> PageStart(a) = PageStart(addr) \/ Reached(a, addr)
      /\ PageStart(addr) <= PageStart(a) /\ PageStart(a) < PageStart(addr) + cs
            <=> PageStart(a) = PageStart(addr) \/ Reached(a, addr)
  BY <1>1, <1>3, MappedBytes
<1>5. CASE PageStart(a) = PageStart(addr)
  <2>1. a \in Bytes /\ Owner(a) = seg /\ FirstServing(addr) \in DOMAIN Segments
    BY <1>1, <1>5, ServingIsOwner
  <2>2. Rights(seg) = seg.flags \cup {"R"}
    BY <2>1, HeaderFacts DEF Rights, Right
  <2>3. prot'[PageStart(a)] = Rights(seg)
    <3> HIDE DEF addr, seg, cs
    <3> QED BY <1>2, <1>3, <1>5 DEF MapAndFill
  <2>4. ~Reached(a, addr)  BY <1>3, <1>5 DEF Reached
  <2> QED BY <1>5, <2>1, <2>2, <2>3, <2>4
<1>6. CASE Reached(a, addr)
  <2>1. PageStart(a) # PageStart(addr)  BY <1>3, <1>6 DEF Reached
  <2>2. prot'[PageStart(a)] = {"R", "W"}
    <3> HIDE DEF addr, seg, cs
    <3> QED BY <1>2, <1>3, <1>4, <1>6, <2>1 DEF MapAndFill
  <2> QED BY <1>6, <2>1, <2>2
<1>7. CASE PageStart(a) # PageStart(addr) /\ ~Reached(a, addr)
  <2>1. mem'[a] = mem[a] /\ prot'[PageStart(a)] = prot[PageStart(a)]
    <3> HIDE DEF addr, seg, cs
    <3> QED BY <1>2, <1>3, <1>4, <1>7 DEF MapAndFill
  <2> QED BY <1>7, <2>1
<1> QED BY <1>5, <1>6, <1>7

(* A page above the one that faulted is reached only from Threshold on.    *)
LEMMA ReachedIsHigh ==
    ASSUME NEW addr \in Nat, NEW a \in Nat, Reached(a, addr)
    PROVE  /\ addr >= Threshold
           /\ Threshold < PageStart(a)
           /\ PageStart(a) < PageStart(addr) + Prefetch * PageSize
<1>1. /\ PageStart(addr) \in Nat /\ PageStart(a) \in Nat /\ PageSize \in Nat
      /\ Threshold \in Nat /\ Prefetch \in Nat /\ addr <= addr
  BY PageStartBounds, PagesAssumption, SizesAssumption
<1>2. PageStart(addr) < PageStart(a) /\ PageStart(a) < PageStart(addr) + heuristic(addr)
  BY DEF Reached
<1>3. addr < PageStart(a)  BY <1>2, NextPage
<1>4. heuristic(addr) # PageSize
  <2> SUFFICES ASSUME heuristic(addr) = PageSize PROVE FALSE
    OBVIOUS
  <2>1. addr < PageStart(addr) + PageSize /\ PageStart(a) <= a
    BY PageStartBounds
  <2>2. PageStart(PageStart(a)) = PageStart(addr)
    BY <1>1, <1>2, PageStartUnique
  <2>3. PageStart(PageStart(a)) = PageStart(a)
    <3>1. PageStart(a) <= PageStart(a) /\ PageStart(a) < PageStart(a) + PageSize
      BY <1>1, PagesAssumption
    <3> QED BY <1>1, <3>1, PageStartUnique
  <2> QED BY <1>1, <1>2, <2>2, <2>3
<1>5. addr >= Threshold  BY <1>1, <1>4, HeuristicPages
<1>6. heuristic(addr) <= Prefetch * PageSize /\ heuristic(addr) \in Nat
      /\ Prefetch * PageSize \in Nat
  BY <1>1, HeuristicPages
<1> HIDE DEF Reached
<1> QED BY <1>1, <1>2, <1>3, <1>5, <1>6

(* A page that is there was mapped by a fault of its own, with the rights  *)
(* of its segment, or prefetched by one below it, above Threshold.         *)
PrefetchedPages ==
    \A a \in Addr : Mapped(a) =>
        \/ prot[PageStart(a)] = {"R", "W"} /\ PageStart(a) > Threshold
        \/ a \in Bytes /\ prot[PageStart(a)] = Owner(a).flags \cup {"R"}

LEMMA PagesPrefetched == Spec => []PrefetchedPages
<1>1. Init => PrefetchedPages
  BY PageFacts DEF Init, PrefetchedPages, Mapped
<1>2. TypeOK /\ PrefetchedPages /\ [Next]_vars => PrefetchedPages'
  <2> SUFFICES ASSUME TypeOK, PrefetchedPages, [Next]_vars, NEW a \in Addr,
                      prot'[PageStart(a)] # {}
               PROVE  \/ prot'[PageStart(a)] = {"R", "W"} /\ PageStart(a) > Threshold
                      \/ a \in Bytes /\ prot'[PageStart(a)] = Owner(a).flags \cup {"R"}
    BY DEF PrefetchedPages, Mapped
  <2>1. CASE HandlerServes
    <3>1. pending.addr \in Nat  BY <2>1, PendingFacts DEF HandlerServes, Faulting
    <3>2. a \in Nat /\ PageStart(a) \in Nat  BY PageFacts, PageStartBounds
    <3>3. CASE PageStart(a) = PageStart(pending.addr)
      BY <2>1, <3>3, FaultEffect
    <3>4. CASE Reached(a, pending.addr)
      <4>1. Threshold < PageStart(a)  BY <3>1, <3>2, <3>4, ReachedIsHigh
      <4>2. PageStart(a) > Threshold  BY <4>1, <3>2, SizesAssumption
      <4> QED BY <2>1, <3>4, <4>2, FaultEffect
    <3>5. CASE PageStart(a) # PageStart(pending.addr) /\ ~Reached(a, pending.addr)
      BY <2>1, <3>5, FaultEffect DEF PrefetchedPages, Mapped
    <3> QED BY <3>3, <3>4, <3>5
  <2>2. CASE ~HandlerServes
    BY <2>2, OtherSteps DEF PrefetchedPages, Mapped
  <2> QED BY <2>1, <2>2
<1> QED BY <1>1, <1>2, TypeCorrect, PTL DEF Spec

(* A program that keeps to its headers, and fetches no instruction from    *)
(* the pages that are prefetched, faults once on a page: when it is absent.*)
LEMMA FirstTouch ==
    ASSUME TypeOK, PrefetchedPages, FetchesAreLow, HandlerServes, WellBehaved(pending)
    PROVE  ~Mapped(pending.addr)
<1>1. /\ pending \in Accesses /\ pending.addr \in Addr /\ pending.addr \in Nat
      /\ pending.kind \in Right
      /\ pending.kind \notin prot[PageStart(pending.addr)]
  BY PendingFacts DEF HandlerServes, Faulting, Permitted
<1>2. pending.kind \in Owner(pending.addr).flags \cup {"R"}
  BY DEF WellBehaved
<1>3. ~(prot[PageStart(pending.addr)] = {"R", "W"} /\ PageStart(pending.addr) > Threshold)
  <2> SUFFICES ASSUME prot[PageStart(pending.addr)] = {"R", "W"},
                      PageStart(pending.addr) > Threshold
               PROVE  FALSE
    OBVIOUS
  <2>1. pending.kind = "X"  BY <1>1 DEF Right
  <2>2. pending.addr < Threshold  BY <1>1, <2>1 DEF FetchesAreLow
  <2>3. PageStart(pending.addr) <= pending.addr /\ PageStart(pending.addr) \in Nat
    BY <1>1, PageStartBounds
  <2> QED BY <1>1, <2>2, <2>3, SizesAssumption
<1> QED BY <1>1, <1>2, <1>3 DEF PrefetchedPages

(* hpager loses a store only where its prefetch maps over a page: never in *)
(* the page that faulted, and only within Prefetch pages above a fault at  *)
(* or above Threshold (heuristic, and mmap with MAP_FIXED in segv_handler).*)
THEOREM HpagerLosses ==
    ASSUME FetchesAreLow, KeepsToHeaders PROVE Spec => LossIsPrefetch
<1> DEFINE Loss == \A a \in Addr :
                      "W" \in prot[PageStart(a)] /\ mem'[a] # mem[a] /\ ~Store =>
                         /\ pending.addr >= Threshold
                         /\ ~Mapped(pending.addr)
                         /\ PageStart(pending.addr) < PageStart(a)
                         /\ PageStart(a) < PageStart(pending.addr) + Prefetch * PageSize
<1>1. TypeOK /\ PrefetchedPages /\ [Next]_vars => [Loss]_vars
  <2> SUFFICES ASSUME TypeOK, PrefetchedPages, [Next]_vars, NEW a \in Addr,
                      "W" \in prot[PageStart(a)], mem'[a] # mem[a], ~Store
               PROVE  /\ pending.addr >= Threshold
                      /\ ~Mapped(pending.addr)
                      /\ PageStart(pending.addr) < PageStart(a)
                      /\ PageStart(a) < PageStart(pending.addr) + Prefetch * PageSize
    OBVIOUS
  <2>1. HandlerServes  BY OtherSteps
  <2>2. pending \in Accesses /\ pending.addr \in Nat /\ a \in Nat
    BY <2>1, PendingFacts, PageFacts DEF HandlerServes, Faulting
  <2>3. ~Mapped(pending.addr)
    BY <2>1, <2>2, FirstTouch DEF KeepsToHeaders
  <2>4. PageStart(a) # PageStart(pending.addr)
    BY <2>3 DEF Mapped
  <2>5. Reached(a, pending.addr)
    BY <2>1, <2>4, FaultEffect
  <2>6. PageStart(pending.addr) < PageStart(a)  BY <2>5 DEF Reached
  <2> QED BY <2>2, <2>3, <2>5, <2>6, ReachedIsHigh
<1> QED BY <1>1, TypeCorrect, PagesPrefetched, PTL DEF Spec, LossIsPrefetch

----------------------------------------------------------------------------
(* A prefetch that does not overreach is invisible *)

(* What a fault whose pread succeeds puts in a byte of a page it maps.     *)
LEMMA FilledByte ==
    ASSUME TypeOK, Faulting, Serving(pending.addr) # {},
           MapAndFill(Segments[FirstServing(pending.addr)],
                      PageStart(pending.addr), heuristic(pending.addr), TRUE),
           NEW a \in Bytes, Owner(a) = Owner(pending.addr),
           PageStart(a) = PageStart(pending.addr) \/ Reached(a, pending.addr)
    PROVE  mem'[a] = LoadedImage[a]
<1> DEFINE addr == pending.addr
           seg == Segments[FirstServing(addr)]
           cs == heuristic(addr)
           cpy == CopySize(seg, PageStart(addr), cs)
<1>1. addr \in Addr /\ addr \in Nat /\ Serving(addr) # {}
  BY PendingFacts DEF Faulting
<1>2. a \in Addr /\ a \in Nat  BY PageFacts DEF Bytes
<1>3. Owner(a) = seg  BY <1>1, ServingIsOwner
<1>4. PageStart(addr) <= a /\ a < PageStart(addr) + cs
  BY <1>1, <1>2, MappedBytes
<1>5. cs \in Nat  BY <1>1, HeuristicNat
<1>6. a < PageStart(addr) + cpy <=> a - PageStart(seg.vaddr) < seg.filesz
  BY <1>1, <1>2, <1>4, <1>5, CopyBounds
<1>7. mem'[a] = IF a < PageStart(addr) + cpy THEN FileByteAt(seg, a) ELSE 0
  <2>1. MapAndFill(seg, PageStart(addr), cs, TRUE)  OBVIOUS
  <2> HIDE DEF addr, seg, cs
  <2> QED BY <1>2, <1>4, <2>1 DEF MapAndFill
<1>8. LoadedImage[a] = IF a - PageStart(seg.vaddr) < seg.filesz THEN FileByteAt(seg, a) ELSE 0
  BY <1>3 DEF LoadedImage
<1> QED BY <1>6, <1>7, <1>8

(* A fault on an absent page changes nothing the program sees, when its    *)
(* prefetch reaches only absent pages of the same segment.                 *)
LEMMA PrefetchIsInvisible ==
    ASSUME TypeOK, HandlerServes, ~Mapped(pending.addr), ~Overreaches, ~Unread
    PROVE  UNCHANGED View(LoadedImage)
<1>1. /\ Faulting /\ Serving(pending.addr) # {}
      /\ pending.addr \in Addr /\ pending.addr \in Nat
  BY PendingFacts DEF HandlerServes, Faulting
<1>2. MapAndFill(Segments[FirstServing(pending.addr)],
                 PageStart(pending.addr), heuristic(pending.addr), TRUE)
  <2>1. PICK filled \in BOOLEAN :
           MapAndFill(Segments[FirstServing(pending.addr)],
                      PageStart(pending.addr), heuristic(pending.addr), filled)
    BY SizesAssumption DEF HandlerServes
  <2>2. filled # FALSE
    <3> SUFFICES ASSUME filled = FALSE PROVE FALSE
      OBVIOUS
    <3>1. MapAndFill(Segments[FirstServing(pending.addr)],
                     PageStart(pending.addr), heuristic(pending.addr), FALSE)
      BY <2>1
    <3> QED BY <1>1, <3>1 DEF Unread
  <2>3. filled = TRUE  BY <2>2
  <2> QED BY <2>1, <2>3
<1> SUFFICES ASSUME NEW a \in Bytes
             PROVE  (IF Mapped(a) THEN mem[a] ELSE LoadedImage[a])'
                       = IF Mapped(a) THEN mem[a] ELSE LoadedImage[a]
  BY DEF View
<1>3. /\ a \in Addr /\ a \in Nat /\ PageStart(a) \in Page /\ PageStart(a) \in Addr
      /\ PageStart(PageStart(a)) = PageStart(a)
  BY PageFacts DEF Bytes
<1>4. CASE PageStart(a) = PageStart(pending.addr)
  <2>1. Owner(a) = Owner(pending.addr)  BY <1>1, <1>3, <1>4, ServingIsOwner
  <2>2. mem'[a] = LoadedImage[a]  BY <1>1, <1>2, <1>4, <2>1, FilledByte
  <2>3. ~Mapped(a)  BY <1>4 DEF Mapped
  <2>4. Mapped(a)'  BY <1>3, <1>4, FaultEffect DEF Mapped
  <2> QED BY <2>2, <2>3, <2>4
<1>5. CASE Reached(a, pending.addr)
  <2>1. PageStart(a) \in Prefetched(pending.addr)
    BY <1>3, <1>5 DEF Prefetched, Reached
  <2>2. ~Mapped(PageStart(a)) /\ Owners(PageStart(a)) \subseteq Owners(PageStart(pending.addr))
    BY <1>1, <2>1 DEF Overreaches
  <2>3. Owner(a) = Owner(pending.addr)
    <3>1. PICK i \in Owners(PageStart(a)) : TRUE  BY DEF Bytes
    <3>2. PageStart(pending.addr) \in Page  BY <1>1, PageFacts
    <3>3. Owners(PageStart(a)) = {i} /\ Owners(PageStart(pending.addr)) = {i}
      BY <1>3, <2>2, <3>1, <3>2, LayoutAssumption
    <3> QED BY <3>3 DEF Owner
  <2>4. mem'[a] = LoadedImage[a]  BY <1>1, <1>2, <1>5, <2>3, FilledByte
  <2>5. ~Mapped(a)  BY <1>3, <2>2 DEF Mapped
  <2>6. Mapped(a)'  BY <1>3, <1>5, FaultEffect DEF Mapped
  <2> QED BY <2>4, <2>5, <2>6
<1>6. CASE PageStart(a) # PageStart(pending.addr) /\ ~Reached(a, pending.addr)
  BY <1>3, <1>6, FaultEffect DEF Mapped
<1> QED BY <1>4, <1>5, <1>6

(* For every executable, Prefetch and Threshold: of a program that keeps   *)
(* to its headers, hpager shows nothing plain memory would not, but for    *)
(* the faults whose prefetch overreaches and the preads that fail.         *)
THEOREM HpagerHarmless ==
    ASSUME FetchesAreLow PROVE Spec => PrefetchHarmless
<1> DEFINE Harmless == \/ Loaded!Next
                       \/ UNCHANGED Loaded!vars
                       \/ Overreaches
                       \/ Unread
                       \/ pending # NoAccess /\ ~WellBehaved(pending)
<1>1. TypeOK /\ PrefetchedPages /\ [Next]_vars => [Harmless]_vars
  <2> SUFFICES ASSUME TypeOK, PrefetchedPages, [Next]_vars, ~Overreaches, ~Unread,
                      pending # NoAccess => WellBehaved(pending)
               PROVE  Loaded!Next \/ UNCHANGED Loaded!vars
    OBVIOUS
  <2> USE DEF Loaded!Next, Loaded!vars
  <2>1. ASSUME NEW acc \in Accesses, Issue(acc) PROVE Loaded!Next
    BY <2>1, ViewUnchanged DEF Issue, Loaded!Issue
  <2>2. ASSUME pending # NoAccess, Permitted
        PROVE  /\ pending.addr \in Bytes
               /\ View(LoadedImage)[pending.addr] = mem[pending.addr]
    <3>1. pending.addr \in Addr /\ pending.addr \in Bytes
      BY <2>2, PendingFacts, ServingIsOwner DEF WellBehaved
    <3> QED BY <2>2, <3>1 DEF Permitted, View, Mapped
  <2>3. CASE Load
    <3>1. UNCHANGED View(LoadedImage)
      BY <2>3, ViewUnchanged DEF Load
    <3> QED BY <2>2, <2>3, <3>1 DEF Load, Loaded!Load
  <2>4. CASE Store
    <3>1. pending # NoAccess /\ Permitted /\ pending.kind = "W" /\ pending.addr \in Addr
          /\ UNCHANGED prot
      BY <2>4, PendingFacts DEF Store
    <3>2. pending.addr \in Writable
      BY <2>2, <3>1 DEF WellBehaved, Writable
    <3>3. View(LoadedImage)' = [View(LoadedImage) EXCEPT ![pending.addr] = pending.val]
      BY <2>4, <3>1, StoreEffect DEF View, Mapped, Bytes, Permitted
    <3> QED BY <2>4, <3>2, <3>3 DEF Store, Loaded!Store
  <2>5. CASE SyscallRefused
    BY <2>5, ViewUnchanged DEF SyscallRefused, Loaded!Refuse
  <2>6. CASE HandlerExits
    BY <2>6, ViewUnchanged DEF HandlerExits, Faulting, Loaded!Exit
  <2>7. CASE HandlerGivesUp
    BY <2>7, ViewUnchanged DEF HandlerGivesUp, vars
  <2>8. CASE HandlerServes
    <3>1. ~Mapped(pending.addr)
      BY <2>8, FirstTouch DEF HandlerServes, Faulting
    <3> QED BY <2>8, <3>1, PrefetchIsInvisible DEF HandlerServes
  <2>9. CASE UNCHANGED vars
    BY <2>9, ViewUnchanged DEF vars
  <2> QED
    BY <2>1, <2>3, <2>4, <2>5, <2>6, <2>7, <2>8, <2>9 DEF Next, Hardware, segv_handler
<1> QED BY <1>1, TypeCorrect, PagesPrefetched, PTL DEF Spec, PrefetchHarmless

----------------------------------------------------------------------------
(* Sums over pages: MapThenSumSet takes out one page after the other, and  *)
(* which one first makes no difference. Each lemma is by the least size of *)
(* a set it would fail for.                                                *)

Total(S) == MapThenSumSet(FilePart, S)

LEMMA Least ==
    ASSUME NEW S, S \subseteq Nat, S # {}
    PROVE  \E n \in S : \A m \in S : n <= m
<1>1. PICK n \in S : \A m \in S : <<m, n>> \notin OpToRel(<, Nat)
  BY NatLessThanWellFounded, WFMin
<1>2. ASSUME NEW m \in S PROVE n <= m
  <2>1. ~(m < n)
    BY <1>1 DEF OpToRel
  <2> QED BY <2>1
<1> QED BY <1>2

Pick(s) == CHOOSE x \in s : TRUE

(* What g makes of s, from what it says of smaller sets *)
SumStep(g, s) == IF s = {} THEN 0 ELSE FilePart(Pick(s)) + g[s \ {Pick(s)}]

IsSum(g, D) == g = [s \in D |-> SumStep(g, s)]

(* The sets of at most n pages of S *)
Small(S, n) == {s \in SUBSET S : Cardinality(s) <= n}

LEMMA SmallSets ==
    ASSUME NEW S, IsFiniteSet(S), NEW s \in SUBSET S
    PROVE  /\ IsFiniteSet(s) /\ Cardinality(s) \in Nat
           /\ Cardinality(s) = 0 <=> s = {}
           /\ \A x \in s : s \ {x} \in SUBSET S /\ Cardinality(s \ {x}) = Cardinality(s) - 1
           /\ s # {} => Pick(s) \in s
<1>1. IsFiniteSet(s) /\ Cardinality(s) \in Nat
  BY FS_Subset, FS_CardinalityType
<1>2. Cardinality(s) = 0 <=> s = {}
  BY <1>1, FS_EmptySet
<1>3. \A x \in s : Cardinality(s \ {x}) = Cardinality(s) - 1
  BY <1>1, FS_RemoveElement
<1>4. s # {} => Pick(s) \in s
  BY DEF Pick
<1> QED BY <1>1, <1>2, <1>3, <1>4

LEMMA SumExists ==
    ASSUME NEW S, IsFiniteSet(S)
    PROVE  \E g : IsSum(g, SUBSET S)
<1> DEFINE Bad == {n \in Nat : ~ \E g : IsSum(g, Small(S, n))}
<1>1. ASSUME Bad # {} PROVE FALSE
  <2>1. PICK n \in Bad : \A k \in Bad : n <= k
    BY <1>1, Least
  <2>2. n # 0
    <3>1. SUFFICES ASSUME n = 0 PROVE FALSE
      OBVIOUS
    <3> DEFINE g == [s \in Small(S, 0) |-> 0]
    <3>2. \A s \in Small(S, 0) : s = {}
      BY SmallSets DEF Small
    <3>3. IsSum(g, Small(S, 0))
      BY <3>2 DEF IsSum, SumStep
    <3> QED BY <2>1, <3>1, <3>3
  <2>3. n - 1 \in Nat /\ n \in Nat /\ n - 1 \notin Bad
    BY <2>1, <2>2
  <2>4. PICK g : IsSum(g, Small(S, n - 1))
    BY <2>3
  <2> DEFINE f == [s \in Small(S, n) |-> SumStep(g, s)]
  <2>5. \A s \in Small(S, n - 1) : s \in Small(S, n) /\ g[s] = f[s]
    <3>1. \A s \in Small(S, n - 1) : s \in Small(S, n)
      BY <2>3, SmallSets DEF Small
    <3>2. \A s \in Small(S, n - 1) : g[s] = SumStep(g, s)
      BY <2>4 DEF IsSum
    <3> QED BY <3>1, <3>2
  <2>6. \A s \in Small(S, n) : s # {} => s \ {Pick(s)} \in Small(S, n - 1)
    BY <2>3, SmallSets DEF Small
  <2> HIDE DEF f
  <2>7. \A s \in Small(S, n) : SumStep(g, s) = SumStep(f, s)
    BY <2>5, <2>6 DEF SumStep
  <2>8. IsSum(f, Small(S, n))
    BY <2>7 DEF IsSum, f
  <2> QED BY <2>1, <2>8
<1>2. Cardinality(S) \in Nat /\ Cardinality(S) \notin Bad
  BY <1>1, FS_CardinalityType
<1>3. Small(S, Cardinality(S)) = SUBSET S
  BY FS_Subset DEF Small
<1> QED BY <1>2, <1>3

(* The parts of the file are sizes. *)
LEMMA PartsAreSizes ==
    ASSUME NEW p \in Page
    PROVE  FilePart(p) \in Nat
<1>1. PICK c \in Addr : p = PageStart(c)
  BY DEF Page
<1>2. p \in Addr /\ p \in Nat /\ PageStart(p) = p
  BY <1>1, PageFacts
<1>3. CASE Owners(p) = {}
  BY <1>3 DEF FilePart
<1>4. CASE Owners(p) # {}
  <2> DEFINE i == CHOOSE i \in Owners(p) : TRUE
             seg == Segments[i]
  <2>1. i \in Owners(p)
    BY <1>4
  <2>2. PICK b \in Addr : PageStart(b) = p /\ Serves(i, b)
    BY <2>1 DEF Owners
  <2>3. i \in DOMAIN Segments
    BY <2>1 DEF Owners
  <2>4. Owner(p) = seg
    BY <1>2 DEF Owner
  <2> HIDE DEF i
  <2>5. seg.vaddr \in Nat /\ seg.filesz \in Nat /\ PageStart(seg.vaddr) \in Nat /\ seg.vaddr <= b /\ b \in Nat
    BY <2>2, <2>3, HeaderFacts, PageFacts DEF Serves
  <2>6. PageStart(seg.vaddr) <= p
    BY <2>2, <2>5, PageStartMonotone
  <2>7. PageSize \in Nat
    BY PagesAssumption
  <2> HIDE DEF seg
  <2>8. CopySize(seg, p, PageSize) \in Nat
    BY <1>2, <2>5, <2>6, <2>7 DEF CopySize
  <2> QED BY <1>4, <2>4, <2>8 DEF FilePart
<1> QED BY <1>3, <1>4

LEMMA PagesFinite == IsFiniteSet(Page)
<1>1. IsFiniteSet(Addr)
  BY PagesAssumption, FS_Interval DEF Addr
<1>2. Page \subseteq Addr
  BY PageFacts DEF Page
<1> QED BY <1>1, <1>2, FS_Subset

(* A sum does not depend on which page comes first. *)
LEMMA SumAdds ==
    ASSUME NEW g, IsSum(g, SUBSET Page)
    PROVE  \A s \in SUBSET Page : /\ g[s] \in Nat
                               /\ \A x \in s : g[s] = FilePart(x) + g[s \ {x}]
<1> DEFINE Good(s) == /\ g[s] \in Nat
                      /\ \A x \in s : g[s] = FilePart(x) + g[s \ {x}]
           Bad == {n \in Nat : \E s \in SUBSET Page : Cardinality(s) = n /\ ~Good(s)}
<1>1. IsFiniteSet(Page)
  BY PagesFinite
<1>2. \A s \in SUBSET Page : /\ Cardinality(s) \in Nat
                             /\ \A x \in s : /\ s \ {x} \in SUBSET Page
                                            /\ Cardinality(s \ {x}) = Cardinality(s) - 1
  BY <1>1, SmallSets
<1>3. \A s \in SUBSET Page : g[s] = SumStep(g, s)
  BY DEF IsSum
<1>4. ASSUME Bad # {} PROVE FALSE
  <2>1. PICK n \in Bad : \A k \in Bad : n <= k
    BY <1>4, Least
  <2>2. PICK s \in SUBSET Page : Cardinality(s) = n /\ ~Good(s)
    BY <2>1
  <2>3. \A t \in SUBSET Page : Cardinality(t) < n => Good(t)
    <3>1. \A t \in SUBSET Page : Cardinality(t) \in Nat
      BY <1>1, SmallSets
    <3> QED BY <2>1, <3>1
  <2> HIDE DEF Good, Bad
  <2>4. s # {}
    <3>1. SUFFICES ASSUME s = {} PROVE FALSE
      OBVIOUS
    <3>2. g[s] = 0
      BY <1>3, <3>1 DEF SumStep
    <3> QED BY <2>2, <3>1, <3>2 DEF Good
  <2> DEFINE y == Pick(s)
  <2>5. y \in s /\ y \in Page /\ g[s] = FilePart(y) + g[s \ {y}]
    BY <1>1, <1>3, <2>4, SmallSets DEF SumStep
  <2> HIDE DEF y
  <2>6. \A x \in s : Good(s \ {x}) /\ s \ {x} \in SUBSET Page /\ x \in Page
    <3>1. Cardinality(s) \in Nat /\ \A x \in s : Cardinality(s \ {x}) = Cardinality(s) - 1
      BY <1>1, SmallSets
    <3> QED BY <2>2, <2>3, <3>1
  <2>7. g[s] \in Nat
    BY <2>5, <2>6, PartsAreSizes DEF Good
  <2>8. ASSUME NEW x \in s PROVE g[s] = FilePart(x) + g[s \ {x}]
    <3>1. CASE x = y
      BY <2>5, <3>1
    <3>2. CASE x # y
      <4>1. x \in s \ {y} /\ y \in s \ {x} /\ (s \ {y}) \ {x} = (s \ {x}) \ {y}
        BY <2>5, <3>2
      <4>2. g[s \ {y}] = FilePart(x) + g[(s \ {y}) \ {x}]
        BY <2>5, <2>6, <4>1 DEF Good
      <4>3. g[s \ {x}] = FilePart(y) + g[(s \ {x}) \ {y}]
        BY <2>6, <4>1 DEF Good
      <4>4. (s \ {x}) \ {y} \in SUBSET Page /\ g[(s \ {x}) \ {y}] \in Nat
        <5>1. Cardinality(s \ {x}) = Cardinality(s) - 1 /\ Cardinality(s) \in Nat
          BY <1>1, SmallSets
        <5>2. Cardinality((s \ {x}) \ {y}) = Cardinality(s \ {x}) - 1
          BY <1>2, <2>6, <4>1
        <5> QED BY <2>2, <2>3, <5>1, <5>2 DEF Good
      <4>5. FilePart(x) \in Nat /\ FilePart(y) \in Nat
        BY <2>5, <2>6, PartsAreSizes
      <4>6. \A a, b, c \in Nat : b + (a + c) = a + (b + c)
        OBVIOUS
      <4>7. g[s] = FilePart(y) + (FilePart(x) + g[(s \ {x}) \ {y}])
        BY <2>5, <4>1, <4>2
      <4>8. g[s] = FilePart(x) + (FilePart(y) + g[(s \ {x}) \ {y}])
        BY <4>4, <4>5, <4>6, <4>7
      <4> QED BY <4>3, <4>8
    <3> QED BY <3>1, <3>2
  <2> QED BY <2>2, <2>7, <2>8 DEF Good
<1> QED BY <1>2, <1>4

(* Nor on the pages that are not in it. *)
LEMMA SumSame ==
    ASSUME NEW T \in SUBSET Page, NEW g, NEW h,
           IsSum(g, SUBSET Page), IsSum(h, SUBSET T)
    PROVE  \A s \in SUBSET T : h[s] = g[s]
<1> DEFINE Bad == {n \in Nat : \E s \in SUBSET T : Cardinality(s) = n /\ h[s] # g[s]}
<1>1. IsFiniteSet(T)
  BY PagesFinite, FS_Subset
<1>2. ASSUME Bad # {} PROVE FALSE
  <2>1. PICK n \in Bad : \A k \in Bad : n <= k
    BY <1>2, Least
  <2>2. PICK s \in SUBSET T : Cardinality(s) = n /\ h[s] # g[s]
    BY <2>1
  <2>3. \A t \in SUBSET T : Cardinality(t) < n => h[t] = g[t]
    <3>1. \A t \in SUBSET T : Cardinality(t) \in Nat
      BY <1>1, SmallSets
    <3> QED BY <2>1, <3>1
  <2>4. h[s] = SumStep(h, s) /\ g[s] = SumStep(g, s)
    BY DEF IsSum
  <2>5. s # {}
    BY <2>2, <2>4 DEF SumStep
  <2>6. h[s \ {Pick(s)}] = g[s \ {Pick(s)}]
    <3>1. /\ Cardinality(s) \in Nat /\ Pick(s) \in s
          /\ s \ {Pick(s)} \in SUBSET T /\ Cardinality(s \ {Pick(s)}) = Cardinality(s) - 1
      BY <1>1, <2>5, SmallSets
    <3> QED BY <2>2, <2>3, <3>1
  <2> QED BY <2>2, <2>4, <2>6 DEF SumStep
<1>3. \A s \in SUBSET T : Cardinality(s) \in Nat
  BY <1>1, SmallSets
<1> QED BY <1>2, <1>3

LEMMA TotalIs ==
    ASSUME NEW S \in SUBSET Page
    PROVE  \E g : IsSum(g, SUBSET S) /\ Total(S) = g[S]
<1>1. IsFiniteSet(S)
  BY PagesFinite, FS_Subset
<1> DEFINE g == CHOOSE g : IsSum(g, SUBSET S)
<1>2. IsSum(g, SUBSET S)
  BY <1>1, SumExists
<1>3. Total(S) = g[S]
  BY DEF Total, MapThenSumSet, MapThenFoldSet, IsSum, SumStep, Pick
<1> QED BY <1>2, <1>3

LEMMA TotalFacts ==
    /\ Total({}) = 0
    /\ \A S \in SUBSET Page : Total(S) \in Nat
    /\ \A S \in SUBSET Page : \A p \in Page \ S : Total(S \cup {p}) = Total(S) + FilePart(p)
<1>1. PICK g : IsSum(g, SUBSET Page)
  BY PagesFinite, SumExists
<1>2. \A S \in SUBSET Page : Total(S) = g[S]
  <2> SUFFICES ASSUME NEW S \in SUBSET Page PROVE Total(S) = g[S]
    OBVIOUS
  <2>1. PICK h : IsSum(h, SUBSET S) /\ Total(S) = h[S]
    BY TotalIs
  <2>2. \A s \in SUBSET S : h[s] = g[s]
    BY <1>1, <2>1, SumSame
  <2> QED BY <2>1, <2>2
<1>3. \A S \in SUBSET Page : g[S] \in Nat /\ \A p \in S : g[S] = FilePart(p) + g[S \ {p}]
  BY <1>1, SumAdds
<1>4. g[{}] = 0
  BY <1>1 DEF IsSum, SumStep
<1>5. ASSUME NEW S \in SUBSET Page, NEW p \in Page \ S
      PROVE  Total(S \cup {p}) = Total(S) + FilePart(p)
  <2>1. S \cup {p} \in SUBSET Page /\ p \in S \cup {p} /\ (S \cup {p}) \ {p} = S
    OBVIOUS
  <2>2. g[S \cup {p}] = FilePart(p) + g[S]
    BY <1>3, <2>1
  <2> QED BY <1>2, <1>3, <2>1, <2>2, PartsAreSizes
<1> QED BY <1>2, <1>3, <1>4, <1>5

LEMMA TotalGrows ==
    ASSUME NEW T \in SUBSET Page
    PROVE  \A S \in SUBSET T : Total(S) <= Total(T)
<1> DEFINE Bad == {n \in Nat : \E S \in SUBSET T : Cardinality(T \ S) = n /\ ~(Total(S) <= Total(T))}
<1>1. /\ \A S \in SUBSET T : Total(S) \in Nat
      /\ \A S \in SUBSET T : \A p \in T \ S :
            Total(S \cup {p}) = Total(S) + FilePart(p) /\ FilePart(p) \in Nat
  BY TotalFacts, PartsAreSizes
<1>2. IsFiniteSet(T)
  BY PagesFinite, FS_Subset
<1>3. \A S \in SUBSET T : Cardinality(T \ S) \in Nat
  BY <1>2, SmallSets
<1>4. ASSUME Bad # {} PROVE FALSE
  <2>1. PICK n \in Bad : \A k \in Bad : n <= k
    BY <1>4, Least
  <2>2. PICK S \in SUBSET T : Cardinality(T \ S) = n /\ ~(Total(S) <= Total(T))
    BY <2>1
  <2>3. \A R \in SUBSET T : Cardinality(T \ R) < n => Total(R) <= Total(T)
    BY <1>3, <2>1
  <2> HIDE DEF Bad
  <2>4. PICK p \in T \ S : TRUE
    <3>1. CASE S = T
      <4>1. Total(T) <= Total(T)
        BY <1>1
      <4> QED BY <2>2, <3>1, <4>1
    <3> QED BY <3>1
  <2>5. Cardinality(T \ (S \cup {p})) < n
    <3>1. T \ (S \cup {p}) = (T \ S) \ {p} /\ T \ S \in SUBSET T
      OBVIOUS
    <3>2. Cardinality((T \ S) \ {p}) = Cardinality(T \ S) - 1
      BY <1>2, <2>4, <3>1, SmallSets
    <3> QED BY <1>3, <2>2, <3>1, <3>2
  <2>6. Total(S \cup {p}) <= Total(T)
    BY <2>3, <2>4, <2>5
  <2>7. Total(S) <= Total(S \cup {p}) /\ Total(S \cup {p}) \in Nat
    BY <1>1, <2>4
  <2> QED BY <1>1, <2>2, <2>6, <2>7
<1> QED BY <1>3, <1>4

----------------------------------------------------------------------------
(* How much the pagers read *)

Resident == {p \in Page : prot[p] # {}}

(* A fault brings in its page, and reads no more than Prefetch times that  *)
(* page's part of the file.                                                *)
LEMMA FaultReads ==
    ASSUME TypeOK, HandlerServes
    PROVE  LET p == PageStart(pending.addr)
               cpy == CopySize(Segments[FirstServing(pending.addr)], p, heuristic(pending.addr))
           IN  /\ p \in Page /\ p \in Resident'
               /\ totalsize' = IF totalsize + cpy <= MaxTotal THEN totalsize + cpy ELSE MaxTotal
               /\ cpy \in Nat /\ cpy <= Prefetch * FilePart(p)
               /\ Prefetch = 1 => cpy = FilePart(p)
<1> DEFINE addr == pending.addr
           p == PageStart(addr)
           seg == Segments[FirstServing(addr)]
           csize == heuristic(addr)
           cpy == CopySize(seg, p, csize)
<1>1. addr \in Addr /\ addr \in Nat /\ Serving(addr) # {}
  BY PendingFacts DEF HandlerServes, Faulting
<1>2. /\ p \in Page /\ p \in Addr /\ p \in Nat /\ PageStart(p) = p
  BY <1>1, PageFacts
<1>3. PICK filled \in BOOLEAN : MapAndFill(seg, p, csize, filled)
  BY SizesAssumption DEF HandlerServes
<1>4. /\ FirstServing(addr) \in DOMAIN Segments /\ Serves(FirstServing(addr), addr)
      /\ p \in Bytes /\ Owner(p) = seg
  BY <1>1, <1>2, ServingIsOwner
<1>5. FilePart(p) = CopySize(seg, p, PageSize)
  BY <1>2, <1>4 DEF FilePart, Bytes
<1>6. /\ seg.filesz \in Nat /\ PageStart(seg.vaddr) \in Nat /\ PageStart(seg.vaddr) <= p
  <2>1. seg.vaddr \in Nat /\ seg.filesz \in Nat /\ PageStart(seg.vaddr) \in Nat /\ seg.vaddr <= addr
    BY <1>1, <1>4, HeaderFacts DEF Serves
  <2> QED BY <1>1, <2>1, PageStartMonotone
<1>7. /\ csize \in Nat /\ csize <= Prefetch * PageSize
      /\ PageSize \in Nat /\ Prefetch \in Nat \ {0} /\ Prefetch * PageSize \in Nat
  BY <1>1, HeuristicPages, PagesAssumption, SizesAssumption
<1>8. (Prefetch = 1 => csize = PageSize)
  BY <1>7 DEF heuristic
<1>9. p \in Resident'
  <2>1. (prot')[p] # {}
    BY <1>1, <1>2, FaultEffect
  <2> QED BY <1>2, <2>1 DEF Resident
<1>10. totalsize' = IF totalsize + cpy <= MaxTotal THEN totalsize + cpy ELSE MaxTotal
  <2> HIDE DEF addr, seg, p, csize
  <2> QED BY <1>3 DEF MapAndFill
<1> HIDE DEF addr, seg, p, csize
<1>11. cpy \in Nat /\ cpy <= Prefetch * CopySize(seg, p, PageSize)
  <2> DEFINE left == seg.filesz - (p - PageStart(seg.vaddr))
  <2>1. left \in Int
    BY <1>2, <1>6
  <2>2. \A c \in Nat : CopySize(seg, p, c) = IF left <= 0 THEN 0 ELSE IF c > left THEN left ELSE c
    BY <1>2, <1>6 DEF CopySize
  <2> HIDE DEF left
  <2>3. CASE left <= 0
    <3>1. cpy = 0 /\ CopySize(seg, p, PageSize) = 0
      BY <1>7, <2>2, <2>3
    <3> QED BY <1>7, <3>1
  <2>4. CASE left > 0 /\ PageSize > left
    <3>1. CopySize(seg, p, PageSize) = left /\ cpy \in Nat /\ cpy <= left /\ left \in Nat
      BY <1>7, <2>1, <2>2, <2>4
    <3>2. \A n \in Nat \ {0}, k \in Nat : k <= n * k
      <4>1. \A n \in Nat \ {0} : n - 1 \in Nat
        OBVIOUS
      <4>2. \A n \in Nat \ {0}, k \in Nat : n * k = (n - 1) * k + k /\ (n - 1) * k \in Nat
        BY <4>1
      <4> QED BY <4>2
    <3>3. left <= Prefetch * left /\ Prefetch * left \in Nat
      BY <1>7, <3>1, <3>2
    <3> QED BY <3>1, <3>3
  <2>5. CASE left > 0 /\ ~(PageSize > left)
    <3>1. CopySize(seg, p, PageSize) = PageSize /\ cpy \in Nat /\ cpy <= csize
      BY <1>7, <2>1, <2>2, <2>5
    <3> QED BY <1>7, <3>1
  <2> QED BY <2>1, <2>3, <2>4, <2>5
<1>12. Prefetch = 1 => cpy = FilePart(p)
  BY <1>5, <1>8
<1> QED BY <1>2, <1>5, <1>9, <1>10, <1>11, <1>12 DEF addr, seg, p, csize

LEMMA PagesAreStarts ==
    ASSUME NEW q \in Page
    PROVE  q \in Addr /\ PageStart(q) = q
<1>1. PICK b \in Addr : q = PageStart(b)
  BY DEF Page
<1> QED BY <1>1, PageFacts

LEMMA OtherReads ==
    ASSUME TypeOK, [Next]_vars, ~HandlerServes
    PROVE  Resident' = Resident /\ totalsize' = totalsize
<1>1. totalsize' = totalsize
  <2>1. ASSUME NEW acc \in Accesses, Issue(acc) PROVE UNCHANGED totalsize
    BY <2>1 DEF Issue
  <2>2. CASE Load  BY <2>2 DEF Load
  <2>3. CASE Store  BY <2>3 DEF Store
  <2>4. CASE SyscallRefused  BY <2>4 DEF SyscallRefused
  <2>5. CASE HandlerExits  BY <2>5 DEF HandlerExits
  <2>6. CASE HandlerGivesUp  BY <2>6 DEF HandlerGivesUp, vars
  <2>7. CASE UNCHANGED vars  BY <2>7 DEF vars
  <2> QED BY <2>1, <2>2, <2>3, <2>4, <2>5, <2>6, <2>7 DEF Next, Hardware, segv_handler
<1>2. prot' = prot
  BY OtherSteps
<1> QED BY <1>1, <1>2 DEF Resident

(* A fault of dpager brings in the page of its address and no other, for   *)
(* the first time when the access is one the headers allow.                *)
LEMMA OnePageMore ==
    ASSUME Prefetch = 1, TypeOK, PagesOwned, HandlerServes, WellBehaved(pending)
    PROVE  /\ PageStart(pending.addr) \in Page \ Resident
           /\ Resident' = Resident \cup {PageStart(pending.addr)}
<1> DEFINE p == PageStart(pending.addr)
<1>1. /\ pending.addr \in Addr /\ p \in Page
      /\ pending.kind \notin prot[p]
  BY PendingFacts DEF HandlerServes, Faulting, Permitted
<1>2. prot[p] = {}
  BY <1>1 DEF PagesOwned, Mapped, WellBehaved
<1>3. p \in Resident'
  BY FaultReads
<1>4. ASSUME NEW q \in Page, q # p
      PROVE  prot'[q] = prot[q]
  <2>1. q \in Addr /\ PageStart(q) = q
    BY PagesAreStarts
  <2> QED BY <1>4, <2>1, OnePageFault
<1>5. Resident' = Resident \cup {p}
  <2> HIDE DEF p
  <2> QED BY <1>1, <1>3, <1>4 DEF Resident
<1> QED BY <1>1, <1>2, <1>5 DEF Resident

(* dpager reads each page's part of the file once and nothing else, so the *)
(* total it prints is what it has put in memory (totalsize in segv_handler)*)
(* provided the program makes only accesses its headers allow: a store to  *)
(* read-only memory reads the page again at every fault.                   *)
THEOREM DpagerReadsOnce ==
    ASSUME Prefetch = 1, KeepsToHeaders, MapThenSumSet(FilePart, Page) <= MaxTotal
    PROVE  Spec => []TotalIsResident
<1>0. ASSUME NEW S \in SUBSET Page
      PROVE  Total(S) \in Nat /\ Total(S) <= MaxTotal
  <2>1. Total(S) <= Total(Page) /\ Total(S) \in Nat /\ Total(Page) \in Nat
    BY TotalFacts, TotalGrows
  <2>2. Total(Page) <= MaxTotal  BY DEF Total
  <2> QED BY <2>1, <2>2, SizesAssumption
<1>1. Init => TotalIsResident
  <2> SUFFICES ASSUME Init PROVE totalsize = Total(Resident)
    BY DEF TotalIsResident, Total, Resident
  <2>1. Resident = {}  BY DEF Init, Resident
  <2> QED BY <2>1, TotalFacts DEF Init
<1>2. TypeOK /\ PagesOwned /\ TotalIsResident /\ [Next]_vars => TotalIsResident'
  <2> SUFFICES ASSUME TypeOK, PagesOwned, totalsize = Total(Resident), [Next]_vars
               PROVE  totalsize' = Total(Resident')
    BY DEF TotalIsResident, Total, Resident
  <2>1. CASE HandlerServes
    <3> DEFINE p == PageStart(pending.addr)
    <3>1. WellBehaved(pending)
      BY <2>1, PendingFacts DEF HandlerServes, Faulting, KeepsToHeaders
    <3>2. p \in Page \ Resident /\ Resident' = Resident \cup {p}
      BY <2>1, <3>1, OnePageMore
    <3>3. /\ totalsize' = IF totalsize + FilePart(p) <= MaxTotal
                          THEN totalsize + FilePart(p) ELSE MaxTotal
      BY <2>1, FaultReads
    <3> HIDE DEF p
    <3>4. Resident \in SUBSET Page /\ Resident \cup {p} \in SUBSET Page
      BY <3>2 DEF Resident
    <3>5. Total(Resident \cup {p}) = Total(Resident) + FilePart(p)
      BY <3>2, <3>4, TotalFacts
    <3>6. Total(Resident \cup {p}) <= MaxTotal
      BY <1>0, <3>4
    <3> QED BY <3>2, <3>3, <3>5, <3>6
  <2>2. CASE ~HandlerServes
    BY <2>2, OtherReads
  <2> QED BY <2>1, <2>2
<1> QED BY <1>1, <1>2, TypeCorrect, DpagerPages, PTL DEF Spec

(* What hpager has read is within Prefetch times what is in memory.        *)
ReadsPaid == totalsize <= Prefetch * Total(Resident)

(* hpager may read a page again that it prefetched, but only within what   *)
(* the first touch of a page pays for: Prefetch times the file in all.     *)
THEOREM HpagerReadsBounded ==
    ASSUME FetchesAreLow, KeepsToHeaders PROVE Spec => []TotalIsBounded
<1>0. Prefetch \in Nat /\ MaxTotal \in Nat  BY SizesAssumption
<1>m. \A a, b \in Nat : /\ Prefetch * a \in Nat
                        /\ Prefetch * (a + b) = Prefetch * a + Prefetch * b
                        /\ (a <= b => Prefetch * a <= Prefetch * b)
  <2>1. \A a, b \in Nat : Prefetch * a \in Nat /\ Prefetch * (a + b) = Prefetch * a + Prefetch * b
    BY <1>0
  <2>2. \A a, b \in Nat : a <= b => b - a \in Nat /\ b = a + (b - a)
    OBVIOUS
  <2>3. \A a, b \in Nat : a <= b => Prefetch * b = Prefetch * a + Prefetch * (b - a)
    BY <2>1, <2>2
  <2> QED BY <1>0, <2>1, <2>2, <2>3
<1>1. Init => ReadsPaid
  <2> SUFFICES ASSUME Init PROVE ReadsPaid
    OBVIOUS
  <2>1. Resident = {}  BY DEF Init, Resident
  <2>2. totalsize = 0 /\ Total(Resident) = 0  BY <2>1, TotalFacts DEF Init
  <2> QED BY <1>0, <2>2 DEF ReadsPaid
<1>2. TypeOK /\ PrefetchedPages /\ ReadsPaid /\ [Next]_vars => ReadsPaid'
  <2> SUFFICES ASSUME TypeOK, PrefetchedPages, ReadsPaid, [Next]_vars PROVE ReadsPaid'
    OBVIOUS
  <2>1. CASE HandlerServes
    <3> DEFINE p == PageStart(pending.addr)
               cpy == CopySize(Segments[FirstServing(pending.addr)], p, heuristic(pending.addr))
    <3>1. WellBehaved(pending) /\ pending.addr \in Addr
      BY <2>1, PendingFacts DEF HandlerServes, Faulting, KeepsToHeaders
    <3>2. /\ p \in Page /\ p \in Resident'
          /\ totalsize' = IF totalsize + cpy <= MaxTotal THEN totalsize + cpy ELSE MaxTotal
          /\ cpy \in Nat /\ cpy <= Prefetch * FilePart(p)
      BY <2>1, FaultReads
    <3>3. p \notin Resident
      BY <2>1, <3>1, FirstTouch DEF Mapped, Resident
    <3> HIDE DEF p, cpy
    <3>4. Resident \cup {p} \in SUBSET Resident'
      <4> SUFFICES ASSUME NEW q \in Resident PROVE q \in Resident'
        BY <3>2
      <4>1. q \in Page /\ q \in Addr /\ PageStart(q) = q /\ prot[q] # {}
        BY PagesAreStarts DEF Resident
      <4>2. prot'[q] # {}
        BY <2>1, <4>1, FaultEffect
      <4> QED BY <4>1, <4>2 DEF Resident
    <3>5. Resident' \in SUBSET Page /\ Resident \in SUBSET Page /\ Resident \cup {p} \in SUBSET Page
      BY <3>2 DEF Resident
    <3>6. Total(Resident \cup {p}) = Total(Resident) + FilePart(p)
      BY <3>2, <3>3, <3>5, TotalFacts
    <3>7. Total(Resident \cup {p}) <= Total(Resident')
      BY <3>4, <3>5, TotalGrows
    <3>8. /\ Total(Resident) \in Nat /\ Total(Resident') \in Nat
          /\ Total(Resident \cup {p}) \in Nat /\ FilePart(p) \in Nat
      BY <3>2, <3>5, TotalFacts, PartsAreSizes
    <3>9. Prefetch * Total(Resident) + Prefetch * FilePart(p) <= Prefetch * Total(Resident')
      <4>1. Prefetch * Total(Resident \cup {p}) <= Prefetch * Total(Resident')
        BY <1>m, <3>7, <3>8
      <4> QED BY <1>m, <3>6, <3>8, <4>1
    <3>10. totalsize' <= totalsize + cpy /\ totalsize \in Nat
      <4>1. totalsize \in Nat  BY <1>0 DEF TypeOK
      <4> QED BY <1>0, <3>2, <4>1
    <3>11. totalsize' \in Nat  BY <1>0, <3>2, <3>10
    <3>12. /\ Prefetch * Total(Resident) \in Nat /\ Prefetch * Total(Resident') \in Nat
           /\ Prefetch * FilePart(p) \in Nat
      BY <1>m, <3>8
    <3>13. totalsize <= Prefetch * Total(Resident)  BY DEF ReadsPaid
    <3>14. totalsize' <= Prefetch * Total(Resident')
      BY <3>2, <3>9, <3>10, <3>11, <3>12, <3>13
    <3> QED BY <3>14 DEF ReadsPaid
  <2>2. CASE ~HandlerServes
    BY <2>2, OtherReads DEF ReadsPaid
  <2> QED BY <2>1, <2>2
<1>3. TypeOK /\ ReadsPaid => TotalIsBounded
  <2> SUFFICES ASSUME TypeOK, ReadsPaid PROVE TotalIsBounded
    OBVIOUS
  <2>1. Resident \in SUBSET Page  BY DEF Resident
  <2>2. Total(Resident) \in Nat /\ Total(Page) \in Nat /\ Total(Resident) <= Total(Page)
    BY <2>1, TotalFacts, TotalGrows
  <2>3. /\ Prefetch * Total(Resident) <= Prefetch * Total(Page)
        /\ Prefetch * Total(Resident) \in Nat /\ Prefetch * Total(Page) \in Nat
    BY <1>m, <2>2
  <2>4. totalsize \in Nat  BY <1>0 DEF TypeOK
  <2>5. totalsize <= Prefetch * Total(Page)
    BY <2>3, <2>4 DEF ReadsPaid
  <2> QED BY <2>5 DEF TotalIsBounded, Total
<1> QED BY <1>1, <1>2, <1>3, TypeCorrect, PagesPrefetched, PTL DEF Spec
=============================================================================
