------------------------- MODULE EagerLoaderProofs -------------------------
(***************************************************************************)
(* Theorems about the loops of apager.c and loader.c, for every page size, *)
(* every well-formed executable and any number of failing mmaps.           *)
(***************************************************************************)
EXTENDS EagerLoader, PageProofs

LEMMA PageAlignBounds ==
    ASSUME NEW x \in Nat
    PROVE  /\ PageAlign(x) \in Nat
           /\ x <= PageAlign(x) /\ PageAlign(x) < x + PageSize
           /\ \E q \in Nat : PageAlign(x) = q * PageSize
<1>1. PageSize \in Nat \ {0}  BY PagesAssumption
<1>2. x + PageSize - 1 \in Nat  BY <1>1
<1>3. \E q \in Nat : PageAlign(x) = q * PageSize  BY <1>2, Multiple DEF PageAlign
<1>4. /\ PageAlign(x) \in Nat /\ PageAlign(x) <= x + PageSize - 1
      /\ x + PageSize - 1 < PageAlign(x) + PageSize
  BY <1>2, PageStartBounds DEF PageAlign
<1> QED BY <1>1, <1>3, <1>4

(* A multiple of the page size at most a page above x is x rounded up. *)
LEMMA PageAlignUnique ==
    ASSUME NEW x \in Nat, NEW q \in Nat, x <= q * PageSize, q * PageSize < x + PageSize
    PROVE  PageAlign(x) = q * PageSize
<1>1. PICK r \in Nat : PageAlign(x) = r * PageSize  BY PageAlignBounds
<1>2. PageSize \in Nat \ {0} /\ q * PageSize \in Nat  BY PagesAssumption
<1>3. x <= r * PageSize /\ r * PageSize < x + PageSize /\ r * PageSize \in Nat
  BY <1>1, PageAlignBounds
<1>4. CASE q < r  BY <1>2, <1>3, <1>4, BetweenMultiples
<1>5. CASE r < q  BY <1>2, <1>3, <1>5, BetweenMultiples
<1> QED BY <1>1, <1>4, <1>5

LEMMA PageAlignMonotone ==
    ASSUME NEW x \in Nat, NEW y \in Nat, x <= y
    PROVE  PageAlign(x) <= PageAlign(y)
<1>1. PageSize \in Nat \ {0}  BY PagesAssumption
<1>2. x + PageSize - 1 \in Nat /\ y + PageSize - 1 \in Nat  BY <1>1
<1> QED BY <1>1, <1>2, PageStartMonotone DEF PageAlign
----------------------------------------------------------------------------
(* What a program header of a segment must satisfy by itself *)
Sound(seg) ==
    /\ seg \in Header
    /\ seg.filesz <= seg.memsz
    /\ PageAlign(End(seg)) + PageSize <= MaxAddr

FileEnd(seg) == PageAlign(seg.vaddr + seg.filesz)

(* Where the mappings of a header lie: the file's pages from First to      *)
(* FileEnd, the zeroed ones from there to the end of the segment or a page *)
(* further.                                                                *)
LEMMA Geometry ==
    ASSUME NEW seg, Sound(seg)
    PROVE  /\ First(seg) \in Nat /\ FileEnd(seg) \in Nat /\ PageAlign(End(seg)) \in Nat
           /\ \E q \in Nat : First(seg) = q * PageSize
           /\ \E q \in Nat : FileEnd(seg) = q * PageSize
           /\ \E q \in Nat : PageAlign(End(seg)) = q * PageSize
           /\ First(seg) + FileReach(seg) = seg.vaddr + seg.filesz
           /\ First(seg) + PageAlign(FileReach(seg)) = FileEnd(seg)
           /\ First(seg) <= seg.vaddr
           /\ seg.vaddr + seg.filesz <= FileEnd(seg)
           /\ FileEnd(seg) <= PageAlign(End(seg))
<1>1. seg.vaddr \in Nat /\ seg.filesz \in Nat /\ seg.memsz \in Nat /\ seg.filesz <= seg.memsz
  BY DEF Sound, Header
<1>2. PageSize \in Nat \ {0}  BY PagesAssumption
<1>3. /\ First(seg) \in Nat /\ PageOffset(seg.vaddr) \in Nat
      /\ First(seg) + PageOffset(seg.vaddr) = seg.vaddr
      /\ First(seg) <= seg.vaddr
  BY <1>1, PageStartBounds DEF First
<1>4. PICK p \in Nat : First(seg) = p * PageSize
  BY <1>1, Multiple DEF First
<1>5. FileReach(seg) \in Nat /\ First(seg) + FileReach(seg) = seg.vaddr + seg.filesz
  BY <1>1, <1>3 DEF FileReach
<1>6. PICK r \in Nat : PageAlign(FileReach(seg)) = r * PageSize
  BY <1>5, PageAlignBounds
<1>7. FileReach(seg) <= r * PageSize /\ r * PageSize < FileReach(seg) + PageSize /\ r * PageSize \in Nat
  BY <1>5, <1>6, PageAlignBounds
<1>8. (p + r) * PageSize = p * PageSize + r * PageSize /\ p + r \in Nat
  BY <1>2
<1>9. FileEnd(seg) = (p + r) * PageSize
  BY <1>1, <1>2, <1>4, <1>5, <1>7, <1>8, PageAlignUnique DEF FileEnd
<1>10. seg.vaddr + seg.filesz <= FileEnd(seg) /\ FileEnd(seg) \in Nat
  BY <1>1, PageAlignBounds DEF FileEnd
<1>11. /\ End(seg) \in Nat /\ PageAlign(End(seg)) \in Nat
       /\ \E q \in Nat : PageAlign(End(seg)) = q * PageSize
       /\ FileEnd(seg) <= PageAlign(End(seg))
  <2>1. /\ End(seg) \in Nat /\ seg.vaddr + seg.filesz \in Nat
        /\ seg.vaddr + seg.filesz <= End(seg)
    BY <1>1 DEF End
  <2> QED BY <2>1, PageAlignBounds, PageAlignMonotone DEF FileEnd
<1>12. First(seg) + PageAlign(FileReach(seg)) = FileEnd(seg)
  BY <1>4, <1>6, <1>8, <1>9
<1> QED BY <1>3, <1>4, <1>5, <1>8, <1>9, <1>10, <1>11, <1>12

(* The zeroed pages reach to the end of the segment's last page, or one    *)
(* page further.                                                           *)
LEMMA BssReach ==
    ASSUME NEW seg, Sound(seg)
    PROVE  LET reach == FileEnd(seg) + PageAlign(seg.memsz - seg.filesz) IN
           /\ reach \in Nat /\ PageAlign(End(seg)) <= reach
           /\ reach <= PageAlign(End(seg)) + PageSize
           /\ \E q \in Nat : reach = q * PageSize
<1> DEFINE bss   == seg.memsz - seg.filesz
           reach == FileEnd(seg) + PageAlign(bss)
<1>1. /\ seg.vaddr \in Nat /\ seg.filesz \in Nat /\ seg.memsz \in Nat /\ bss \in Nat
      /\ End(seg) = seg.vaddr + seg.filesz + bss
  BY DEF Sound, Header, End
<1>2. PageSize \in Nat \ {0}  BY PagesAssumption
<1>3. PICK p \in Nat : FileEnd(seg) = p * PageSize
  BY Geometry
<1>4. PICK r \in Nat : PageAlign(bss) = r * PageSize
  BY <1>1, PageAlignBounds
<1>5. PICK e \in Nat : PageAlign(End(seg)) = e * PageSize
  BY Geometry
<1>6. (p + r) * PageSize = p * PageSize + r * PageSize /\ p + r \in Nat /\ (p + r) * PageSize \in Nat
  BY <1>2
<1>7. reach = (p + r) * PageSize
  BY <1>3, <1>4, <1>6
<1>8. /\ seg.vaddr + seg.filesz <= FileEnd(seg) /\ FileEnd(seg) < seg.vaddr + seg.filesz + PageSize
      /\ bss <= PageAlign(bss) /\ PageAlign(bss) < bss + PageSize
      /\ End(seg) <= PageAlign(End(seg)) /\ PageAlign(End(seg)) < End(seg) + PageSize
      /\ FileEnd(seg) \in Nat /\ PageAlign(bss) \in Nat /\ PageAlign(End(seg)) \in Nat /\ End(seg) \in Nat
  <2>1. seg.vaddr + seg.filesz \in Nat /\ End(seg) \in Nat  BY <1>1
  <2> HIDE DEF bss
  <2> QED BY <1>1, <2>1, PageAlignBounds DEF FileEnd
<1> HIDE DEF bss
<1>9. End(seg) <= reach /\ reach < End(seg) + PageSize + PageSize
  BY <1>1, <1>2, <1>8
<1>10. CASE p + r < e
  <2>1. (p + r) * PageSize + PageSize <= e * PageSize
    BY <1>6, <1>10, BetweenMultiples
  <2> QED BY <1>2, <1>5, <1>6, <1>7, <1>8, <1>9, <2>1
<1>11. CASE e + 1 < p + r
  <2>1. (e + 1) * PageSize + PageSize <= (p + r) * PageSize
    BY <1>6, <1>11, BetweenMultiples
  <2>2. (e + 1) * PageSize = e * PageSize + PageSize
    BY <1>2
  <2> QED BY <1>2, <1>5, <1>6, <1>7, <1>8, <1>9, <2>1, <2>2
<1>12. CASE p + r = e \/ p + r = e + 1
  <2>1. (e + 1) * PageSize = e * PageSize + PageSize
    BY <1>2
  <2>2. /\ reach \in Nat /\ PageAlign(End(seg)) <= reach
        /\ reach <= PageAlign(End(seg)) + PageSize
        /\ \E q \in Nat : reach = q * PageSize
    <3> HIDE DEF reach
    <3> QED BY <1>2, <1>5, <1>6, <1>7, <1>8, <1>12, <2>1
  <2> QED BY <2>2 DEF bss
<1> QED BY <1>6, <1>10, <1>11, <1>12
----------------------------------------------------------------------------
(* A span between multiples of the page size consists of whole pages. *)
LEMMA SpanOfPages ==
    ASSUME NEW lo \in Nat, NEW hi \in Nat, NEW a \in Addr,
           \E q \in Nat : lo = q * PageSize, \E q \in Nat : hi = q * PageSize
    PROVE  /\ a \in Span(lo, hi) <=> PageStart(a) \in Span(lo, hi)
           /\ a \in Span(lo, hi) <=> lo <= a /\ a < hi
<1>1. a \in Nat /\ PageStart(a) \in Addr  BY PageFacts
<1>2. lo <= a <=> lo <= PageStart(a)  BY <1>1, MultipleBoundsPages
<1>3. a < hi <=> PageStart(a) < hi  BY <1>1, MultipleBoundsPages
<1> QED BY <1>1, <1>2, <1>3 DEF Span

Values == {FileBytes[o] : o \in DOMAIN FileBytes} \cup {0}

LEMMA ByteType == \A seg, a : Byte(seg, a) \in Values
BY DEF Byte, Values

LEMMA RightsType ==
    ASSUME NEW seg, Sound(seg)
    PROVE  /\ Rights(seg) \in SUBSET Right /\ MapRights(seg) \in SUBSET Right
           /\ Rights(seg) = seg.flags \cup {"R"}
           /\ Rights(seg) # {} /\ MapRights(seg) # {}
           /\ program = "apager" => "W" \in MapRights(seg)
<1>1. seg.flags \in SUBSET {"R", "W", "X"}  BY DEF Sound, Header, Right
<1> QED BY <1>1 DEF Rights, MapRights, Right

FilePageRights(seg) == Rights(seg) \cup (IF program = "loader" THEN {"X"} ELSE {})

(* What the first mmap of a header does: nothing outside the pages of its  *)
(* file part, and there, unless it fails, all of them.                     *)
LEMMA FilePart ==
    ASSUME NEW seg, Sound(seg), NEW ok \in BOOLEAN,
           program \in {"apager", "loader"},
           mem \in [Addr -> Values], prot \in [Page -> SUBSET Right]
    PROVE  LET m == MapFile(seg, ok) IN
           /\ m.mem \in [Addr -> Values] /\ m.prot \in [Page -> SUBSET Right]
           /\ \A a \in Addr : ~(First(seg) <= a /\ a < FileEnd(seg)) =>
                 m.mem[a] = mem[a] /\ m.prot[PageStart(a)] = prot[PageStart(a)]
           /\ ok => /\ ~m.dies
                    /\ \A a \in Addr : First(seg) <= a /\ a < FileEnd(seg) =>
                          /\ m.mem[a] = IF a < seg.vaddr + seg.filesz \/ program = "loader"
                                        THEN Byte(seg, a) ELSE 0
                          /\ m.prot[PageStart(a)] = FilePageRights(seg)
<1> DEFINE tail == IF program = "apager" THEN FileTail(seg) ELSE {}
           mapped == [p \in Page |-> IF ok /\ p \in FilePages(seg) THEN MapRights(seg) ELSE prot[p]]
           newmem == [a \in Addr |-> IF a \in tail THEN 0
                                     ELSE IF ok /\ a \in FilePages(seg) THEN Byte(seg, a)
                                     ELSE mem[a]]
           newprot == [p \in Page |->
                         IF program = "apager" /\ p \in UpToHole(seg, mapped)
                         THEN Rights(seg) ELSE mapped[p]]
           m == MapFile(seg, ok)
<1>1. m.mem = newmem /\ m.prot = newprot /\ m.dies = ~CanZero(tail, mapped)
  BY DEF MapFile
<1>2. 0 \in Values
  BY DEF Values
<1>3. newmem \in [Addr -> Values]
  BY <1>2, ByteType
<1>4. mapped \in [Page -> SUBSET Right]
  BY RightsType
<1>5. newprot \in [Page -> SUBSET Right]
  BY <1>4, RightsType
<1>6. /\ FilePages(seg) = Span(First(seg), FileEnd(seg))
      /\ FileTail(seg) = Span(seg.vaddr + seg.filesz, FileEnd(seg))
  BY Geometry DEF FilePages, FileTail
<1>7. \A a \in Addr : /\ PageStart(a) \in Page
                      /\ a \in FilePages(seg) <=> PageStart(a) \in FilePages(seg)
                      /\ a \in FilePages(seg) <=> First(seg) <= a /\ a < FileEnd(seg)
  BY <1>6, Geometry, SpanOfPages, PageFacts
<1>8. \A a \in Addr : a \in FileTail(seg) <=> a \in FilePages(seg) /\ ~(a < seg.vaddr + seg.filesz)
  <2>1. /\ seg.vaddr \in Nat /\ seg.filesz \in Nat
        /\ First(seg) \in Nat /\ First(seg) <= seg.vaddr
    BY Geometry DEF Sound, Header
  <2>2. Addr \subseteq Nat
    BY PageFacts
  <2> QED BY <1>6, <2>1, <2>2 DEF Span
<1>9. ASSUME NEW a \in Addr, ~(First(seg) <= a /\ a < FileEnd(seg))
      PROVE  newmem[a] = mem[a] /\ newprot[PageStart(a)] = prot[PageStart(a)]
  BY <1>7, <1>8, <1>9 DEF UpToHole
<1>10. ASSUME ok
       PROVE  ~(~CanZero(tail, mapped))
  <2>1. ASSUME NEW a \in tail PROVE "W" \in mapped[PageStart(a)]
    <3>1. program = "apager" /\ a \in FileTail(seg) /\ a \in Addr
      BY <1>6, <2>1 DEF Span
    <3> QED BY <1>7, <1>8, <1>10, <3>1, RightsType
  <2> QED BY <2>1 DEF CanZero
<1>11. ASSUME ok, NEW a \in Addr, First(seg) <= a /\ a < FileEnd(seg)
       PROVE  /\ newmem[a] = IF a < seg.vaddr + seg.filesz \/ program = "loader"
                             THEN Byte(seg, a) ELSE 0
              /\ newprot[PageStart(a)] = FilePageRights(seg)
  <2>1. a \in FilePages(seg) /\ PageStart(a) \in Page /\ PageStart(a) \in FilePages(seg)
    BY <1>7, <1>11
  <2>2. newmem[a] = IF a < seg.vaddr + seg.filesz \/ program = "loader" THEN Byte(seg, a) ELSE 0
    BY <1>8, <1>11, <2>1
  <2>3. mapped[PageStart(a)] = MapRights(seg) /\ MapRights(seg) # {}
    BY <1>11, <2>1, RightsType
  <2>4. PageStart(a) \in UpToHole(seg, mapped)
    <3>1. ASSUME NEW q \in FilePages(seg) PROVE mapped[PageStart(q)] # {}
      <4>1. q \in Addr
        BY <1>6 DEF Span
      <4>2. PageStart(q) \in Page /\ PageStart(q) \in FilePages(seg)
        BY <1>7, <3>1, <4>1
      <4> QED BY <1>11, <4>2, RightsType
    <3> HIDE DEF mapped
    <3> QED BY <2>1, <3>1 DEF UpToHole
  <2>5. newprot[PageStart(a)] = IF program = "apager" THEN Rights(seg) ELSE MapRights(seg)
    BY <2>1, <2>3, <2>4
  <2> QED BY <2>2, <2>5 DEF FilePageRights, MapRights
<1> HIDE DEF newmem, newprot, mapped, tail
<1> QED BY <1>1, <1>3, <1>5, <1>9, <1>10, <1>11

(* What the second mmap does to the memory m the first has left: nothing   *)
(* before the zeroed pages or behind them, and there zeros, if anything.   *)
LEMMA BssPart ==
    ASSUME NEW seg, Sound(seg), NEW ok \in BOOLEAN, NEW m,
           program \in {"apager", "loader"},
           m.mem \in [Addr -> Values], m.prot \in [Page -> SUBSET Right]
    PROVE  LET n     == MapBss(seg, ok, m)
               reach == FileEnd(seg) + PageAlign(seg.memsz - seg.filesz)
           IN
           /\ n.mem \in [Addr -> Values] /\ n.prot \in [Page -> SUBSET Right]
           /\ \A a \in Addr : ~(FileEnd(seg) <= a /\ a < reach) =>
                 n.mem[a] = m.mem[a] /\ n.prot[PageStart(a)] = m.prot[PageStart(a)]
           /\ \A a \in Addr :
                 \/ n.mem[a] = 0
                 \/ n.mem[a] = m.mem[a] /\ n.prot[PageStart(a)] = m.prot[PageStart(a)]
           /\ ok => /\ n.dies => program = "apager" /\ "W" \notin seg.flags
                    /\ \A a \in Addr : FileEnd(seg) <= a /\ a < reach =>
                          n.mem[a] = 0 /\ n.prot[PageStart(a)] = Rights(seg)
<1> DEFINE size   == seg.memsz - seg.filesz
           reach  == FileEnd(seg) + PageAlign(size)
           bss    == BssPages(seg)
           zeroed == Span(FileEnd(seg), FileEnd(seg) + size)
           rights == [p \in Page |-> IF ok /\ p \in bss THEN Rights(seg) ELSE m.prot[p]]
           newmem == [a \in Addr |-> IF ok /\ a \in bss THEN 0
                                     ELSE IF program = "apager" /\ a \in zeroed THEN 0
                                     ELSE m.mem[a]]
           n == MapBss(seg, ok, m)
<1>1. n.mem = newmem /\ n.prot = rights /\ n.dies = (program = "apager" /\ ~CanZero(zeroed, rights))
  <2>1. zeroed = Span(PageAlign(seg.vaddr + seg.filesz),
                      PageAlign(seg.vaddr + seg.filesz) + seg.memsz - seg.filesz)
    <3>1. seg.vaddr \in Nat /\ seg.memsz \in Nat /\ seg.filesz \in Nat /\ FileEnd(seg) \in Nat
      BY Geometry DEF Sound, Header
    <3>2. FileEnd(seg) + (seg.memsz - seg.filesz) = FileEnd(seg) + seg.memsz - seg.filesz
      BY <3>1
    <3> QED BY <3>2 DEF FileEnd
  <2> QED BY <2>1 DEF MapBss
<1>2. 0 \in Values
  BY DEF Values
<1>3. newmem \in [Addr -> Values]
  BY <1>2
<1>4. rights \in [Page -> SUBSET Right]
  BY RightsType
<1>5. bss = Span(FileEnd(seg), reach)
  BY DEF BssPages, FileEnd
<1>6. \A a \in Addr : /\ PageStart(a) \in Page
                      /\ a \in bss <=> PageStart(a) \in bss
                      /\ a \in bss <=> FileEnd(seg) <= a /\ a < reach
  <2>1. FileEnd(seg) \in Nat /\ reach \in Nat /\ \E q \in Nat : FileEnd(seg) = q * PageSize
    BY Geometry, BssReach
  <2>2. \E q \in Nat : reach = q * PageSize
    BY BssReach
  <2> HIDE DEF reach, bss
  <2> QED BY <1>5, <2>1, <2>2, SpanOfPages, PageFacts
<1>7. \A a \in Addr : a \in zeroed => a \in bss
  <2>1. size \in Nat
    BY DEF Sound, Header
  <2>2. PageAlign(size) \in Nat /\ size <= PageAlign(size) /\ FileEnd(seg) \in Nat
    BY <2>1, PageAlignBounds, Geometry
  <2>3. Addr \subseteq Nat
    BY PageFacts
  <2> HIDE DEF size
  <2> QED BY <1>5, <2>1, <2>2, <2>3 DEF Span
<1> HIDE DEF bss, zeroed, reach
<1>8. ASSUME NEW a \in Addr, ~(FileEnd(seg) <= a /\ a < reach)
      PROVE  newmem[a] = m.mem[a] /\ rights[PageStart(a)] = m.prot[PageStart(a)]
  BY <1>6, <1>7, <1>8
<1>9. ASSUME NEW a \in Addr
      PROVE  \/ newmem[a] = 0
             \/ newmem[a] = m.mem[a] /\ rights[PageStart(a)] = m.prot[PageStart(a)]
  BY <1>6
<1>10. ASSUME ok, NEW a \in Addr, FileEnd(seg) <= a /\ a < reach
       PROVE  newmem[a] = 0 /\ rights[PageStart(a)] = Rights(seg)
  BY <1>6, <1>10
<1>11. ASSUME ok, program = "apager", ~CanZero(zeroed, rights)
       PROVE  "W" \notin seg.flags
  <2>1. PICK a \in zeroed : "W" \notin rights[PageStart(a)]
    BY <1>11 DEF CanZero
  <2>2. a \in Addr
    BY DEF zeroed, Span
  <2>3. PageStart(a) \in Page /\ PageStart(a) \in bss
    BY <1>6, <1>7, <2>2
  <2>4. rights[PageStart(a)] = Rights(seg)
    BY <1>11, <2>3
  <2> QED BY <2>1, <2>4, RightsType
<1> HIDE DEF newmem, rights
<1>12. ok => (n.dies => program = "apager" /\ "W" \notin seg.flags)
  BY <1>1, <1>11, Zenon
<1> HIDE DEF n
<1> QED BY <1>1, <1>3, <1>4, <1>8, <1>9, <1>10, <1>12 DEF n, reach
----------------------------------------------------------------------------
LEMMA LoadedIsSound ==
    ASSUME WellFormed(phdr), NEW k \in DOMAIN phdr, IsLoaded(phdr[k])
    PROVE  Sound(phdr[k])
<1>1. phdr[k] \in Header
  BY DEF WellFormed
<1> QED BY <1>1 DEF WellFormed, IsLoaded, Sound

(* Where the mappings of a header end *)
Reach(seg) ==
    IF seg.memsz > seg.filesz THEN FileEnd(seg) + PageAlign(seg.memsz - seg.filesz) ELSE FileEnd(seg)

LEMMA ReachBounds ==
    ASSUME NEW seg, Sound(seg)
    PROVE  /\ Reach(seg) \in Nat
           /\ FileEnd(seg) <= PageAlign(End(seg)) /\ PageAlign(End(seg)) <= Reach(seg)
           /\ Reach(seg) <= PageAlign(End(seg)) + PageSize
           /\ seg.memsz = seg.filesz => Reach(seg) = PageAlign(End(seg))
<1>1. seg.memsz \in Nat /\ seg.filesz \in Nat /\ seg.vaddr \in Nat /\ seg.filesz <= seg.memsz
  BY DEF Sound, Header
<1>2. CASE seg.memsz > seg.filesz
  BY <1>1, <1>2, BssReach, Geometry DEF Reach
<1>3. CASE seg.memsz = seg.filesz
  <2>1. FileEnd(seg) = PageAlign(End(seg))
    BY <1>3 DEF FileEnd, End
  <2> QED BY <1>1, <1>3, <2>1, Geometry, PagesAssumption DEF Reach
<1> QED BY <1>1, <1>2, <1>3

RightsOf(seg, a) ==
    seg.flags \cup {"R"} \cup
        (IF program = "loader" /\ a \in FilePages(seg) THEN {"X"} ELSE {})

(* Both mappings of a header together *)
LEMMA BothParts ==
    ASSUME NEW seg, Sound(seg), NEW fileok \in BOOLEAN, NEW bssok \in BOOLEAN,
           program \in {"apager", "loader"},
           mem \in [Addr -> Values], prot \in [Page -> SUBSET Right]
    PROVE  LET file == MapFile(seg, fileok)
               bss  == IF seg.memsz > seg.filesz THEN MapBss(seg, bssok, file)
                       ELSE [file EXCEPT !.dies = FALSE]
           IN
           /\ bss.mem \in [Addr -> Values] /\ bss.prot \in [Page -> SUBSET Right]
           /\ \A a \in Addr : ~(First(seg) <= a /\ a < Reach(seg)) =>
                 bss.mem[a] = mem[a] /\ bss.prot[PageStart(a)] = prot[PageStart(a)]
           /\ \A a \in Addr : a >= FileEnd(seg) =>
                 \/ bss.mem[a] = 0
                 \/ bss.mem[a] = mem[a] /\ bss.prot[PageStart(a)] = prot[PageStart(a)]
           /\ fileok /\ bssok =>
                 /\ file.dies \/ bss.dies =>
                       program = "apager" /\ "W" \notin seg.flags /\ seg.memsz > seg.filesz
                 /\ \A a \in Owned(seg) :
                       /\ bss.mem[a] = ExpectedByte(seg, a)
                       /\ bss.prot[PageStart(a)] = RightsOf(seg, a)
<1> DEFINE file == MapFile(seg, fileok)
           bss  == IF seg.memsz > seg.filesz THEN MapBss(seg, bssok, file)
                   ELSE [file EXCEPT !.dies = FALSE]
           hasBss == seg.memsz > seg.filesz
<1>1. /\ file.mem \in [Addr -> Values] /\ file.prot \in [Page -> SUBSET Right]
      /\ \A a \in Addr : ~(First(seg) <= a /\ a < FileEnd(seg)) =>
            file.mem[a] = mem[a] /\ file.prot[PageStart(a)] = prot[PageStart(a)]
      /\ fileok => /\ ~file.dies
                   /\ \A a \in Addr : First(seg) <= a /\ a < FileEnd(seg) =>
                         /\ file.mem[a] = IF a < seg.vaddr + seg.filesz \/ program = "loader"
                                          THEN Byte(seg, a) ELSE 0
                         /\ file.prot[PageStart(a)] = FilePageRights(seg)
  BY FilePart
<1>2. /\ seg.vaddr \in Nat /\ seg.filesz \in Nat /\ seg.memsz \in Nat /\ seg.filesz <= seg.memsz
      /\ Addr \subseteq Nat /\ PageSize \in Nat
      /\ First(seg) \in Nat /\ FileEnd(seg) \in Nat /\ Reach(seg) \in Nat /\ PageAlign(End(seg)) \in Nat
      /\ First(seg) <= seg.vaddr /\ seg.vaddr + seg.filesz <= FileEnd(seg)
      /\ FileEnd(seg) <= PageAlign(End(seg)) /\ PageAlign(End(seg)) <= Reach(seg)
  BY Geometry, ReachBounds, PageFacts, PagesAssumption DEF Sound, Header
<1>3. /\ bss.mem \in [Addr -> Values] /\ bss.prot \in [Page -> SUBSET Right]
      /\ \A a \in Addr : ~(FileEnd(seg) <= a /\ a < Reach(seg)) =>
            bss.mem[a] = file.mem[a] /\ bss.prot[PageStart(a)] = file.prot[PageStart(a)]
      /\ \A a \in Addr :
            \/ bss.mem[a] = 0
            \/ bss.mem[a] = file.mem[a] /\ bss.prot[PageStart(a)] = file.prot[PageStart(a)]
      /\ bssok => /\ bss.dies => program = "apager" /\ "W" \notin seg.flags /\ hasBss
                  /\ \A a \in Addr : FileEnd(seg) <= a /\ a < Reach(seg) =>
                        bss.mem[a] = 0 /\ bss.prot[PageStart(a)] = Rights(seg)
  <2>1. CASE hasBss
    <3>1. bss = MapBss(seg, bssok, file) /\ Reach(seg) = FileEnd(seg) + PageAlign(seg.memsz - seg.filesz)
      BY <2>1 DEF Reach
    <3> HIDE DEF file, bss
    <3> QED BY <1>1, <2>1, <3>1, BssPart
  <2>2. CASE ~hasBss
    <3>1. bss = [file EXCEPT !.dies = FALSE] /\ Reach(seg) = FileEnd(seg)
      BY <2>2 DEF Reach
    <3>2. bss.mem = file.mem /\ bss.prot = file.prot /\ bss.dies = FALSE
      BY <3>1 DEF MapFile
    <3> HIDE DEF file, bss
    <3> QED BY <1>1, <1>2, <3>1, <3>2
  <2> QED BY <2>1, <2>2
<1> HIDE DEF file, bss
<1>4. ASSUME NEW a \in Addr, ~(First(seg) <= a /\ a < Reach(seg))
      PROVE  bss.mem[a] = mem[a] /\ bss.prot[PageStart(a)] = prot[PageStart(a)]
  BY <1>1, <1>2, <1>3, <1>4
<1>5. ASSUME NEW a \in Addr, a >= FileEnd(seg)
      PROVE  \/ bss.mem[a] = 0
             \/ bss.mem[a] = mem[a] /\ bss.prot[PageStart(a)] = prot[PageStart(a)]
  BY <1>1, <1>2, <1>3, <1>5
<1>6. ASSUME fileok, bssok, file.dies \/ bss.dies
      PROVE  program = "apager" /\ "W" \notin seg.flags /\ hasBss
  BY <1>1, <1>3, <1>6
<1>7. ASSUME fileok, bssok, NEW a \in Owned(seg)
      PROVE  /\ bss.mem[a] = ExpectedByte(seg, a)
             /\ bss.prot[PageStart(a)] = RightsOf(seg, a)
  <2>1. a \in Addr /\ First(seg) <= a /\ a < PageAlign(End(seg))
    BY DEF Owned, Span
  <2>2. /\ a \in FilePages(seg) <=> a < FileEnd(seg)
        /\ a \in FileTail(seg) <=> seg.vaddr + seg.filesz <= a /\ a < FileEnd(seg)
    BY <2>1, Geometry DEF FilePages, FileTail, Span
  <2>3. CASE a < FileEnd(seg)
    <3>1. bss.mem[a] = file.mem[a] /\ bss.prot[PageStart(a)] = file.prot[PageStart(a)]
      BY <1>2, <1>3, <2>1, <2>3
    <3>2. /\ file.mem[a] = IF a < seg.vaddr + seg.filesz \/ program = "loader"
                           THEN Byte(seg, a) ELSE 0
          /\ file.prot[PageStart(a)] = FilePageRights(seg)
      BY <1>1, <1>7, <2>1, <2>3
    <3>3. bss.mem[a] = ExpectedByte(seg, a)
      BY <1>2, <2>1, <2>2, <2>3, <3>1, <3>2 DEF ExpectedByte
    <3>4. FilePageRights(seg) = RightsOf(seg, a)
      BY <2>2, <2>3, RightsType DEF FilePageRights, RightsOf
    <3> QED BY <3>1, <3>2, <3>3, <3>4
  <2>4. CASE ~(a < FileEnd(seg))
    <3>1. FileEnd(seg) <= a /\ a < Reach(seg)
      BY <1>2, <2>1, <2>4
    <3>2. bss.mem[a] = 0 /\ bss.prot[PageStart(a)] = Rights(seg)
      BY <1>3, <1>7, <2>1, <3>1
    <3>3. ExpectedByte(seg, a) = 0
      BY <1>2, <2>1, <2>2, <2>4 DEF ExpectedByte
    <3>4. Rights(seg) = RightsOf(seg, a)
      BY <2>2, <2>4, RightsType DEF RightsOf
    <3> QED BY <3>2, <3>3, <3>4
  <2> QED BY <2>3, <2>4
<1> QED BY <1>3, <1>4, <1>5, <1>6, <1>7 DEF file, bss, hasBss
----------------------------------------------------------------------------
(* The invariant: what the run checks, and where atphdr points. *)
FirstLoaded(k) == k \in Loaded /\ \A j \in Loaded : k <= j

AddressKept ==
    /\ Loaded # {} => \E k \in Loaded : FirstLoaded(k)
    /\ errors = 0 /\ pc # "crashed" =>
          /\ Loaded = {} => atphdr = 0
          /\ \A k \in Loaded : FirstLoaded(k) => atphdr = First(phdr[k]) + PhdrOffset

LoaderInv ==
    /\ TypeOK /\ SegmentsInPlace /\ SegmentsProtected /\ OnlySparePages /\ LoaderSurvives
    /\ AddressKept

(* One round of the loop *)
LEMMA LoadStep ==
    ASSUME TypeOK, LoadHeader
    PROVE  LET seg == phdr[i] IN
           /\ i \in DOMAIN phdr /\ IsLoaded(seg) /\ Sound(seg)
           /\ UNCHANGED <<program, phdr>>
           /\ errors' \in 0 .. MaxErrors /\ (errors' = 0 => errors = 0)
           /\ atphdr' \in Nat
           /\ errors' = 0 => atphdr' = IF atphdr # 0 THEN atphdr ELSE First(seg) + PhdrOffset
           /\ \/ /\ pc' = "crashed" /\ UNCHANGED <<i, mem, prot>>
                 /\ \/ errors' > 0
                    \/ program = "apager" /\ "W" \notin seg.flags /\ seg.memsz > seg.filesz
              \/ /\ pc = "loading" /\ UNCHANGED pc /\ i' = i + 1
                 /\ mem' \in [Addr -> Values] /\ prot' \in [Page -> SUBSET Right]
                 /\ \A a \in Addr : ~(First(seg) <= a /\ a < Reach(seg)) =>
                       mem'[a] = mem[a] /\ prot'[PageStart(a)] = prot[PageStart(a)]
                 /\ \A a \in Addr : a >= FileEnd(seg) =>
                       \/ mem'[a] = 0
                       \/ mem'[a] = mem[a] /\ prot'[PageStart(a)] = prot[PageStart(a)]
                 /\ errors' = 0 => \A a \in Owned(seg) :
                       mem'[a] = ExpectedByte(seg, a) /\ prot'[PageStart(a)] = RightsOf(seg, a)
<1> DEFINE seg == phdr[i]
<1>1. /\ program \in {"apager", "loader"} /\ WellFormed(phdr)
      /\ mem \in [Addr -> Values] /\ prot \in [Page -> SUBSET Right]
      /\ atphdr \in Nat /\ errors \in 0 .. MaxErrors
  BY DEF TypeOK, Values
<1>2. i \in DOMAIN phdr /\ IsLoaded(seg) /\ Sound(seg) /\ pc = "loading" /\ UNCHANGED <<program, phdr>>
  BY <1>1, LoadedIsSound DEF LoadHeader
<1>3. PICK fileok \in BOOLEAN, bssok \in BOOLEAN :
        LET file == MapFile(seg, fileok)
            bss  == IF seg.memsz > seg.filesz THEN MapBss(seg, bssok, file)
                    ELSE [file EXCEPT !.dies = FALSE]
            failed == (IF fileok THEN 0 ELSE 1) + (IF bssok THEN 0 ELSE 1)
        IN  /\ errors + failed <= MaxErrors
            /\ errors' = errors + failed
            /\ atphdr' = PhdrAddress(seg, fileok)
            /\ IF file.dies \/ bss.dies
               THEN pc' = "crashed" /\ UNCHANGED <<i, mem, prot>>
               ELSE i' = i + 1 /\ mem' = bss.mem /\ prot' = bss.prot /\ UNCHANGED pc
  BY DEF LoadHeader
<1> DEFINE file == MapFile(seg, fileok)
           bss  == IF seg.memsz > seg.filesz THEN MapBss(seg, bssok, file)
                   ELSE [file EXCEPT !.dies = FALSE]
<1>4. /\ errors' \in 0 .. MaxErrors /\ (errors' = 0 => errors = 0 /\ fileok /\ bssok)
  BY <1>1, <1>3, ExecutablesAssumption
<1>5. /\ atphdr' \in Nat
      /\ errors' = 0 => atphdr' = IF atphdr # 0 THEN atphdr ELSE First(seg) + PhdrOffset
  <2>1. First(seg) \in Nat
    BY <1>2, Geometry
  <2>2. atphdr' = PhdrAddress(seg, fileok)
    BY <1>3
  <2> QED BY <1>1, <1>4, <2>1, <2>2, ExecutablesAssumption DEF PhdrAddress
<1>6. IF file.dies \/ bss.dies
      THEN pc' = "crashed" /\ UNCHANGED <<i, mem, prot>>
      ELSE i' = i + 1 /\ mem' = bss.mem /\ prot' = bss.prot /\ UNCHANGED pc
  BY <1>3
<1>7. /\ bss.mem \in [Addr -> Values] /\ bss.prot \in [Page -> SUBSET Right]
      /\ \A a \in Addr : ~(First(seg) <= a /\ a < Reach(seg)) =>
            bss.mem[a] = mem[a] /\ bss.prot[PageStart(a)] = prot[PageStart(a)]
      /\ \A a \in Addr : a >= FileEnd(seg) =>
            \/ bss.mem[a] = 0
            \/ bss.mem[a] = mem[a] /\ bss.prot[PageStart(a)] = prot[PageStart(a)]
      /\ fileok /\ bssok =>
            /\ file.dies \/ bss.dies =>
                  program = "apager" /\ "W" \notin seg.flags /\ seg.memsz > seg.filesz
            /\ \A a \in Owned(seg) :
                  /\ bss.mem[a] = ExpectedByte(seg, a)
                  /\ bss.prot[PageStart(a)] = RightsOf(seg, a)
  BY <1>1, <1>2, BothParts
<1> HIDE DEF file, bss
<1>8. CASE file.dies \/ bss.dies
  <2>1. errors' > 0 \/ (program = "apager" /\ "W" \notin seg.flags /\ seg.memsz > seg.filesz)
    BY <1>4, <1>7, <1>8
  <2> QED BY <1>2, <1>4, <1>5, <1>6, <1>8, <2>1
<1>9. CASE ~(file.dies \/ bss.dies)
  <2>1. i' = i + 1 /\ mem' = bss.mem /\ prot' = bss.prot /\ UNCHANGED pc
    BY <1>6, <1>9
  <2> QED BY <1>2, <1>4, <1>5, <1>7, <2>1
<1> QED BY <1>8, <1>9

LEMMA LoaderInit == Init => LoaderInv
<1> SUFFICES ASSUME Init PROVE LoaderInv
  OBVIOUS
<1>1. Loaded = {}
  <2>1. phdr \in Seq(Header)
    BY ExecutablesAssumption DEF Init, WellFormed
  <2> QED BY <2>1 DEF Init, Loaded
<1>2. TypeOK
  <2>1. WellFormed(phdr) /\ phdr \in Seq(Header)
    BY ExecutablesAssumption DEF Init, WellFormed
  <2> QED BY <2>1, ExecutablesAssumption DEF Init, TypeOK
<1>3. OnlySparePages
  BY PageFacts DEF Init, OnlySparePages
<1> QED BY <1>1, <1>2, <1>3 DEF Init, LoaderInv, SegmentsInPlace, SegmentsProtected, LoaderSurvives, AddressKept

LEMMA EarlierBelow ==
    ASSUME TypeOK, i \in DOMAIN phdr, IsLoaded(phdr[i]), NEW k \in Loaded
    PROVE  /\ k \in DOMAIN phdr /\ k < i /\ Sound(phdr[k])
           /\ \A a \in Owned(phdr[k]) : a \in Addr /\ ~(First(phdr[i]) <= a)
<1>1. k \in DOMAIN phdr /\ k < i /\ IsLoaded(phdr[k]) /\ WellFormed(phdr) /\ phdr \in Seq(Header)
  BY DEF Loaded, TypeOK, WellFormed
<1>2. Sound(phdr[k]) /\ Sound(phdr[i])
  BY <1>1, LoadedIsSound
<1>3. k \in 1 .. i - 1
  BY <1>1
<1>4. PageAlign(End(phdr[k])) <= First(phdr[i])
  BY <1>1, <1>3 DEF WellFormed, IsLoaded
<1>5. PageAlign(End(phdr[k])) \in Nat /\ First(phdr[i]) \in Nat /\ Addr \subseteq Nat
  BY <1>2, Geometry, PageFacts
<1>6. ASSUME NEW a \in Owned(phdr[k]) PROVE a \in Addr /\ ~(First(phdr[i]) <= a)
  BY <1>4, <1>5 DEF Owned, Span
<1> QED BY <1>1, <1>2, <1>6

(* A header that is loaded leaves all of it true. *)
LEMMA LoadKeeps == LoaderInv /\ LoadHeader => LoaderInv'
<1> SUFFICES ASSUME LoaderInv, LoadHeader PROVE LoaderInv'
  OBVIOUS
<1> DEFINE seg == phdr[i]
<1>1. TypeOK /\ SegmentsInPlace /\ SegmentsProtected /\ OnlySparePages /\ LoaderSurvives /\ AddressKept
  BY DEF LoaderInv
<1>2. /\ i \in DOMAIN phdr /\ IsLoaded(seg) /\ Sound(seg)
      /\ program' = program /\ phdr' = phdr
      /\ errors' \in 0 .. MaxErrors /\ (errors' = 0 => errors = 0)
      /\ atphdr' \in Nat
      /\ errors' = 0 => atphdr' = IF atphdr # 0 THEN atphdr ELSE First(seg) + PhdrOffset
  BY <1>1, LoadStep
<1>3. phdr \in Seq(Header) /\ i \in Nat /\ First(seg) \in Nat /\ Addr \subseteq Nat
  BY <1>1, <1>2, Geometry, PageFacts DEF TypeOK, WellFormed
<1>4. CASE /\ pc' = "crashed" /\ UNCHANGED <<i, mem, prot>>
           /\ \/ errors' > 0
              \/ program = "apager" /\ "W" \notin seg.flags /\ seg.memsz > seg.filesz
  <2>1. Loaded' = Loaded
    BY <1>2, <1>4 DEF Loaded
  <2>2. TypeOK'
    BY <1>1, <1>2, <1>4 DEF TypeOK
  <2>3. SegmentsInPlace'
    BY <1>1, <1>2, <1>4, <2>1 DEF SegmentsInPlace, ExpectedByte
  <2>4. SegmentsProtected'
    BY <1>1, <1>2, <1>4, <2>1 DEF SegmentsProtected
  <2>5. OnlySparePages'
    BY <1>1, <1>2, <1>4, <2>1 DEF OnlySparePages
  <2>6. LoaderSurvives'
    BY <1>2, <1>4 DEF LoaderSurvives
  <2>7. AddressKept'
    BY <1>1, <1>2, <1>4, <2>1 DEF AddressKept, FirstLoaded
  <2> QED BY <2>2, <2>3, <2>4, <2>5, <2>6, <2>7 DEF LoaderInv
<1>5. CASE /\ pc = "loading" /\ UNCHANGED pc /\ i' = i + 1
           /\ mem' \in [Addr -> Values] /\ prot' \in [Page -> SUBSET Right]
           /\ \A a \in Addr : ~(First(seg) <= a /\ a < Reach(seg)) =>
                 mem'[a] = mem[a] /\ prot'[PageStart(a)] = prot[PageStart(a)]
           /\ \A a \in Addr : a >= FileEnd(seg) =>
                 \/ mem'[a] = 0
                 \/ mem'[a] = mem[a] /\ prot'[PageStart(a)] = prot[PageStart(a)]
           /\ errors' = 0 => \A a \in Owned(seg) :
                 mem'[a] = ExpectedByte(seg, a) /\ prot'[PageStart(a)] = RightsOf(seg, a)
  <2>1. Loaded' = Loaded \cup {i}
    BY <1>2, <1>3, <1>5 DEF Loaded
  <2>2. \A k \in Loaded : /\ k \in DOMAIN phdr /\ k < i /\ Sound(phdr[k])
                          /\ \A a \in Owned(phdr[k]) : a \in Addr /\ ~(First(seg) <= a)
    BY <1>1, <1>2, EarlierBelow
  <2>3. \A k \in Loaded : \A a \in Owned(phdr[k]) :
           mem'[a] = mem[a] /\ prot'[PageStart(a)] = prot[PageStart(a)]
    BY <1>5, <2>2
  <2>4. TypeOK'
    BY <1>1, <1>2, <1>3, <1>5 DEF TypeOK, Values
  <2>5. SegmentsInPlace'
    <3> SUFFICES ASSUME errors' = 0, NEW k \in Loaded', NEW a \in Owned(phdr[k])
                 PROVE  mem'[a] = ExpectedByte(phdr[k], a)
      BY <1>2 DEF SegmentsInPlace, ExpectedByte
    <3>1. CASE k = i
      BY <1>5, <3>1
    <3>2. CASE k \in Loaded
      BY <1>1, <1>2, <2>3, <3>2 DEF SegmentsInPlace
    <3> QED BY <2>1, <3>1, <3>2
  <2>6. SegmentsProtected'
    <3> SUFFICES ASSUME errors' = 0, NEW k \in Loaded', NEW a \in Owned(phdr[k])
                 PROVE  prot'[PageStart(a)] = RightsOf(phdr[k], a)
      BY <1>2 DEF SegmentsProtected, RightsOf
    <3>1. CASE k = i
      BY <1>5, <3>1
    <3>2. CASE k \in Loaded
      BY <1>1, <1>2, <2>3, <3>2 DEF SegmentsProtected, RightsOf
    <3> QED BY <2>1, <3>1, <3>2
  <2>7. OnlySparePages'
    <3> SUFFICES ASSUME NEW a \in Addr, prot'[PageStart(a)] # {},
                        \A k \in Loaded' : a \notin Owned(phdr[k])
                 PROVE  /\ mem'[a] = 0
                        /\ \E k \in Loaded' : /\ phdr[k].memsz > phdr[k].filesz
                                              /\ PageStart(a) = PageAlign(End(phdr[k]))
      BY <1>2 DEF OnlySparePages
    <3>1. CASE mem'[a] = mem[a] /\ prot'[PageStart(a)] = prot[PageStart(a)]
      <4>1. \A k \in Loaded : a \notin Owned(phdr[k])
        BY <2>1
      <4>2. /\ mem[a] = 0
            /\ \E k \in Loaded : /\ phdr[k].memsz > phdr[k].filesz
                                 /\ PageStart(a) = PageAlign(End(phdr[k]))
        BY <1>1, <3>1, <4>1 DEF OnlySparePages
      <4> QED BY <2>1, <3>1, <4>2
    <3>2. CASE ~(mem'[a] = mem[a] /\ prot'[PageStart(a)] = prot[PageStart(a)])
      <4>1. First(seg) <= a /\ a < Reach(seg)
        BY <1>5, <3>2
      <4>2. a \notin Owned(seg)
        BY <2>1
      <4>3. a \in Nat /\ PageAlign(End(seg)) \in Nat /\ PageAlign(End(seg)) <= a
        BY <1>2, <4>1, <4>2, Geometry, PageFacts DEF Owned, Span
      <4>4. /\ FileEnd(seg) \in Nat /\ FileEnd(seg) <= PageAlign(End(seg)) /\ Reach(seg) \in Nat
            /\ Reach(seg) <= PageAlign(End(seg)) + PageSize
            /\ seg.memsz = seg.filesz => Reach(seg) = PageAlign(End(seg))
        BY <1>2, Geometry, ReachBounds
      <4>5. mem'[a] = 0
        BY <1>5, <3>2, <4>3, <4>4
      <4>6. seg.memsz > seg.filesz
        BY <1>2, <4>1, <4>3, <4>4 DEF Sound, Header
      <4>7. PageStart(a) = PageAlign(End(seg))
        <5>1. PICK q \in Nat : PageAlign(End(seg)) = q * PageSize
          BY <1>2, Geometry
        <5>2. PageAlign(End(seg)) <= PageStart(a)
          BY <4>3, <5>1, MultipleBoundsPages
        <5>3. PageStart(a) <= a /\ PageStart(a) \in Nat /\ PageSize \in Nat
          BY <4>3, PageStartBounds, PagesAssumption
        <5>4. PICK r \in Nat : PageStart(a) = r * PageSize
          BY <4>3, Multiple
        <5>5. ~(q < r)
          BY <4>1, <4>3, <4>4, <5>1, <5>3, <5>4, BetweenMultiples
        <5>6. CASE r < q
          BY <4>3, <5>1, <5>2, <5>3, <5>4, <5>6, BetweenMultiples, PagesAssumption
        <5>7. CASE r = q
          BY <5>1, <5>4, <5>7
        <5> QED BY <5>5, <5>6, <5>7
      <4> QED BY <2>1, <4>5, <4>6, <4>7
    <3> QED BY <3>1, <3>2
  <2>8. LoaderSurvives'
    BY <1>5 DEF LoaderSurvives
  <2>9. AddressKept'
    <3>1. CASE Loaded = {}
      <4>1. errors' = 0 => atphdr' = First(seg) + PhdrOffset
        BY <1>1, <1>2, <1>5, <3>1 DEF AddressKept
      <4>2. Loaded' = {i}
        BY <2>1, <3>1
      <4> QED BY <1>2, <1>3, <4>1, <4>2 DEF AddressKept, FirstLoaded
    <3>2. CASE Loaded # {}
      <4>1. PICK k \in Loaded : FirstLoaded(k)
        BY <1>1, <3>2 DEF AddressKept
      <4>2. k \in Nat /\ k < i /\ First(phdr[k]) \in Nat
        BY <1>3, <2>2, Geometry
      <4>3. /\ k \in Loaded' /\ \A j \in Loaded' : k <= j
        BY <1>3, <2>1, <4>1, <4>2 DEF FirstLoaded
      <4>4. \A m \in Loaded' : (\A j \in Loaded' : m <= j) => m = k
        BY <1>3, <2>1, <2>2, <4>2, <4>3
      <4>5. errors' = 0 => atphdr' = First(phdr[k]) + PhdrOffset
        BY <1>1, <1>2, <1>5, <4>1, <4>2, ExecutablesAssumption DEF AddressKept
      <4> QED BY <1>2, <2>1, <4>3, <4>4, <4>5 DEF AddressKept, FirstLoaded
    <3> QED BY <3>1, <3>2
  <2> QED BY <2>4, <2>5, <2>6, <2>7, <2>8, <2>9 DEF LoaderInv
<1> HIDE DEF seg
<1> QED BY <1>1, <1>4, <1>5, LoadStep DEF seg

LEMMA LoaderNext == LoaderInv /\ [Next]_vars => LoaderInv'
<1> SUFFICES ASSUME LoaderInv, [Next]_vars PROVE LoaderInv'
  OBVIOUS
<1> USE DEF LoaderInv, TypeOK, SegmentsInPlace, SegmentsProtected, OnlySparePages, LoaderSurvives,
            AddressKept, FirstLoaded, ExpectedByte
<1>1. CASE SkipHeader
  <2>1. phdr \in Seq(Header) /\ i \in Nat
    BY DEF WellFormed
  <2>2. Loaded' = Loaded
    BY <1>1, <2>1 DEF SkipHeader, Loaded
  <2>3. TypeOK'
    BY <1>1, <2>1 DEF SkipHeader
  <2> QED BY <1>1, <2>2, <2>3 DEF SkipHeader
<1>2. CASE LoadHeader
  BY <1>2, LoadKeeps
<1>3. CASE Enter
  <2>1. Loaded' = Loaded
    BY <1>3 DEF Enter, Loaded
  <2> QED BY <1>3, <2>1 DEF Enter
<1>4. CASE UNCHANGED vars
  <2>1. Loaded' = Loaded
    BY <1>4 DEF vars, Loaded
  <2> QED BY <1>4, <2>1 DEF vars
<1> QED BY <1>1, <1>2, <1>3, <1>4 DEF Next

(* Memory, protections and the address passed on stay within their types. *)
THEOREM LoaderTypes == Spec => []TypeOK
<1>1. LoaderInv => TypeOK  BY DEF LoaderInv
<1> QED BY <1>1, LoaderInit, LoaderNext, PTL DEF Spec

(* Once loaded, a segment is in place, for every well-formed executable:   *)
(* no mapping of a later header damages it.                                *)
THEOREM SegmentsStay == Spec => []SegmentsInPlace
<1>1. LoaderInv => SegmentsInPlace  BY DEF LoaderInv
<1> QED BY <1>1, LoaderInit, LoaderNext, PTL DEF Spec

(* The pages of a loaded segment keep the rights of its header. *)
THEOREM RightsStay == Spec => []SegmentsProtected
<1>1. LoaderInv => SegmentsProtected  BY DEF LoaderInv
<1> QED BY <1>1, LoaderInit, LoaderNext, PTL DEF Spec

(* Beside the segments the program gets at most a page of zeros for each,  *)
(* whatever mappings fail.                                                 *)
THEOREM SparePages == Spec => []OnlySparePages
<1>1. LoaderInv => OnlySparePages  BY DEF LoaderInv
<1> QED BY <1>1, LoaderInit, LoaderNext, PTL DEF Spec

(* The loader faults only after a failed mapping or over the .bss of a     *)
(* read-only segment.                                                      *)
THEOREM NoOtherFault == Spec => []LoaderSurvives
<1>1. LoaderInv => LoaderSurvives  BY DEF LoaderInv
<1> QED BY <1>1, LoaderInit, LoaderNext, PTL DEF Spec

(* loader.c: the program headers are found where AT_PHDR says, when the    *)
(* first segment holds them.                                               *)
THEOREM HeadersAreFound == Spec => []HeadersFound
<1>1. LoaderInv => HeadersFound
  <2> SUFFICES ASSUME LoaderInv, program = "loader", pc = "entry", errors = 0, Loaded # {}
               PROVE  LET first == phdr[CHOOSE k \in Loaded : \A j \in Loaded : k <= j] IN
                      PageStart(first.offset) = 0 /\ PhdrOffset < first.offset + first.filesz =>
                          mem[atphdr] = FileBytes[PhdrOffset]
    BY DEF HeadersFound
  <2> DEFINE k     == CHOOSE m \in Loaded : \A j \in Loaded : m <= j
             first == phdr[k]
             a     == First(first) + PhdrOffset
  <2>1. TypeOK /\ SegmentsInPlace /\ AddressKept
    BY DEF LoaderInv
  <2>2. k \in Loaded /\ \A j \in Loaded : k <= j
    BY <2>1 DEF AddressKept, FirstLoaded
  <2> HIDE DEF k
  <2>3. FirstLoaded(k) /\ atphdr = a
    BY <2>1, <2>2 DEF AddressKept, FirstLoaded
  <2>4. /\ k \in DOMAIN phdr /\ WellFormed(phdr) /\ IsLoaded(first) /\ Sound(first)
    BY <2>1, <2>2, LoadedIsSound DEF Loaded, TypeOK
  <2> SUFFICES ASSUME PageStart(first.offset) = 0, PhdrOffset < first.offset + first.filesz
               PROVE  mem[a] = FileBytes[PhdrOffset]
    BY <2>3 DEF k
  <2>5. /\ first.vaddr \in Nat /\ first.offset \in Nat /\ first.filesz \in Nat
        /\ PageOffset(first.offset) = PageOffset(first.vaddr)
        /\ 0 .. first.offset + first.filesz - 1 \subseteq DOMAIN FileBytes
    BY <2>4 DEF Sound, Header, WellFormed, IsLoaded
  <2>6. /\ First(first) \in Nat /\ PhdrOffset \in Nat
        /\ PageOffset(first.vaddr) = first.offset
        /\ First(first) + first.offset = first.vaddr
    BY <2>5, PageStartBounds, ExecutablesAssumption DEF First
  <2>7. a \in Nat /\ First(first) <= a /\ a < first.vaddr + first.filesz
    BY <2>5, <2>6
  <2>8. a \in Owned(first)
    <3>1. /\ PageAlign(End(first)) \in Nat /\ a < PageAlign(End(first))
      BY <2>4, <2>5, <2>7, Geometry
    <3>2. a \in Addr
      BY <2>4, <2>7, <3>1, PagesAssumption DEF Sound, Addr
    <3> QED BY <2>7, <3>1, <3>2 DEF Owned, Span
  <2>9. mem[a] = Byte(first, a)
    BY <2>1, <2>2, <2>7, <2>8 DEF SegmentsInPlace, ExpectedByte
  <2>10. FileOffset(first, a) = PhdrOffset
    BY <2>5, <2>6 DEF FileOffset, First
  <2>11. PhdrOffset \in DOMAIN FileBytes
    BY <2>5, <2>6
  <2> QED BY <2>9, <2>10, <2>11 DEF Byte
<1> QED BY <1>1, LoaderInit, LoaderNext, PTL DEF Spec
=============================================================================
