---------------------------- MODULE EagerLoader ----------------------------
(***************************************************************************)
(* The loops of apager.c and loader.c that map a whole executable before   *)
(* its first instruction: for every program header the file's pages, and   *)
(* zeroed pages for what the file does not have.  apager.c also zeroes the *)
(* rest of the last file page and sets the protection the header asks for; *)
(* loader.c does neither.  A failing mmap is reported and main goes on.    *)
(***************************************************************************)
EXTENDS Pages

CONSTANTS
    Executables,    \* the program headers of the executables, in file order
    PhdrOffset,     \* where an executable has its program headers: byte 64
    MaxErrors       \* bound: mmaps that fail

VARIABLES
    program,        \* which of the two
    phdr,           \* the program headers of the executable
    i,              \* the loop's counter
    pc,             \* "loading", "crashed" or, once main jumps, "entry"
    mem, prot,      \* the program's memory; {} : not mapped
    atphdr,         \* the first mapping + 64: loader's AT_PHDR, unused in apager
    errors          \* how often "MAPPING has error" was printed

vars == <<program, phdr, i, pc, mem, prot, atphdr, errors>>

Header == [type : {"LOAD", "OTHER"}, vaddr : Nat, offset : Nat, filesz : Nat, memsz : Nat,
           flags : SUBSET Right]

First(seg) == PageStart(seg.vaddr)
End(seg)   == seg.vaddr + seg.memsz

(* size==0: the header is passed over. *)
IsLoaded(seg) == seg.type = "LOAD" /\ FileReach(seg) > 0

(* What the System V ABI asks of PT_LOAD headers: ascending addresses, the *)
(* file and the memory alike modulo the page size, the file's part in the  *)
(* file; and each has pages of its own.                                    *)
WellFormed(headers) ==
    /\ headers \in Seq(Header)
    /\ \A k \in DOMAIN headers : LET seg == headers[k] IN seg.type = "LOAD" =>
          /\ seg.filesz <= seg.memsz
          /\ PageOffset(seg.offset) = PageOffset(seg.vaddr)
          /\ seg.offset >= PageOffset(seg.vaddr)
          /\ 0 .. seg.offset + seg.filesz - 1 \subseteq DOMAIN FileBytes
          /\ PageAlign(End(seg)) + PageSize <= MaxAddr
          /\ \A j \in 1 .. k - 1 :
                headers[j].type = "LOAD" => PageAlign(End(headers[j])) <= First(seg)

ASSUME ExecutablesAssumption ==
    /\ \A headers \in Executables : WellFormed(headers)
    /\ PhdrOffset \in Nat \ {0}
    /\ MaxErrors \in Nat

Init ==
    /\ program \in {"apager", "loader"}
    /\ phdr \in Executables
    /\ i = 1
    /\ pc = "loading"
    /\ mem = [a \in Addr |-> 0]
    /\ prot = [p \in Page |-> {}]
    /\ atphdr = 0
    /\ errors = 0

----------------------------------------------------------------------------
(* The addresses from start up to end *)
Span(start, end) == {a \in Addr : start <= a /\ a < end}

(* Slip: memset starts at the size rounded up: it does nothing. *)
FileTailNone(seg) == {}

(* The rest of the last file page *)
FileTail(seg) == Span(First(seg) + FileReach(seg), First(seg) + PageAlign(FileReach(seg)))

FilePages(seg) == Span(First(seg), First(seg) + PageAlign(FileReach(seg)))

(* Slip: as many bytes as the segment has in memory. *)
BssPagesWholeSize(seg) ==
    LET bss == PageAlign(seg.vaddr + seg.filesz)
    IN  IF seg.memsz = seg.filesz THEN {} ELSE Span(bss, bss + PageAlign(seg.memsz))

(* The zeroed pages, from the first page without a file byte on. Their     *)
(* number is that of memsz - filesz bytes, though a part of these is in    *)
(* the last file page: there can be a page too many.                       *)
BssPages(seg) ==
    LET bss == PageAlign(seg.vaddr + seg.filesz)
    IN  Span(bss, bss + PageAlign(seg.memsz - seg.filesz))

(* A page of the file; the kernel fills it up with zeros behind the end. *)
Byte(seg, a) == IF FileOffset(seg, a) \in DOMAIN FileBytes THEN FileBytes[FileOffset(seg, a)] ELSE 0

(* memset ends the loader where a page is not there or not writable. *)
CanZero(bytes, rights) == \A a \in bytes : "W" \in rights[PageStart(a)]

(* Slip: prot|PROT_EXEC, as in loader.c, though memset comes before mprotect. *)
MapRightsNoWrite(seg) == Rights(seg) \cup {"X"}

(* prot|PROT_EXEC|PROT_WRITE, in loader.c prot|PROT_EXEC *)
MapRights(seg) == Rights(seg) \cup IF program = "apager" THEN {"W", "X"} ELSE {"X"}

(* mprotect(2) goes up to the first page that is not there.                *)
UpToHole(seg, rights) ==
    {p \in FilePages(seg) : \A q \in FilePages(seg) : q <= p => rights[PageStart(q)] # {}}

(* mmap(MAP_FIXED) of the file; apager zeroes the tail and calls mprotect.  *)
MapFile(seg, ok) ==
    LET tail   == IF program = "apager" THEN FileTail(seg) ELSE {}
        mapped == [p \in Page |-> IF ok /\ p \in FilePages(seg) THEN MapRights(seg) ELSE prot[p]]
    IN  [dies |-> ~CanZero(tail, mapped),
         mem  |-> [a \in Addr |-> IF a \in tail THEN 0
                                  ELSE IF ok /\ a \in FilePages(seg) THEN Byte(seg, a)
                                  ELSE mem[a]],
         prot |-> [p \in Page |->
                      IF program = "apager" /\ p \in UpToHole(seg, mapped)
                      THEN Rights(seg) ELSE mapped[p]]]

(* The mmap of zeroed pages, if memsz > filesz; apager zeroes them again. *)
MapBss(seg, ok, m) ==
    LET bss    == BssPages(seg)
        rights == [p \in Page |-> IF ok /\ p \in bss THEN Rights(seg) ELSE m.prot[p]]
        zeroed == Span(PageAlign(seg.vaddr + seg.filesz),
                       PageAlign(seg.vaddr + seg.filesz) + seg.memsz - seg.filesz)
    IN  [dies |-> program = "apager" /\ ~CanZero(zeroed, rights),
         mem  |-> [a \in Addr |-> IF ok /\ a \in bss THEN 0
                                  ELSE IF program = "apager" /\ a \in zeroed THEN 0
                                  ELSE m.mem[a]],
         prot |-> rights]

(* A header that is not PT_LOAD, or has nothing in the file *)
SkipHeader ==
    /\ pc = "loading"
    /\ i \in DOMAIN phdr
    /\ ~IsLoaded(phdr[i])
    /\ i' = i + 1
    /\ UNCHANGED <<program, phdr, pc, mem, prot, atphdr, errors>>

(* Slip: atphdr is set anew by every segment. *)
PhdrAddressLast(seg, ok) == IF ok THEN First(seg) + PhdrOffset ELSE PhdrOffset - 1

(* Slip: checker without the 64. *)
PhdrAddressChecker(seg, ok) ==
    IF atphdr # 0 THEN atphdr ELSE IF ok THEN First(seg) ELSE -1

(* checker + 64, of the first header that is mapped; checker is -1 if that *)
(* failed.                                                                 *)
PhdrAddress(seg, ok) ==
    IF atphdr # 0 THEN atphdr
    ELSE IF ok THEN First(seg) + PhdrOffset ELSE PhdrOffset - 1

(* One round of the loop *)
LoadHeader ==
    /\ pc = "loading"
    /\ i \in DOMAIN phdr
    /\ IsLoaded(phdr[i])
    /\ \E fileok, bssok \in BOOLEAN :
          LET seg    == phdr[i]
              hasBss == seg.memsz > seg.filesz
              file   == MapFile(seg, fileok)
              bss    == IF hasBss THEN MapBss(seg, bssok, file) ELSE [file EXCEPT !.dies = FALSE]
              failed == (IF fileok THEN 0 ELSE 1) + (IF bssok THEN 0 ELSE 1)
          IN  /\ hasBss \/ bssok
              /\ errors + failed <= MaxErrors
              /\ errors' = errors + failed
              /\ atphdr' = PhdrAddress(seg, fileok)
              /\ IF file.dies \/ bss.dies
                 THEN pc' = "crashed" /\ UNCHANGED <<i, mem, prot>>
                 ELSE i' = i + 1 /\ mem' = bss.mem /\ prot' = bss.prot /\ UNCHANGED pc
    /\ UNCHANGED <<program, phdr>>

(* entry = hdr->e_entry *)
Enter ==
    /\ pc = "loading"
    /\ i \notin DOMAIN phdr
    /\ pc' = "entry"
    /\ UNCHANGED <<program, phdr, i, mem, prot, atphdr, errors>>

Next == SkipHeader \/ LoadHeader \/ Enter

Spec == Init /\ [][Next]_vars

----------------------------------------------------------------------------
(* Properties *)

Loaded == {k \in DOMAIN phdr : k < i /\ IsLoaded(phdr[k])}

Owned(seg) == Span(First(seg), PageAlign(End(seg)))

TypeOK ==
    /\ program \in {"apager", "loader"}
    /\ WellFormed(phdr)
    /\ i \in 1 .. Len(phdr) + 1
    /\ pc \in {"loading", "crashed", "entry"}
    /\ mem \in [Addr -> {FileBytes[o] : o \in DOMAIN FileBytes} \cup {0}]
    /\ prot \in [Page -> SUBSET Right]
    /\ atphdr \in Nat
    /\ errors \in 0 .. MaxErrors

(* apager: every segment loaded so far is, to the last byte of its last    *)
(* page, the file's bytes and then zeros, and no mapping made since for    *)
(* another header has touched it. loader.c leaves in the last file page    *)
(* what the file has there: .bss may start with other bytes than zeros.    *)
ExpectedByte(seg, a) ==
    IF a < seg.vaddr + seg.filesz THEN Byte(seg, a)
    ELSE IF program = "loader" /\ a \in FileTail(seg) THEN Byte(seg, a)
    ELSE 0

SegmentsInPlace ==
    errors = 0 =>
        \A k \in Loaded : \A a \in Owned(phdr[k]) : mem[a] = ExpectedByte(phdr[k], a)

(* The pages of a loaded segment have just the rights its header gives and *)
(* reading; with loader.c, those from the file can be executed as well.    *)
SegmentsProtected ==
    errors = 0 =>
        \A k \in Loaded : \A a \in Owned(phdr[k]) :
            prot[PageStart(a)] = phdr[k].flags \cup {"R"} \cup
                (IF program = "loader" /\ a \in FilePages(phdr[k]) THEN {"X"} ELSE {})

(* What is mapped and no segment's are whole pages of zeros, at most one   *)
(* behind each segment with a .bss, even if a mapping failed.              *)
OnlySparePages ==
    \A a \in Addr :
        prot[PageStart(a)] # {} /\ (\A k \in Loaded : a \notin Owned(phdr[k])) =>
            /\ mem[a] = 0
            /\ \E k \in Loaded : /\ phdr[k].memsz > phdr[k].filesz
                                 /\ PageStart(a) = PageAlign(End(phdr[k]))

(* The loader itself only comes to grief, on its way to the jump, if a     *)
(* mapping failed, or in apager if a segment that is not writable has a    *)
(* .bss to be zeroed.                                                      *)
LoaderSurvives ==
    pc = "crashed" =>
        \/ errors > 0
        \/ program = "apager" /\ "W" \notin phdr[i].flags /\ phdr[i].memsz > phdr[i].filesz

(* loader.c, whose build_stack passes atphdr on as AT_PHDR (apager.c puts 0 *)
(* there): if the first segment is the start of the file, with the program *)
(* headers in it, they are still there when the program looks for them.    *)
HeadersFound ==
    program = "loader" /\ pc = "entry" /\ errors = 0 /\ Loaded # {} =>
        LET first == phdr[CHOOSE k \in Loaded : \A j \in Loaded : k <= j] IN
        PageStart(first.offset) = 0 /\ PhdrOffset < first.offset + first.filesz =>
            mem[atphdr] = FileBytes[PhdrOffset]
=============================================================================
