------------------------------- MODULE Pages -------------------------------
(***************************************************************************)
(* Pages, program headers and the executable, as the loaders and pagers of *)
(* AOS3 see them: what apager.c, loader.c, dpager.c and hpager.c share.    *)
(***************************************************************************)
EXTENDS Integers, Sequences

CONSTANTS
    PageSize,
    MaxAddr,        \* bound of the modelled address space
    FileBytes       \* the executable: [file offset -> value]

ASSUME PagesAssumption ==
    /\ PageSize \in Nat \ {0}
    /\ MaxAddr \in Nat

Right == {"R", "W", "X"}
Addr  == 0 .. MaxAddr

PageStart(x)  == x - (x % PageSize)
PageOffset(x) == x % PageSize
PageAlign(x)  == PageStart(x + PageSize - 1)

Page == {PageStart(a) : a \in Addr}

Segment == [vaddr : Nat, offset : Nat, filesz : Nat, memsz : Nat, flags : SUBSET Right]

(* Slips: the protection without PROT_READ, with p_flags & PF_W == 1 (as in *)
(* a comment of main) for the test of PF_W, and with PROT_WRITE always.     *)
RightsWithoutRead(seg) == seg.flags \cap {"W", "X"}
RightsWithoutWrite(seg) == (seg.flags \cap {"X"}) \cup {"R"}
RightsAlwaysWrite(seg) == seg.flags \cup {"R", "W"}

(* The protection of a segment's pages *)
Rights(seg) == (seg.flags \cap {"W", "X"}) \cup {"R"}

(* How far the file's part of a segment reaches, from the start of its     *)
(* first page.                                                             *)
FileReach(seg) == seg.filesz + PageOffset(seg.vaddr)

(* Where in the file the byte at address a of seg's pages comes from *)
FileOffset(seg, a) == a - PageStart(seg.vaddr) + (seg.offset - PageOffset(seg.vaddr))
=============================================================================
