--------------------------- MODULE MCDemandPager ---------------------------
(***************************************************************************)
(* Small executables for DemandPager, with pages of two bytes.             *)
(***************************************************************************)
EXTENDS DemandPager

Seg(vaddr, offset, filesz, memsz, flags) ==
    [vaddr |-> vaddr, offset |-> offset, filesz |-> filesz, memsz |-> memsz, flags |-> flags]

(* Page-aligned segments: code, and data with a .bss that starts in the    *)
(* middle of a page and goes on over two pages the file does not have.     *)
AlignedSegments == << Seg(2, 0, 4, 4, {"R", "X"}), Seg(8, 4, 3, 7, {"R", "W"}) >>

(* The layout of simple.exe: code, a read-write segment that begins and    *)
(* ends inside a page, and data with a .bss.                               *)
SimpleExeSegments ==
    << Seg(2, 0, 4, 4, {"R", "X"}), Seg(7, 5, 4, 4, {"R", "W"}), Seg(12, 10, 3, 8, {"R", "W"}) >>

(* No byte of the file is 0, and none is what the program stores. *)
SmallFile   == [o \in 0 .. 14 |-> o + 1]
Stored      == 99
SmallValues == (0 .. 15) \cup {Stored}

Do(by, kind, addrs) ==
    {[by |-> by, kind |-> kind, addr |-> a, val |-> Stored] : a \in addrs}

AlignedAccesses ==
    Do("cpu", "X", {3}) \cup Do("cpu", "R", {4, 11, 14}) \cup Do("cpu", "W", {9, 10, 13})
       \cup Do("kernel", "R", {13}) \cup Do("kernel", "W", {14})

HpagerAccesses ==
    Do("cpu", "X", {3}) \cup Do("cpu", "R", {8, 14, 19}) \cup Do("cpu", "W", {10, 13, 17})

(* The accesses of a program with errors: a null pointer, stores to code,  *)
(* addresses in a hole and beside a segment, in a page it shares; and some *)
(* that are right.                                                         *)
WildAccesses ==
    Do("cpu", "X", {3}) \cup Do("cpu", "R", {0, 6, 14, 19}) \cup Do("cpu", "W", {2, 4, 8, 10, 13, 20})
       \cup Do("kernel", "W", {5, 16})
=============================================================================
