----------------------------- MODULE MemAccess -----------------------------
(***************************************************************************)
(* The measurements of AOS1.  open_read_perf.c opens a group of counters,  *)
(* maps memory, forks a competitor for memory, warms up, and counts events *)
(* while it walks over its memory, one working set of 512 cache lines      *)
(* after another or in random order.  comp.c opens and maps the same,      *)
(* enables no counter, and becomes the competitor itself, for good.        *)
(* test.c counts the page faults of a loop and checks nothing.  The events *)
(* counted are the walk's rounds.                                          *)
(*                                                                         *)
(* Each process has its own copy of the generator: the competitor's is the *)
(* parent's at the fork.                                                   *)
(***************************************************************************)
EXTENDS Xorshift

CONSTANTS
    Size,           \* bytes of the memory walked over: 1 GB
    FlushSize,      \* bytes of flush_mem: 512 KB
    Rounds,         \* rounds of do_mem_access: 2^17
    FlushRounds,    \* bound: rounds of do_mem_flush, 2 * max_base in the code
    MemPages,       \* what the competitor may find to be mem_size/page_sz
    MaxCompete,     \* bound: accesses of the competitor
    Garbage         \* the value of a variable never written

VARIABLES
    program,        \* which of the three
    random,         \* opt_random_access
    mset,           \* compiled with MSET
    pc,             \* where main is
    opened,         \* the counters of the group that could be opened
    counting,       \* the group is enabled
    count,          \* rounds since the counters were reset
    val,            \* what was read from each counter
    gen,            \* x, y, z, w
    ws_base, outer, \* of do_mem_flush and do_mem_access
    memory, flush_mem,  \* whether they are there; malloc may return NULL
    comp            \* the competing process

vars == <<program, random, mset, pc, opened, counting, count, val, gen, ws_base, outer, memory,
          flush_mem, comp>>

CACHE_LINE_SIZE == 64
WorkingSet == 512

MaxBase(size) == size \div CACHE_LINE_SIZE - WorkingSet

ASSUME MemAccessAssumption ==
    /\ Size \in Nat /\ MaxBase(Size) > 0
    /\ FlushSize \in Nat /\ MaxBase(FlushSize) > 0
    /\ Rounds \in Nat /\ FlushRounds \in Nat /\ MaxCompete \in Nat
    /\ MemPages \subseteq Int
    /\ Garbage \notin Nat

Counters == IF program = "test" THEN {1, 2} ELSE {1, 2, 3}

Competitor ==
    [state : {"none", "start", "running", "starved", "signalled", "crashed", "gone"},
     gen : Generator, pages : Int, n : 0 .. MaxCompete]

NoCompetitor == [state |-> "none", gen |-> Seed, pages |-> 0, n |-> 0]

Init ==
    /\ program \in {"open_read_perf", "comp", "test"}
    /\ random \in BOOLEAN
    /\ mset \in BOOLEAN
    /\ pc = "counters"
    /\ opened = {}
    /\ counting = FALSE
    /\ count = 0
    /\ val = [k \in Counters |-> Garbage]
    /\ gen = Seed
    /\ ws_base = 0
    /\ outer = 0
    /\ memory = FALSE /\ flush_mem = FALSE
    /\ comp = NoCompetitor

(* main goes on to another place and changes nothing but what x lists. *)
Goto(place) == pc' = place
Configured  == UNCHANGED <<program, random, mset>>
Allocated   == UNCHANGED <<memory, flush_mem>>

----------------------------------------------------------------------------
(* The group of counters: disabled, the first one leads. A counter that    *)
(* cannot be opened ends open_read_perf and comp; test goes on without it. *)
OpenCounters ==
    /\ pc = "counters"
    /\ \E got \in SUBSET Counters :
          /\ opened' = got
          /\ IF program = "test" THEN Goto("start")
             ELSE IF got = Counters THEN Goto("map") ELSE Goto("exited")
    /\ Configured /\ Allocated
    /\ UNCHANGED <<counting, count, val, gen, ws_base, outer, comp>>

(* MEMFD and the mapping, which may fail, or malloc, if compiled without   *)
(* MMAP_ALLOC: its NULL is not MAP_FAILED, and main goes on without memory.*)
MapMemory ==
    /\ pc = "map"
    /\ \/ Goto("exited") /\ UNCHANGED memory
       \/ Goto(IF program = "comp" THEN "mset" ELSE "fork") /\ memory' \in BOOLEAN
    /\ Configured
    /\ UNCHANGED <<opened, counting, count, val, gen, ws_base, outer, flush_mem, comp>>

(* A fork that fails leaves id = -1, unnoticed. *)
Fork ==
    /\ pc = "fork"
    /\ \/ comp' = [NoCompetitor EXCEPT !.state = "start", !.gen = gen]
       \/ UNCHANGED comp
    /\ Goto("mset")
    /\ Configured /\ Allocated
    /\ UNCHANGED <<opened, counting, count, val, gen, ws_base, outer>>

(* memset and msync, when compiled in; then malloc of flush_mem, whose     *)
(* result nobody looks at                                                  *)
MemsetMsync ==
    /\ pc = "mset"
    /\ \/ mset /\ ~memory /\ Goto("crashed") /\ UNCHANGED flush_mem
       \/ mset /\ memory /\ Goto("exited") /\ UNCHANGED flush_mem
       \/ /\ mset => memory
          /\ IF program = "comp" THEN Goto("rusage") /\ UNCHANGED flush_mem
             ELSE Goto("flush") /\ flush_mem' \in BOOLEAN
    /\ Configured
    /\ UNCHANGED <<opened, counting, count, val, gen, ws_base, outer, memory, comp>>

InFlushMem(byte) == 0 <= byte /\ byte + WorkingSet * CACHE_LINE_SIZE <= FlushSize

(* One round of do_mem_flush: 512 lines from byte ws_base on *)
Flush ==
    /\ pc = "flush"
    /\ IF outer = FlushRounds
       THEN Goto("start") /\ ws_base' = 0 /\ outer' = 0
       ELSE /\ ws_base' = IF ws_base + 512 >= MaxBase(FlushSize) THEN 0 ELSE ws_base + 512
            /\ outer' = outer + 1
            /\ IF flush_mem /\ InFlushMem(ws_base') THEN UNCHANGED pc ELSE Goto("crashed")
    /\ Configured /\ Allocated
    /\ UNCHANGED <<opened, counting, count, val, gen, comp>>

(* Slip: the counters are enabled before the flush. *)
StartUnreset ==
    /\ pc = "start"
    /\ \/ Goto("exited") /\ program # "test" /\ UNCHANGED <<counting, count>>
       \/ Goto("access") /\ counting' = (1 \in opened) /\ count' = outer + FlushRounds
    /\ Configured /\ Allocated
    /\ UNCHANGED <<opened, val, gen, ws_base, outer, comp>>

(* getrusage, PERF_EVENT_IOC_RESET and _ENABLE *)
Start ==
    /\ pc = "start"
    /\ \/ Goto("exited") /\ program # "test" /\ UNCHANGED <<counting, count>>
       \/ Goto("access") /\ counting' = (1 \in opened) /\ count' = 0
    /\ Configured /\ Allocated
    /\ UNCHANGED <<opened, val, gen, ws_base, outer, comp>>

Inside(line) == 0 <= line /\ (line + WorkingSet) * CACHE_LINE_SIZE <= Size

(* Slip: the end of the next working set is compared, not its start. *)
NextBaseEarly(r) ==
    IF random THEN r
    ELSE IF ws_base + 2 * 512 >= MaxBase(Size) THEN 0 ELSE ws_base + 512

(* The first line of the next round's working set. The comment beside the  *)
(* step says "8 cache lines", 512 bytes, which is do_mem_flush's step; here*)
(* the unit is the line.                                                   *)
NextBase(r) ==
    IF random THEN r
    ELSE IF ws_base + 512 >= MaxBase(Size) THEN 0 ELSE ws_base + 512

(* One round of do_mem_access; an access outside the memory, or at NULL,   *)
(* ends the process.                                                       *)
Round ==
    LET g    == simplerand(gen)
        base == NextBase(Remainder(g.w, MaxBase(Size)))
    IN  /\ gen' = g
        /\ ws_base' = base
        /\ outer' = outer + 1
        /\ IF memory /\ Inside(base) THEN UNCHANGED pc ELSE Goto("crashed")

Access ==
    /\ pc = "access"
    /\ program # "test"
    /\ outer < Rounds
    /\ Round
    /\ count' = IF counting THEN count + 1 ELSE count
    /\ Configured /\ Allocated
    /\ UNCHANGED <<opened, counting, val, comp>>

(* do_something of test.c *)
DoSomething ==
    /\ pc = "access"
    /\ program = "test"
    /\ outer < Rounds
    /\ outer' = Rounds
    /\ count' = IF counting THEN Rounds ELSE count
    /\ Configured /\ Allocated
    /\ UNCHANGED <<pc, opened, counting, val, gen, ws_base, comp>>

(* PERF_EVENT_IOC_DISABLE and getrusage *)
Stop ==
    /\ pc = "access"
    /\ outer = Rounds
    /\ Goto("read") \/ (Goto("exited") /\ program # "test")
    /\ counting' = FALSE
    /\ Configured /\ Allocated
    /\ UNCHANGED <<opened, count, val, gen, ws_base, outer, comp>>

(* comp: getrusage and compete_for_memory, which does not return *)
BecomeCompetitor ==
    /\ pc = "rusage"
    /\ \/ Goto("exited") /\ UNCHANGED comp
       \/ /\ Goto("compete")
          /\ comp' = [NoCompetitor EXCEPT !.state = "start", !.gen = gen]
    /\ Configured /\ Allocated
    /\ UNCHANGED <<opened, counting, count, val, gen, ws_base, outer>>

(* read(fd1): the values of the group, told apart by their ids. A variable *)
(* whose id does not occur keeps what it held.                             *)
ReadCounters ==
    /\ pc = "read"
    /\ val' = [k \in Counters |-> IF {1, k} \subseteq opened THEN count ELSE val[k]]
    /\ Goto(IF program = "test" THEN "done" ELSE "kill")
    /\ Configured /\ Allocated
    /\ UNCHANGED <<opened, counting, count, gen, ws_base, outer, comp>>

(* Slip: main returns without kill. *)
KillForgotten ==
    /\ pc = "kill"
    /\ Goto("done")
    /\ Configured /\ Allocated
    /\ UNCHANGED <<opened, counting, count, val, gen, ws_base, outer, comp>>

(* kill(id, 15) and return; the signal is delivered to a child that is     *)
(* still there.  (With id = -1 it is sent to every other process of the    *)
(* user; they are not in the model.)                                       *)
Kill ==
    /\ pc = "kill"
    /\ comp' = [comp EXCEPT !.state = IF @ \in {"start", "running"} THEN "signalled" ELSE @]
    /\ Goto("done")
    /\ Configured /\ Allocated
    /\ UNCHANGED <<opened, counting, count, val, gen, ws_base, outer>>

Main ==
    \/ OpenCounters \/ MapMemory \/ Fork \/ MemsetMsync \/ Flush \/ Start
    \/ Access \/ DoSomething \/ Stop \/ BecomeCompetitor \/ ReadCounters \/ Kill

----------------------------------------------------------------------------
(* compete_for_memory *)

UnchangedMain ==
    /\ Configured /\ Allocated
    /\ UNCHANGED <<pc, opened, counting, count, val, gen, ws_base, outer>>

(* get_mem_size, which may exit, and mmap. A size that is not positive     *)
(* cannot be mapped; a mapping that fails is reported and used all the     *)
(* same.                                                                   *)
CompetitorMaps ==
    /\ comp.state = "start"
    /\ \/ comp' = [comp EXCEPT !.state = "gone"]
       \/ \E pages \in MemPages :
             \/ pages > 0 /\ comp' = [comp EXCEPT !.state = "running", !.pages = pages]
             \/ comp' = [comp EXCEPT !.state = "starved", !.pages = pages]
    /\ UnchangedMain

(* One access to a page; beside the mapping it ends the process. *)
Compete ==
    /\ comp.state = "running"
    /\ comp.n < MaxCompete
    /\ LET g == simplerand(comp.gen)
           r == Remainder(g.w, comp.pages)
       IN  comp' = [comp EXCEPT !.gen = g, !.n = @ + 1,
                                !.state = IF r \in 0 .. comp.pages - 1 THEN @ ELSE "crashed"]
    /\ UnchangedMain

(* a division by zero, an access at MAP_FAILED, or SIGTERM *)
CompetitorDies ==
    /\ comp.state \in {"starved", "signalled"}
    /\ comp' = [comp EXCEPT !.state = "gone"]
    /\ UnchangedMain

Next == Main \/ CompetitorMaps \/ Compete \/ CompetitorDies

Spec == Init /\ [][Next]_vars

(* The kernel delivers a signal. *)
FairSpec == Spec /\ WF_vars(CompetitorDies)

----------------------------------------------------------------------------
(* Properties *)

TypeOK ==
    /\ program \in {"open_read_perf", "comp", "test"}
    /\ random \in BOOLEAN /\ mset \in BOOLEAN
    /\ opened \subseteq Counters
    /\ counting \in BOOLEAN
    /\ count \in 0 .. Rounds
    /\ val \in [Counters -> (0 .. Rounds) \cup {Garbage}]
    /\ gen \in Generator
    /\ outer \in 0 .. Rounds + FlushRounds
    /\ memory \in BOOLEAN /\ flush_mem \in BOOLEAN
    /\ comp \in Competitor

(* simplerand never returns a negative number, in either process, although *)
(* its longs are signed and fill up to the top: both arithmetic right      *)
(* shifts, xored with what they shift, clear the sign. Hence an offset     *)
(* taken from it with % is never negative.                                 *)
NeverNegative ==
    \A g \in {gen, comp.gen} : Sign \notin g.x \cup g.y \cup g.z \cup g.w

(* No working set of the flush or the walk reaches beyond its memory, and  *)
(* the competitor never touches a byte beside its mapping: main is stopped *)
(* by an access only if malloc gave it no memory, the competitor never.    *)
AccessesInside ==
    /\ pc = "crashed" => ~memory \/ ~flush_mem
    /\ comp.state # "crashed"

(* Sequentially, a round begins at the latest where the one before ended,  *)
(* so no line between them is left out, and the walk turns back to the     *)
(* start only when at most one working set of lines is left.  (It holds    *)
(* for the step the code makes and for the one its comment speaks of.)     *)
SweepsLeaveNoGap ==
    [][pc = "access" /\ program # "test" /\ ~random /\ outer' # outer =>
          \/ ws_base < ws_base' /\ ws_base' <= ws_base + WorkingSet
          \/ ws_base' = 0 /\ Size \div CACHE_LINE_SIZE - (ws_base + WorkingSet) <= WorkingSet]_vars

(* What open_read_perf prints is the count of exactly the walk: not of the *)
(* flush before it, and no variable that was never written. test.c has the *)
(* same only if its counters could be opened.                              *)
PrintsTheWalk ==
    pc \in {"kill", "done"} /\ (program = "test" => opened = Counters) =>
        \A k \in Counters : val[k] = Rounds

(* A measurement that gets to its end leaves no competitor behind. (One    *)
(* that exits on an error after the fork, or crashes, does.)               *)
CompetitorStops ==
    pc = "done" /\ comp.state # "none" ~> comp.state \in {"gone", "crashed"}
=============================================================================
