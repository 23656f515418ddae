--------------------------- MODULE MCEagerLoader ---------------------------
(***************************************************************************)
(* Executables for EagerLoader: every pair of small segments that begin,   *)
(* end and have their .bss anywhere in pages of two bytes, and some with a *)
(* header of another type in front.                                        *)
(***************************************************************************)
EXTENDS EagerLoader

SmallFile == [o \in 0 .. 9 |-> o + 1]

Headers(types, vaddrs, offsets, flags) ==
    {[type |-> t, vaddr |-> v, offset |-> o, filesz |-> f, memsz |-> f + z, flags |-> r] :
        t \in types, v \in vaddrs, o \in offsets, f \in 0 .. 3, z \in {0, 1, 3}, r \in flags}

Text == Headers({"LOAD"}, 2 .. 3, {0, 1}, {{"R", "X"}, {"W"}})
Data == Headers({"LOAD"}, 4 .. 9, {4, 5}, {{"R", "W"}})
Note == Headers({"OTHER"}, {2}, {0}, {{"R"}})

SmallExecutables ==
    {h \in {<<t, d>> : t \in Text, d \in Data}
           \cup {<<n, d>> : n \in Note, d \in Data}
           \cup {<<t, n, d>> : t \in Text, n \in {x \in Note : x.filesz = 3}, d \in {x \in Data : x.vaddr = 6}} :
        WellFormed(h)}
=============================================================================
