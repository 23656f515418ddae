--------------------------- MODULE ProgramMemory ---------------------------
(***************************************************************************)
(* What a loaded program may rely on: its memory starts as the image of    *)
(* its file, a load returns the last value stored, only writable bytes     *)
(* are ever stored to, and an access outside its memory is never           *)
(* completed.  The abstract specification the pagers of AOS3 (dpager.c,    *)
(* hpager.c) are compared with: it knows neither pages nor faults.         *)
(***************************************************************************)
CONSTANTS
    Bytes,      \* the addresses the program owns
    Writable,   \* those of them it may store to
    Image,      \* [Bytes -> value]: their initial contents
    Accesses,   \* the accesses the program makes
    NoAccess,   \* no access is under way
    Efault      \* what a refused system call returns

VARIABLES
    view,       \* [Bytes -> value]: the memory as the program sees it
    pending,    \* the access under way, or NoAccess
    reg,        \* the value the last load or fetch returned
    exited      \* the process is gone

vars == <<view, pending, reg, exited>>

Init ==
    /\ view = Image
    /\ pending = NoAccess
    /\ reg = Efault
    /\ exited = FALSE

Issue(acc) ==
    /\ ~exited
    /\ pending = NoAccess
    /\ pending' = acc
    /\ UNCHANGED <<view, reg, exited>>

Load ==
    /\ pending # NoAccess
    /\ pending.kind \in {"R", "X"}
    /\ pending.addr \in Bytes
    /\ reg' = view[pending.addr]
    /\ pending' = NoAccess
    /\ UNCHANGED <<view, exited>>

Store ==
    /\ pending # NoAccess
    /\ pending.kind = "W"
    /\ pending.addr \in Writable
    /\ view' = [view EXCEPT ![pending.addr] = pending.val]
    /\ pending' = NoAccess
    /\ UNCHANGED <<reg, exited>>

(* A system call is told that its buffer is bad; the CPU is never told. *)
Refuse ==
    /\ pending # NoAccess
    /\ pending.by = "kernel"
    /\ reg' = Efault
    /\ pending' = NoAccess
    /\ UNCHANGED <<view, exited>>

Exit ==
    /\ pending # NoAccess
    /\ exited' = TRUE
    /\ pending' = NoAccess
    /\ UNCHANGED <<view, reg>>

Next ==
    \/ \E acc \in Accesses : Issue(acc)
    \/ Load
    \/ Store
    \/ Refuse
    \/ Exit

Spec == Init /\ [][Next]_vars
=============================================================================
