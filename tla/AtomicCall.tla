----------------------------- MODULE AtomicCall -----------------------------
(***************************************************************************)
(* What a caller of send_through_net (AOS2/client_fs.c) may rely on: a     *)
(* call runs its own operation on its own arguments on the server, once,   *)
(* and returns what that run reported.  No datagrams, sockets or queues.   *)
(***************************************************************************)
EXTENDS Sequences

CONSTANTS
    CallIds,    \* names of the calls
    Ops,        \* the operations
    NoOp        \* no operation yet

VARIABLES
    op,         \* [CallIds -> Ops \cup {NoOp}]: what was asked, NoOp before the call
    runs,       \* what the server ran, in order: [call, op, ok, own]
    returns     \* what the calls returned, in order: [call, ok, own]

vars == <<op, runs, returns>>

Ran(k, ok)  == \E i \in DOMAIN runs : runs[i].call = k /\ runs[i].ok = ok
Returned(k) == \E i \in DOMAIN returns : returns[i].call = k

Init ==
    /\ op = [k \in CallIds |-> NoOp]
    /\ runs = << >>
    /\ returns = << >>

Invoke(k, o) ==
    /\ op[k] = NoOp
    /\ op' = [op EXCEPT ![k] = o]
    /\ UNCHANGED <<runs, returns>>

(* own: with the arguments of this call and no other's *)
Execute(k, ok) ==
    /\ op[k] # NoOp
    /\ ~Ran(k, TRUE) /\ ~Ran(k, FALSE)
    /\ runs' = Append(runs, [call |-> k, op |-> op[k], ok |-> ok, own |-> TRUE])
    /\ UNCHANGED <<op, returns>>

Return(k, ok) ==
    /\ Ran(k, ok)
    /\ ~Returned(k)
    /\ returns' = Append(returns, [call |-> k, ok |-> ok, own |-> TRUE])
    /\ UNCHANGED <<op, runs>>

Next ==
    \E k \in CallIds :
        \/ \E o \in Ops : Invoke(k, o)
        \/ \E ok \in BOOLEAN : Execute(k, ok) \/ Return(k, ok)

Spec == Init /\ [][Next]_vars
=============================================================================
