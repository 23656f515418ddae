------------------------------- MODULE UdpRpc -------------------------------
(***************************************************************************)
(* The protocol of AOS2 between the FUSE client (client_fs.c, function     *)
(* send_through_net) and the server (server_fs.c): every call opens a new  *)
(* UDP socket, sends an opcode, a path and perhaps more, each in its own   *)
(* datagram, and waits, without a timeout, for one or more replies.  The   *)
(* server has one socket and one thread: it reads an opcode, then whatever *)
(* datagrams come next, from whoever, as the operation's arguments, and    *)
(* answers the sender of the last one.                                     *)
(*                                                                         *)
(* A client is a mount started with -s, as the README of AOS2 says (one    *)
(* call at a time); the worker threads of a mount without -s behave as so  *)
(* many clients.  The file system behind the operations is not modelled:   *)
(* an operation succeeds or fails.                                         *)
(***************************************************************************)
EXTENDS Integers, Sequences

CONSTANTS
    Clients,
    Ops,            \* the operations the clients call
    NoOp,           \* no operation; a datagram that is no opcode
    MaxCalls,       \* bound: calls of one client
    MaxLost,        \* bound: datagrams the network drops
    Lossy,          \* bound: the operations in whose calls it drops them
    MaxRestarts,    \* bound: clients killed and mounted again
    LargeDirs       \* a directory may have more entries than fit in a datagram

VARIABLES
    client,     \* the client's side of its call
    inbox,      \* datagrams queued at the server's socket
    replies,    \* [Clients -> datagrams queued at the socket of the client's call]
    server,     \* the handler the server is in, and the datagrams it has read
    executed,   \* history: the operations the server ran
    answers,    \* history: [call |-> , op |-> , got |-> ] of every call that returned
    lost, restarts

vars == <<client, inbox, replies, server, executed, answers, lost, restarts>>

ASSUME RpcAssumption ==
    /\ MaxCalls \in Nat /\ MaxLost \in Nat /\ MaxRestarts \in Nat
    /\ LargeDirs \in BOOLEAN
    /\ NoOp \notin Ops
    /\ Lossy \subseteq Ops

----------------------------------------------------------------------------
(* The datagrams *)

(* A call sends them from a socket of its own: <<c, n>> stands for its     *)
(* address.  The kernel is assumed not to give the port of a closed socket *)
(* to a later call while datagrams of the earlier are still about.         *)
CallIds == Clients \X (1 .. MaxCalls)

Queries == {"GETATTR", "ACCESS", "READLINK", "READDIR", "OPEN", "READ", "RELEASE"}
TwoPaths == {"SYMLINK", "RENAME", "LINK"}
Updates == {"MKDIR", "UNLINK", "RMDIR", "CHMOD", "MKNOD", "UTIME", "WRITE"} \cup TwoPaths

(* the cases of the server's switch *)
Dispatched == Queries \cup Updates

ASSUME NoOpAssumption == NoOp \notin Dispatched

(* What a datagram to the server, and one from it, can be *)
RequestKind == {"opcode", "path", "joined", "args", "size", "buf", "mode", "flags", "times", "data"}
ReplyKind   == {"res", "stat", "f_path", "buf", "data", "n", "entries"}

(* What send_through_net sends after the opcode. Two paths travel in one   *)
(* datagram, joined by the byte \27.                                       *)
Sends(op) ==
    <<IF op \in TwoPaths THEN "joined" ELSE "path">> \o
    CASE op = "ACCESS"                        -> <<"args">>
      [] op = "READLINK"                      -> <<"size", "buf">>
      [] op \in {"MKDIR", "CHMOD", "MKNOD"}   -> <<"mode">>
      [] op = "OPEN"                          -> <<"flags">>
      [] op = "UTIME"                         -> <<"times">>
      [] op = "READ"                          -> <<"args">>
      [] op = "WRITE"                         -> <<"args", "data">>
      [] OTHER                                -> << >>

(* Slip: the handlers forget the mode. *)
TakesNoMode(op) == IF op \in {"READLINK", "WRITE"} THEN 3 ELSE 1

(* How many datagrams the server's handler reads.                          *)
Takes(op) ==
    CASE op \in {"READLINK", "WRITE"}                                           -> 3
      [] op \in {"ACCESS", "MKDIR", "CHMOD", "MKNOD", "OPEN", "UTIME", "READ"} -> 2
      [] OTHER                                                                 -> 1

(* Slip: the handler answers a failed GETATTR with its result alone.       *)
GivesResultFirst(op, ok, fits) ==
    IF ~ok THEN <<"res">>
    ELSE CASE op = "GETATTR" -> <<"res", "stat">>
           [] op = "READLINK" -> <<"res", "buf">>
           [] op = "READDIR" -> <<"res", "n", "entries">>
           [] op = "OPEN" -> <<"res", "f_path">>
           [] op = "RELEASE" -> <<"f_path">>
           [] OTHER -> <<"res">>

(* What the handler sends back. sendto fails, unnoticed, for the entries   *)
(* of a directory that do not fit in one datagram.                         *)
Gives(op, ok, fits) ==
    CASE op = "GETATTR"                            -> <<"res", "stat">>
      [] op = "RELEASE"                            -> <<"f_path">>
      [] op = "READLINK" /\ ok                     -> <<"res", "buf">>
      [] op = "OPEN" /\ ok                         -> <<"res", "f_path">>
      [] op = "READ" /\ ok                         -> <<"res", "data">>
      [] op = "READDIR" /\ ok /\ fits              -> <<"res", "n", "entries">>
      [] op = "READDIR" /\ ok /\ ~fits             -> <<"res", "n">>
      [] OTHER                                     -> <<"res">>

(* How many more datagrams the client waits for once it has the first: it  *)
(* looks at res._res, except for GETATTR, which always has two.            *)
Follow(op, ok) ==
    CASE op = "GETATTR"                            -> 1
      [] op \in {"READLINK", "OPEN", "READ"} /\ ok -> 1
      [] op = "READDIR" /\ ok                      -> 2
      [] OTHER                                     -> 0

(* What the client takes the first reply for. A datagram that is not a res *)
(* is read as one all the same: text and inode numbers can be negative,    *)
(* counts, device numbers and paths are not.                               *)
TakenForSuccess(reply) ==
    IF reply.kind = "res" THEN {reply.ok}
    ELSE IF reply.kind \in {"buf", "entries", "data"} THEN BOOLEAN
    ELSE {TRUE}

(* What the server takes a datagram for when it waits for an opcode. A     *)
(* path begins with '/' (47, no opcode), the flags of an open carry        *)
(* O_LARGEFILE, the size of a link buffer is 4097; the others may hold     *)
(* any number.                                                             *)
ReadAsOpcode(d) ==
    IF d.kind = "opcode" THEN {d.op}
    ELSE IF d.kind \in {"path", "joined", "flags", "size"} THEN {NoOp}
    ELSE Dispatched \cup {NoOp}

(* Whether strtok finds two paths in a datagram. *)
ReadAsJoined(d) ==
    IF d.kind = "joined" THEN {TRUE}
    ELSE IF d.kind \in {"opcode", "path", "flags", "size"} THEN {FALSE}
    ELSE BOOLEAN

----------------------------------------------------------------------------
Idle == [pc |-> "idle", n |-> 0, op |-> NoOp, left |-> << >>, got |-> << >>, want |-> 0]
Top  == [pc |-> "top", op |-> NoOp, root |-> << >>, args |-> << >>]

Init ==
    /\ client = [c \in Clients |-> Idle]
    /\ inbox = << >>
    /\ replies = [c \in Clients |-> << >>]
    /\ server = Top
    /\ executed = << >>
    /\ answers = << >>
    /\ lost = 0
    /\ restarts = 0

(* Slip: the client keeps one socket for all its calls. *)
CallOnOldSocket(c, op) ==
    /\ client[c].pc = "idle"
    /\ client[c].n < MaxCalls
    /\ LET k    == <<c, client[c].n + 1>>
           Dgram(kind) == [from |-> k, op |-> op, kind |-> kind]
           kinds == <<"opcode">> \o Sends(op)
       IN client' = [client EXCEPT ![c] =
              [pc |-> "send", n |-> k[2], op |-> op, got |-> << >>, want |-> 1,
               left |-> [i \in DOMAIN kinds |-> Dgram(kinds[i])]]]
    /\ UNCHANGED <<replies, inbox, server, executed, answers, lost, restarts>>

(* send_through_net is entered: a new socket, nothing sent yet *)
Call(c, op) ==
    /\ client[c].pc = "idle"
    /\ client[c].n < MaxCalls
    /\ LET k    == <<c, client[c].n + 1>>
           Dgram(kind) == [from |-> k, op |-> op, kind |-> kind]
           kinds == <<"opcode">> \o Sends(op)
       IN client' = [client EXCEPT ![c] =
              [pc |-> "send", n |-> k[2], op |-> op, got |-> << >>, want |-> 1,
               left |-> [i \in DOMAIN kinds |-> Dgram(kinds[i])]]]
    /\ replies' = [replies EXCEPT ![c] = << >>]
    /\ UNCHANGED <<inbox, server, executed, answers, lost, restarts>>

(* Slip: the client goes on to wait one datagram early. *)
SendAllButOne(c) ==
    /\ client[c].pc = "send"
    /\ \/ /\ server.pc # "crashed"
          /\ inbox' = Append(inbox, Head(client[c].left))
          /\ UNCHANGED lost
       \/ /\ server.pc = "crashed"
          /\ UNCHANGED <<inbox, lost>>
       \/ /\ lost < MaxLost
          /\ client[c].op \in Lossy
          /\ lost' = lost + 1
          /\ UNCHANGED inbox
    /\ client' = [client EXCEPT
          ![c].left = Tail(@),
          ![c].pc = IF Len(client[c].left) = 2 THEN "recv" ELSE "send"]
    /\ UNCHANGED <<replies, server, executed, answers, restarts>>

(* one sendto; the datagram may be lost, as it is when the server is gone *)
Send(c) ==
    /\ client[c].pc = "send"
    /\ \/ /\ server.pc # "crashed"
          /\ inbox' = Append(inbox, Head(client[c].left))
          /\ UNCHANGED lost
       \/ /\ server.pc = "crashed"
          /\ UNCHANGED <<inbox, lost>>
       \/ /\ lost < MaxLost
          /\ client[c].op \in Lossy
          /\ lost' = lost + 1
          /\ UNCHANGED inbox
    /\ client' = [client EXCEPT
          ![c].left = Tail(@),
          ![c].pc = IF Len(client[c].left) = 1 THEN "recv" ELSE "send"]
    /\ UNCHANGED <<replies, server, executed, answers, restarts>>

(* Slip: recvfrom gives up after a while. *)
RecvGivesUp(c) ==
    /\ client[c].pc = "recv"
    /\ client' = [client EXCEPT ![c] = [Idle EXCEPT !.n = client[c].n]]
    /\ UNCHANGED <<inbox, replies, server, executed, answers, lost, restarts>>

(* one recvfrom; with the last one the call returns *)
Recv(c) ==
    /\ client[c].pc = "recv"
    /\ replies[c] # << >>
    /\ \E ok \in TakenForSuccess(Head(replies[c])) :
          LET me   == client[c]
              got  == Append(me.got, Head(replies[c]))
              want == IF me.got = << >> THEN 1 + Follow(me.op, ok) ELSE me.want
          IN  IF Len(got) < want
              THEN /\ client' = [client EXCEPT ![c].got = got, ![c].want = want]
                   /\ UNCHANGED answers
              ELSE /\ client' = [client EXCEPT ![c] = [Idle EXCEPT !.n = me.n]]
                   /\ answers' = Append(answers, [call |-> <<c, me.n>>, op |-> me.op, got |-> got])
    /\ replies' = [replies EXCEPT ![c] = Tail(@)]
    /\ UNCHANGED <<inbox, server, executed, lost, restarts>>

(* The user kills a client that hangs and mounts again; the socket is gone. *)
Restart(c) ==
    /\ client[c].pc \in {"send", "recv"}
    /\ restarts < MaxRestarts
    /\ restarts' = restarts + 1
    /\ client' = [client EXCEPT ![c] = [Idle EXCEPT !.n = client[c].n]]
    /\ UNCHANGED <<inbox, replies, server, executed, answers, lost>>

----------------------------------------------------------------------------
(* The server's loop: recvfrom, switch *)
ServerReadsOpcode ==
    /\ server.pc = "top"
    /\ inbox # << >>
    /\ inbox' = Tail(inbox)
    /\ \E op \in ReadAsOpcode(Head(inbox)) :
          server' = IF op \in Dispatched
                    THEN [pc |-> "handler", op |-> op, root |-> <<Head(inbox)>>, args |-> << >>]
                    ELSE Top
    /\ UNCHANGED <<client, replies, executed, answers, lost, restarts>>

(* a recvfrom of a handler, not its last *)
HandlerReads ==
    /\ server.pc = "handler"
    /\ inbox # << >>
    /\ Len(server.args) + 1 < Takes(server.op)
    /\ inbox' = Tail(inbox)
    /\ server' = [server EXCEPT !.args = Append(@, Head(inbox))]
    /\ UNCHANGED <<client, replies, executed, answers, lost, restarts>>

(* strtok returns NULL for the second path, and strlen(NULL) ends the server *)
HandlerCrashes ==
    /\ server.pc = "handler"
    /\ inbox # << >>
    /\ server.op \in TwoPaths
    /\ FALSE \in ReadAsJoined(Head(inbox))
    /\ server' = [Top EXCEPT !.pc = "crashed"]
    /\ inbox' = << >>
    /\ UNCHANGED <<client, replies, executed, answers, lost, restarts>>

(* The last recvfrom, the system call, and the replies, sent to whom that  *)
(* last datagram came from; if that socket is closed they are dropped.     *)
HandlerExecutes ==
    /\ server.pc = "handler"
    /\ inbox # << >>
    /\ Len(server.args) + 1 = Takes(server.op)
    /\ server.op \in TwoPaths => TRUE \in ReadAsJoined(Head(inbox))
    /\ \E ok \in IF server.op = "RELEASE" THEN {TRUE} ELSE BOOLEAN, fits \in {TRUE, ~LargeDirs} :
          LET peer  == Head(inbox).from
              kinds == Gives(server.op, ok, fits)
              sent  == [i \in DOMAIN kinds |->
                           [exec |-> Len(executed) + 1, kind |-> kinds[i], ok |-> ok]]
          IN  /\ replies' = IF client[peer[1]].pc # "idle" /\ client[peer[1]].n = peer[2]
                            THEN [replies EXCEPT ![peer[1]] = @ \o sent]
                            ELSE replies
              /\ executed' = Append(executed,
                    [root |-> server.root[1], op |-> server.op, ok |-> ok, fits |-> fits,
                     args |-> Append(server.args, Head(inbox))])
    /\ inbox' = Tail(inbox)
    /\ server' = Top
    /\ UNCHANGED <<client, answers, lost, restarts>>

(* A reply is lost on its way. *)
LoseReply(c) ==
    /\ replies[c] # << >>
    /\ lost < MaxLost
    /\ client[c].op \in Lossy
    /\ lost' = lost + 1
    /\ replies' = [replies EXCEPT ![c] = Tail(@)]
    /\ UNCHANGED <<client, inbox, server, executed, answers, restarts>>

Server == ServerReadsOpcode \/ HandlerReads \/ HandlerCrashes \/ HandlerExecutes

Next ==
    \/ \E c \in Clients :
          \/ \E op \in Ops : Call(c, op)
          \/ Send(c)
          \/ Recv(c)
          \/ Restart(c)
          \/ LoseReply(c)
    \/ Server

Spec == Init /\ [][Next]_vars

(* Both processes run: a sendto or recvfrom that can go on does so. *)
FairSpec ==
    /\ Spec
    /\ WF_vars(Server)
    /\ \A c \in Clients : WF_vars(Send(c)) /\ WF_vars(Recv(c))

----------------------------------------------------------------------------
(* The calls as AtomicCall sees them *)

OpOf(k) ==
    IF client[k[1]].pc # "idle" /\ client[k[1]].n = k[2] THEN client[k[1]].op
    ELSE IF \E i \in DOMAIN answers : answers[i].call = k
         THEN answers[CHOOSE i \in DOMAIN answers : answers[i].call = k].op
    ELSE NoOp

(* The run was of what k sent and of nothing else. *)
Own(e, k) ==
    /\ e.root.from = k
    /\ [i \in DOMAIN e.args |-> e.args[i].kind] = Sends(e.root.op)
    /\ \A i \in DOMAIN e.args : e.args[i].from = k

RunOf(e) == [call |-> e.root.from, op |-> e.op, ok |-> e.ok, own |-> Own(e, e.root.from)]

ReturnOf(a) ==
    [call |-> a.call, ok |-> a.got[1].ok,
     own |-> /\ \A j \in DOMAIN a.got : Own(executed[a.got[j].exec], a.call)
             /\ [j \in DOMAIN a.got |-> a.got[j].kind] = Gives(a.op, a.got[1].ok, TRUE)]

Atomic == INSTANCE AtomicCall WITH
    op      <- [k \in CallIds |-> OpOf(k)],
    runs    <- [i \in DOMAIN executed |-> RunOf(executed[i])],
    returns <- [i \in DOMAIN answers |-> ReturnOf(answers[i])]

----------------------------------------------------------------------------
(* Properties *)

TypeOK ==
    /\ client \in [Clients -> [pc : {"idle", "send", "recv"}, n : 0 .. MaxCalls,
                               op : Ops \cup {NoOp}, want : 0 .. 3,
                               left : Seq([from : CallIds, op : Ops, kind : RequestKind]),
                               got : Seq([exec : Nat, kind : ReplyKind, ok : BOOLEAN])]]
    /\ server.pc \in {"top", "handler", "crashed"}
    /\ server.op \in Dispatched \cup {NoOp}
    /\ Len(server.args) <= 2
    /\ \A c \in Clients : client[c].pc = "send" <=> client[c].left # << >>
    /\ \A c \in Clients : Len(client[c].got) <= client[c].want

(* One client: every call of send_through_net takes effect on the server   *)
(* once, as the operation that was asked for with its own arguments, and   *)
(* returns the result of just that; client_fs.c and server_fs.c agree,     *)
(* operation by operation, on the datagrams in both directions.            *)
ImplementsAtomicCall == Atomic!Spec

(* One client: no call hangs, unless a datagram was lost or the entries of *)
(* a directory did not fit in one.                                         *)
EveryCallReturns ==
    \A c \in Clients :
        client[c].pc # "idle" ~>
            client[c].pc = "idle" \/ lost > 0 \/ \E i \in DOMAIN executed : ~executed[i].fits

(* However the datagrams of several clients mix or get lost: an operation  *)
(* that was run with other datagrams than those of one call, all of them   *)
(* and in their order, costs some call its answer.  As long as no client   *)
(* was killed, mixing that nobody is left waiting over has not happened.   *)
(* (For calls whose arguments are paths and flags: no opcode is made up.)  *)
MixingShows ==
    restarts = 0 /\ (\A c \in Clients : client[c].pc = "idle") =>
        \A i \in DOMAIN executed : Own(executed[i], executed[i].root.from)

(* What a call receives was sent in answer to a datagram of that same      *)
(* call, never of an earlier call of the client: losses and restarts       *)
(* cannot make a client take an old reply for a new one.                   *)
AnswersToOwnDatagrams ==
    \A i \in DOMAIN answers : \A j \in DOMAIN answers[i].got :
        LET args == executed[answers[i].got[j].exec].args
        IN  args[Len(args)].from = answers[i].call
=============================================================================
