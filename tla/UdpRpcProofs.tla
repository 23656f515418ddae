---------------------------- MODULE UdpRpcProofs ----------------------------
(***************************************************************************)
(* Theorems about the datagrams of client_fs.c and server_fs.c, for every  *)
(* number of clients, calls, losses and restarts.                          *)
(***************************************************************************)
EXTENDS UdpRpc, SequenceTheorems, TLAPS

Dgram  == [from : CallIds, op : Ops, kind : RequestKind]
Reply  == [exec : Nat, kind : ReplyKind, ok : BOOLEAN]
Run    == [root : Dgram, op : Dispatched, ok : BOOLEAN, fits : BOOLEAN, args : Seq(Dgram)]
Answer == [call : CallIds, op : Ops, got : Seq(Reply)]

ClientRecord ==
    [pc : {"idle", "send", "recv"}, n : 0 .. MaxCalls, op : Ops \cup {NoOp}, want : 0 .. 3,
     left : Seq(Dgram), got : Seq(Reply)]

(* What the client's record says of itself *)
ClientSound(me) ==
    /\ me.pc = "send" <=> me.left # << >>
    /\ me.pc # "idle" => me.n # 0 /\ me.op \in Ops /\ Len(me.got) < me.want
    /\ Len(me.got) <= me.want

ServerSound(s) ==
    /\ s.pc \in {"top", "handler", "crashed"}
    /\ s.op \in Dispatched \cup {NoOp}
    /\ s.args \in Seq(Dgram) /\ Len(s.args) <= 2
    /\ s.pc = "handler" => s.op \in Dispatched /\ s.root[1] \in Dgram

RpcTypes ==
    /\ client \in [Clients -> ClientRecord]
    /\ \A c \in Clients : ClientSound(client[c])
    /\ inbox \in Seq(Dgram)
    /\ replies \in [Clients -> Seq(Reply)]
    /\ ServerSound(server)
    /\ executed \in Seq(Run)
    /\ answers \in Seq(Answer)

LEMMA ShortSequences ==
    ASSUME NEW S, NEW x \in S, NEW y \in S, NEW z \in S
    PROVE  << >> \in Seq(S) /\ <<x>> \in Seq(S) /\ <<x, y>> \in Seq(S) /\ <<x, y, z>> \in Seq(S)
  OBVIOUS

LEMMA SendsType ==
    ASSUME NEW op
    PROVE  /\ <<"opcode">> \o Sends(op) \in Seq(RequestKind)
           /\ <<"opcode">> \o Sends(op) # << >>
<1> DEFINE rest == CASE op = "ACCESS"                        -> <<"args">>
                     [] op = "READLINK"                      -> <<"size", "buf">>
                     [] op \in {"MKDIR", "CHMOD", "MKNOD"}   -> <<"mode">>
                     [] op = "OPEN"                          -> <<"flags">>
                     [] op = "UTIME"                         -> <<"times">>
                     [] op = "READ"                          -> <<"args">>
                     [] op = "WRITE"                         -> <<"args", "data">>
                     [] OTHER                                -> << >>
           head == <<IF op \in TwoPaths THEN "joined" ELSE "path">>
<1>1. rest \in {<<"args">>, <<"size", "buf">>, <<"mode">>, <<"flags">>, <<"times">>,
                <<"args", "data">>, << >>}
  OBVIOUS
<1>2. head = <<"joined">> \/ head = <<"path">>
  OBVIOUS
<1>3. Sends(op) = head \o rest
  BY DEF Sends
<1> HIDE DEF rest, head
<1>4. \A x, y \in RequestKind : /\ << >> \in Seq(RequestKind) /\ <<x>> \in Seq(RequestKind)
                               /\ <<x, y>> \in Seq(RequestKind)
  BY ShortSequences
<1>5. rest \in Seq(RequestKind) /\ head \in Seq(RequestKind) /\ <<"opcode">> \in Seq(RequestKind)
  BY <1>1, <1>2, <1>4 DEF RequestKind
<1>6. Sends(op) \in Seq(RequestKind)
  BY <1>3, <1>5, ConcatProperties
<1>7. /\ <<"opcode">> \o Sends(op) \in Seq(RequestKind)
      /\ Len(<<"opcode">> \o Sends(op)) = Len(<<"opcode">>) + Len(Sends(op))
  BY <1>5, <1>6, ConcatProperties
<1>8. Len(<<"opcode">> \o Sends(op)) # 0
  <2>1. Len(<<"opcode">>) = 1 /\ Len(Sends(op)) \in Nat
    BY <1>6
  <2> QED BY <1>7, <2>1
<1> QED BY <1>7, <1>8

LEMMA GivesType ==
    ASSUME NEW op, NEW ok, NEW fits
    PROVE  Gives(op, ok, fits) \in Seq(ReplyKind)
<1>1. Gives(op, ok, fits) \in {<<"res", "stat">>, <<"f_path">>, <<"res", "buf">>, <<"res", "f_path">>,
                              <<"res", "data">>, <<"res", "n", "entries">>, <<"res", "n">>, <<"res">>}
  BY DEF Gives
<1>2. \A x, y, z \in ReplyKind : /\ <<x>> \in Seq(ReplyKind) /\ <<x, y>> \in Seq(ReplyKind)
                                /\ <<x, y, z>> \in Seq(ReplyKind)
  BY ShortSequences
<1> QED BY <1>1, <1>2 DEF ReplyKind

LEMMA FollowType ==
    ASSUME NEW op, NEW ok
    PROVE  Follow(op, ok) \in 0 .. 2
  BY DEF Follow

LEMMA TakesType ==
    ASSUME NEW op
    PROVE  Takes(op) \in 1 .. 3
  BY DEF Takes

LEMMA IdleSound ==
    ASSUME NEW n \in 0 .. MaxCalls
    PROVE  [Idle EXCEPT !.n = n] \in ClientRecord /\ ClientSound([Idle EXCEPT !.n = n])
<1> DEFINE me == [Idle EXCEPT !.n = n]
<1>1. me = [pc |-> "idle", n |-> n, op |-> NoOp, left |-> << >>, got |-> << >>, want |-> 0]
  BY DEF Idle
<1>2. << >> \in Seq(Dgram) /\ << >> \in Seq(Reply) /\ Len(<< >>) = 0
  OBVIOUS
<1> SUFFICES me \in ClientRecord /\ ClientSound(me)
  OBVIOUS
<1> HIDE DEF me
<1>3. me \in ClientRecord
  BY <1>1, <1>2 DEF ClientRecord
<1>4. ClientSound(me)
  BY <1>1, <1>2 DEF ClientSound
<1> QED BY <1>3, <1>4

LEMMA RpcInit == Init => RpcTypes
<1> SUFFICES ASSUME Init PROVE RpcTypes
  OBVIOUS
<1>1. Idle \in ClientRecord /\ ClientSound(Idle)
  BY RpcAssumption DEF Idle, ClientRecord, ClientSound
<1>2. ServerSound(Top)
  BY DEF Top, ServerSound
<1> QED BY <1>1, <1>2 DEF Init, RpcTypes

LEMMA CallTypes ==
    ASSUME RpcTypes, NEW c \in Clients, NEW op \in Ops, Call(c, op)
    PROVE  RpcTypes'
<1> DEFINE k     == <<c, client[c].n + 1>>
           kinds == <<"opcode">> \o Sends(op)
           left  == [i \in DOMAIN kinds |-> [from |-> k, op |-> op, kind |-> kinds[i]]]
           me    == [pc |-> "send", n |-> k[2], op |-> op, got |-> << >>, want |-> 1, left |-> left]
<1>1. client[c].n + 1 \in 1 .. MaxCalls /\ k \in CallIds
  BY RpcAssumption DEF RpcTypes, ClientRecord, Call, CallIds
<1>2. kinds \in Seq(RequestKind) /\ kinds # << >>
  BY SendsType
<1> HIDE DEF kinds
<1>3. left \in Seq(Dgram) /\ left # << >>
  <2>1. /\ Len(kinds) \in Nat \ {0} /\ DOMAIN kinds = 1 .. Len(kinds)
        /\ \A i \in DOMAIN kinds : kinds[i] \in RequestKind
    BY <1>2
  <2>2. left \in [1 .. Len(kinds) -> Dgram]
    BY <1>1, <2>1 DEF Dgram
  <2>3. left \in Seq(Dgram) /\ Len(left) = Len(kinds)
    BY <2>1, <2>2
  <2> QED BY <2>1, <2>3
<1>4. client' = [client EXCEPT ![c] = me]
  BY DEF Call, kinds
<1> HIDE DEF left
<1>5. me \in ClientRecord /\ ClientSound(me)
  BY <1>1, <1>3 DEF ClientRecord, ClientSound
<1> HIDE DEF me
<1>6. replies' = [replies EXCEPT ![c] = << >>] /\ UNCHANGED <<inbox, server, executed, answers>>
  BY DEF Call
<1> QED BY <1>4, <1>5, <1>6 DEF RpcTypes

LEMMA SendTypes ==
    ASSUME RpcTypes, NEW c \in Clients, Send(c)
    PROVE  RpcTypes'
<1> DEFINE me  == client[c]
           now == [me EXCEPT !.left = Tail(@), !.pc = IF Len(me.left) = 1 THEN "recv" ELSE "send"]
<1>1. me \in ClientRecord /\ ClientSound(me) /\ me.pc = "send" /\ me.left \in Seq(Dgram)
  BY DEF RpcTypes, Send, ClientRecord
<1>2. /\ me.left # << >> /\ Head(me.left) \in Dgram /\ Tail(me.left) \in Seq(Dgram)
      /\ Tail(me.left) = << >> <=> Len(me.left) = 1
  <2>1. me.left # << >>
    BY <1>1 DEF ClientSound
  <2>2. /\ Head(me.left) \in Dgram /\ Tail(me.left) \in Seq(Dgram)
        /\ Len(Tail(me.left)) = Len(me.left) - 1 /\ Len(me.left) \in Nat
    BY <1>1, <2>1, HeadTailProperties, LenProperties
  <2>3. Tail(me.left) = << >> <=> Len(Tail(me.left)) = 0
    BY <2>2, EmptySeq
  <2> QED BY <2>1, <2>2, <2>3
<1>3. now \in ClientRecord /\ ClientSound(now)
  BY <1>1, <1>2 DEF ClientRecord, ClientSound
<1>4. client' = [client EXCEPT ![c] = now]
  BY DEF Send, RpcTypes
<1> HIDE DEF now
<1>5. /\ UNCHANGED <<replies, server, executed, answers>>
      /\ inbox' = inbox \/ inbox' = Append(inbox, Head(me.left))
  BY DEF Send
<1>6. inbox' \in Seq(Dgram)
  <2>1. Append(inbox, Head(me.left)) \in Seq(Dgram)
    BY <1>2 DEF RpcTypes
  <2> QED BY <1>5, <2>1 DEF RpcTypes
<1> QED BY <1>3, <1>4, <1>5, <1>6 DEF RpcTypes

LEMMA RecvTypes ==
    ASSUME RpcTypes, NEW c \in Clients, Recv(c)
    PROVE  RpcTypes'
<1> DEFINE me  == client[c]
           got == Append(me.got, Head(replies[c]))
<1>1. /\ me \in ClientRecord /\ ClientSound(me) /\ me.pc = "recv" /\ me.n \in 1 .. MaxCalls
      /\ me.left = << >> /\ me.op \in Ops /\ me.got \in Seq(Reply) /\ me.want \in 0 .. 3
      /\ Len(me.got) < me.want
  <2>1. me \in ClientRecord /\ ClientSound(me) /\ me.pc = "recv"
    BY DEF RpcTypes, Recv
  <2>2. /\ me.n \in 0 .. MaxCalls /\ me.n # 0 /\ MaxCalls \in Nat
        /\ me.left = << >> /\ me.op \in Ops /\ Len(me.got) < me.want
    BY <2>1, RpcAssumption DEF ClientRecord, ClientSound
  <2>3. me.got \in Seq(Reply) /\ me.want \in 0 .. 3
    BY <2>1 DEF ClientRecord
  <2> QED BY <2>1, <2>2, <2>3
<1>2. Head(replies[c]) \in Reply /\ Tail(replies[c]) \in Seq(Reply)
  BY DEF RpcTypes, Recv
<1>3. got \in Seq(Reply) /\ Len(got) = Len(me.got) + 1 /\ Len(me.got) \in Nat
  BY <1>1, <1>2
<1>4. PICK ok \in TakenForSuccess(Head(replies[c])) :
        LET want == IF me.got = << >> THEN 1 + Follow(me.op, ok) ELSE me.want
        IN  IF Len(got) < want
            THEN /\ client' = [client EXCEPT ![c].got = got, ![c].want = want]
                 /\ UNCHANGED answers
            ELSE /\ client' = [client EXCEPT ![c] = [Idle EXCEPT !.n = me.n]]
                 /\ answers' = Append(answers, [call |-> <<c, me.n>>, op |-> me.op, got |-> got])
  BY DEF Recv
<1> DEFINE want == IF me.got = << >> THEN 1 + Follow(me.op, ok) ELSE me.want
<1>5. want \in 0 .. 3
  BY <1>1, FollowType
<1>6. /\ replies' = [replies EXCEPT ![c] = Tail(@)] /\ UNCHANGED <<inbox, server, executed>>
  BY DEF Recv
<1>7. replies' \in [Clients -> Seq(Reply)]
  BY <1>2, <1>6 DEF RpcTypes
<1> HIDE DEF got, want
<1>8. CASE Len(got) < want
  <2> DEFINE now == [me EXCEPT !.got = got, !.want = want]
  <2>1. client' = [client EXCEPT ![c] = now] /\ UNCHANGED answers
    <3>1. client' = [client EXCEPT ![c].got = got, ![c].want = want] /\ UNCHANGED answers
      BY <1>4, <1>8 DEF want, got
    <3> QED BY <3>1 DEF RpcTypes
  <2>2. now \in ClientRecord /\ ClientSound(now)
    <3>1. now \in ClientRecord
      BY <1>1, <1>3, <1>5 DEF ClientRecord
    <3>2. /\ now.pc = "recv" /\ now.n = me.n /\ now.op = me.op /\ now.left = << >>
          /\ now.got = got /\ now.want = want
      BY <1>1 DEF ClientRecord
    <3>3. Len(got) \in Nat
      BY <1>3
    <3> QED BY <1>1, <1>5, <1>8, <3>1, <3>2, <3>3 DEF ClientSound
  <2> HIDE DEF now
  <2> QED BY <1>6, <1>7, <2>1, <2>2 DEF RpcTypes
<1>9. CASE ~(Len(got) < want)
  <2> DEFINE now == [Idle EXCEPT !.n = me.n]
             ans == [call |-> <<c, me.n>>, op |-> me.op, got |-> got]
  <2>1. client' = [client EXCEPT ![c] = now] /\ answers' = Append(answers, ans)
    BY <1>4, <1>9 DEF want
  <2>2. now \in ClientRecord /\ ClientSound(now)
    BY <1>1, IdleSound
  <2>3. ans \in Answer
    BY <1>1, <1>3 DEF Answer, CallIds
  <2> HIDE DEF now, ans
  <2>4. answers' \in Seq(Answer)
    BY <2>1, <2>3 DEF RpcTypes
  <2> QED BY <1>6, <1>7, <2>1, <2>2, <2>4 DEF RpcTypes
<1> QED BY <1>8, <1>9

LEMMA LossTypes ==
    ASSUME RpcTypes, NEW c \in Clients, Restart(c) \/ LoseReply(c)
    PROVE  RpcTypes'
<1>1. CASE Restart(c)
  <2> DEFINE now == [Idle EXCEPT !.n = client[c].n]
  <2>1. client' = [client EXCEPT ![c] = now] /\ UNCHANGED <<inbox, replies, server, executed, answers>>
    BY <1>1 DEF Restart
  <2>2. now \in ClientRecord /\ ClientSound(now)
    <3>1. client[c].n \in 0 .. MaxCalls
      BY DEF RpcTypes, ClientRecord
    <3> QED BY <3>1, IdleSound
  <2> HIDE DEF now
  <2> QED BY <2>1, <2>2 DEF RpcTypes
<1>2. CASE LoseReply(c)
  <2>1. /\ replies' = [replies EXCEPT ![c] = Tail(@)] /\ replies[c] # << >>
        /\ UNCHANGED <<client, inbox, server, executed, answers>>
    BY <1>2 DEF LoseReply
  <2>2. Tail(replies[c]) \in Seq(Reply)
    BY <2>1 DEF RpcTypes
  <2> QED BY <2>1, <2>2 DEF RpcTypes
<1> QED BY <1>1, <1>2

(* What HandlerExecutes adds *)
RunBy(ok, fits) ==
    [root |-> server.root[1], op |-> server.op, ok |-> ok, fits |-> fits,
     args |-> Append(server.args, Head(inbox))]

Sent(ok, fits) ==
    LET kinds == Gives(server.op, ok, fits)
    IN  [i \in DOMAIN kinds |-> [exec |-> Len(executed) + 1, kind |-> kinds[i], ok |-> ok]]

LEMMA ExecuteStep ==
    ASSUME RpcTypes, HandlerExecutes
    PROVE  LET peer == Head(inbox).from IN
           /\ server.pc = "handler" /\ inbox # << >> /\ peer[1] \in Clients /\ peer = <<peer[1], peer[2]>>
           /\ Tail(inbox) \in Seq(Dgram) /\ inbox' = Tail(inbox)
           /\ server' = Top /\ UNCHANGED <<client, answers>>
           /\ \E ok \in BOOLEAN, fits \in BOOLEAN :
                 /\ server.op = "RELEASE" => ok
                 /\ RunBy(ok, fits) \in Run
                 /\ executed' = Append(executed, RunBy(ok, fits))
                 /\ Sent(ok, fits) \in Seq(Reply)
                 /\ \A i \in DOMAIN Sent(ok, fits) : Sent(ok, fits)[i].exec = Len(executed) + 1
                 /\ replies' = IF client[peer[1]].pc # "idle" /\ client[peer[1]].n = peer[2]
                               THEN [replies EXCEPT ![peer[1]] = @ \o Sent(ok, fits)]
                               ELSE replies
<1> DEFINE peer == Head(inbox).from
<1>1. server.pc = "handler" /\ inbox # << >> /\ inbox' = Tail(inbox)
      /\ server' = Top /\ UNCHANGED <<client, answers>>
  BY DEF HandlerExecutes
<1>2. Head(inbox) \in Dgram /\ Tail(inbox) \in Seq(Dgram)
  BY <1>1 DEF RpcTypes
<1>3. peer[1] \in Clients /\ peer = <<peer[1], peer[2]>>
  BY <1>2 DEF Dgram, CallIds
<1>4. PICK ok \in BOOLEAN, fits \in BOOLEAN :
        /\ server.op = "RELEASE" => ok
        /\ executed' = Append(executed, RunBy(ok, fits))
        /\ replies' = IF client[peer[1]].pc # "idle" /\ client[peer[1]].n = peer[2]
                      THEN [replies EXCEPT ![peer[1]] = @ \o Sent(ok, fits)]
                      ELSE replies
  <2>1. PICK ok \in IF server.op = "RELEASE" THEN {TRUE} ELSE BOOLEAN, fits \in {TRUE, ~LargeDirs} :
           LET kinds == Gives(server.op, ok, fits)
               sent  == [i \in DOMAIN kinds |->
                            [exec |-> Len(executed) + 1, kind |-> kinds[i], ok |-> ok]]
           IN  /\ replies' = IF client[peer[1]].pc # "idle" /\ client[peer[1]].n = peer[2]
                             THEN [replies EXCEPT ![peer[1]] = @ \o sent]
                             ELSE replies
               /\ executed' = Append(executed,
                     [root |-> server.root[1], op |-> server.op, ok |-> ok, fits |-> fits,
                      args |-> Append(server.args, Head(inbox))])
    BY DEF HandlerExecutes
  <2>2. ok \in BOOLEAN /\ fits \in BOOLEAN /\ (server.op = "RELEASE" => ok)
    BY RpcAssumption
  <2>3. Sent(ok, fits) = [i \in DOMAIN Gives(server.op, ok, fits) |->
           [exec |-> Len(executed) + 1, kind |-> Gives(server.op, ok, fits)[i], ok |-> ok]]
    BY DEF Sent
  <2>4. executed' = Append(executed, RunBy(ok, fits))
    BY <2>1 DEF RunBy
  <2>5. replies' = IF client[peer[1]].pc # "idle" /\ client[peer[1]].n = peer[2]
                   THEN [replies EXCEPT ![peer[1]] = @ \o Sent(ok, fits)]
                   ELSE replies
    BY <2>1, <2>3
  <2> QED BY <2>2, <2>4, <2>5
<1>5. RunBy(ok, fits) \in Run
  <2>1. Append(server.args, Head(inbox)) \in Seq(Dgram)
    BY <1>2 DEF RpcTypes, ServerSound
  <2> QED BY <1>1, <2>1 DEF RpcTypes, ServerSound, RunBy, Run
<1>6. /\ Sent(ok, fits) \in Seq(Reply)
      /\ \A i \in DOMAIN Sent(ok, fits) : Sent(ok, fits)[i].exec = Len(executed) + 1
  <2> DEFINE kinds == Gives(server.op, ok, fits)
  <2>1. kinds \in Seq(ReplyKind)
    BY GivesType
  <2> HIDE DEF kinds
  <2>2. Len(kinds) \in Nat /\ DOMAIN kinds = 1 .. Len(kinds) /\ \A i \in DOMAIN kinds : kinds[i] \in ReplyKind
    BY <2>1
  <2>3. Len(executed) + 1 \in Nat
    BY DEF RpcTypes
  <2>4. Sent(ok, fits) = [i \in DOMAIN kinds |->
           [exec |-> Len(executed) + 1, kind |-> kinds[i], ok |-> ok]]
    BY DEF Sent, kinds
  <2>5. Sent(ok, fits) \in [1 .. Len(kinds) -> Reply]
    BY <2>2, <2>3, <2>4 DEF Reply
  <2> QED BY <2>2, <2>4, <2>5
<1> QED BY <1>1, <1>2, <1>3, <1>4, <1>5, <1>6

LEMMA ServerTypes ==
    ASSUME RpcTypes, Server
    PROVE  RpcTypes'
<1>1. CASE ServerReadsOpcode
  <2>1. /\ inbox # << >> /\ inbox' = Tail(inbox) /\ UNCHANGED <<client, replies, executed, answers>>
        /\ \E op \in ReadAsOpcode(Head(inbox)) :
              server' = IF op \in Dispatched
                        THEN [pc |-> "handler", op |-> op, root |-> <<Head(inbox)>>, args |-> << >>]
                        ELSE Top
    BY <1>1 DEF ServerReadsOpcode
  <2>2. Head(inbox) \in Dgram /\ Tail(inbox) \in Seq(Dgram)
    BY <2>1 DEF RpcTypes
  <2>3. ServerSound(server')
    BY <2>1, <2>2 DEF ServerSound, Top
  <2> QED BY <2>1, <2>2, <2>3 DEF RpcTypes
<1>2. CASE HandlerReads
  <2>1. /\ inbox # << >> /\ inbox' = Tail(inbox) /\ UNCHANGED <<client, replies, executed, answers>>
        /\ server.pc = "handler" /\ Len(server.args) + 1 < Takes(server.op)
        /\ server' = [server EXCEPT !.args = Append(@, Head(inbox))]
    BY <1>2 DEF HandlerReads
  <2>2. Head(inbox) \in Dgram /\ Tail(inbox) \in Seq(Dgram)
    BY <2>1 DEF RpcTypes
  <2> DEFINE args == Append(server.args, Head(inbox))
  <2>3. args \in Seq(Dgram) /\ Len(args) <= 2
    <3>1. server.args \in Seq(Dgram) /\ Takes(server.op) \in 1 .. 3
      BY TakesType DEF RpcTypes, ServerSound
    <3>2. args \in Seq(Dgram) /\ Len(args) = Len(server.args) + 1 /\ Len(server.args) \in Nat
      BY <2>2, <3>1
    <3> QED BY <2>1, <3>1, <3>2
  <2>4. /\ server'.args = args /\ server'.pc = server.pc /\ server'.op = server.op
        /\ server'.root = server.root
    BY <2>1 DEF RpcTypes, ServerSound
  <2>5. ServerSound(server')
    BY <2>3, <2>4 DEF RpcTypes, ServerSound
  <2> QED BY <2>1, <2>2, <2>5 DEF RpcTypes
<1>3. CASE HandlerCrashes
  BY <1>3 DEF HandlerCrashes, RpcTypes, ServerSound, Top
<1>4. CASE HandlerExecutes
  <2> DEFINE peer == Head(inbox).from
  <2>1. /\ peer[1] \in Clients /\ Tail(inbox) \in Seq(Dgram) /\ inbox' = Tail(inbox)
        /\ server' = Top /\ UNCHANGED <<client, answers>>
    BY <1>4, ExecuteStep
  <2>2. PICK ok \in BOOLEAN, fits \in BOOLEAN :
          /\ RunBy(ok, fits) \in Run
          /\ executed' = Append(executed, RunBy(ok, fits))
          /\ Sent(ok, fits) \in Seq(Reply)
          /\ replies' = IF client[peer[1]].pc # "idle" /\ client[peer[1]].n = peer[2]
                        THEN [replies EXCEPT ![peer[1]] = @ \o Sent(ok, fits)]
                        ELSE replies
    BY <1>4, ExecuteStep
  <2>3. replies[peer[1]] \o Sent(ok, fits) \in Seq(Reply)
    BY <2>1, <2>2, ConcatProperties DEF RpcTypes
  <2>4. replies' \in [Clients -> Seq(Reply)]
    BY <2>1, <2>2, <2>3 DEF RpcTypes
  <2>5. executed' \in Seq(Run)
    BY <2>2 DEF RpcTypes
  <2>6. ServerSound(Top)
    BY DEF ServerSound, Top
  <2> QED BY <2>1, <2>4, <2>5, <2>6 DEF RpcTypes
<1> QED BY <1>1, <1>2, <1>3, <1>4 DEF Server

LEMMA RpcNext == RpcTypes /\ [Next]_vars => RpcTypes'
<1> SUFFICES ASSUME RpcTypes, [Next]_vars PROVE RpcTypes'
  OBVIOUS
<1>1. CASE UNCHANGED vars
  BY <1>1 DEF vars, RpcTypes
<1>2. CASE Next
  BY <1>2, CallTypes, SendTypes, RecvTypes, LossTypes, ServerTypes DEF Next
<1> QED BY <1>1, <1>2

(* The client and the server count the datagrams of a call within the      *)
(* same bounds, and hold only datagrams that a call sent.                  *)
THEOREM RpcTypeCorrect == Spec => []TypeOK
<1>1. RpcTypes => TypeOK
  BY DEF RpcTypes, TypeOK, ClientRecord, ClientSound, ServerSound, Dgram, Reply
<1> QED BY <1>1, RpcInit, RpcNext, PTL DEF Spec
----------------------------------------------------------------------------
(* The run behind a reply ended with a datagram of k. *)
ToCall(runs, r, k) ==
    /\ r.exec \in DOMAIN runs
    /\ runs[r.exec].args[Len(runs[r.exec].args)].from = k

(* What waits at the socket of a call, and what it has taken from there,   *)
(* are answers to the call; a call that is over is not sent anything.      *)
PendingToCall ==
    \A c \in Clients : client[c].pc # "idle" =>
        /\ \A i \in DOMAIN replies[c] : ToCall(executed, replies[c][i], <<c, client[c].n>>)
        /\ \A i \in DOMAIN client[c].got : ToCall(executed, client[c].got[i], <<c, client[c].n>>)

AnswersToCall ==
    \A i \in DOMAIN answers : \A j \in DOMAIN answers[i].got :
        ToCall(executed, answers[i].got[j], answers[i].call)

(* The server's history only grows. *)
LEMMA ExecutedGrows ==
    ASSUME RpcTypes, [Next]_vars
    PROVE  /\ DOMAIN executed \subseteq DOMAIN executed'
           /\ \A n \in DOMAIN executed : executed'[n] = executed[n]
<1>1. CASE HandlerExecutes
  <2>1. PICK run \in Run : executed' = Append(executed, run)
    BY <1>1, ExecuteStep
  <2>2. executed \in Seq(Run)
    BY DEF RpcTypes
  <2> QED BY <2>1, <2>2
<1>2. CASE UNCHANGED executed
  BY <1>2
<1> QED BY <1>1, <1>2 DEF Next, Call, Send, Recv, Restart, LoseReply, Server, ServerReadsOpcode,
           HandlerReads, HandlerCrashes, vars

LEMMA ToCallKept ==
    ASSUME RpcTypes, [Next]_vars, NEW r, NEW k, ToCall(executed, r, k)
    PROVE  ToCall(executed', r, k)
  BY ExecutedGrows DEF ToCall

LEMMA PendingKept ==
    ASSUME RpcTypes, PendingToCall, Next
    PROVE  PendingToCall'
<1>1. ASSUME NEW r, NEW k, ToCall(executed, r, k) PROVE ToCall(executed', r, k)
  BY <1>1, ToCallKept
<1>2. ASSUME NEW c \in Clients, NEW op \in Ops, Call(c, op)
      PROVE  PendingToCall'
  <2>1. /\ replies' = [replies EXCEPT ![c] = << >>] /\ UNCHANGED executed
        /\ client'[c].got = << >>
        /\ \A d \in Clients \ {c} : client'[d] = client[d]
    BY <1>2 DEF Call, RpcTypes
  <2>2. replies'[c] = << >> /\ \A d \in Clients \ {c} : replies'[d] = replies[d]
    BY <2>1 DEF RpcTypes
  <2>3. \A d \in Clients \ {c} : client'[d].pc # "idle" =>
           /\ \A i \in DOMAIN replies'[d] : ToCall(executed', replies'[d][i], <<d, client'[d].n>>)
           /\ \A i \in DOMAIN client'[d].got : ToCall(executed', client'[d].got[i], <<d, client'[d].n>>)
    BY <2>1, <2>2 DEF PendingToCall
  <2>4. DOMAIN replies'[c] = {} /\ DOMAIN client'[c].got = {}
    BY <2>1, <2>2
  <2> QED BY <2>3, <2>4 DEF PendingToCall
<1>3. ASSUME NEW c \in Clients, Send(c)
      PROVE  PendingToCall'
  <2>1. /\ UNCHANGED <<replies, executed>> /\ client[c].pc # "idle"
        /\ client'[c].got = client[c].got /\ client'[c].n = client[c].n
        /\ \A d \in Clients \ {c} : client'[d] = client[d]
    BY <1>3 DEF Send, RpcTypes, ClientRecord
  <2> QED BY <1>1, <2>1 DEF PendingToCall, RpcTypes
<1>4. ASSUME NEW c \in Clients, Recv(c)
      PROVE  PendingToCall'
  <2> DEFINE got == Append(client[c].got, Head(replies[c]))
             k   == <<c, client[c].n>>
  <2>1. /\ replies' = [replies EXCEPT ![c] = Tail(@)] /\ UNCHANGED executed
        /\ client[c].pc # "idle" /\ replies[c] # << >>
        /\ client'[c].pc # "idle" => client'[c].got = got /\ client'[c].n = client[c].n
        /\ \A d \in Clients \ {c} : client'[d] = client[d]
    BY <1>4 DEF Recv, RpcTypes, ClientRecord, Idle
  <2>2. client[c].got \in Seq(Reply) /\ replies[c] \in Seq(Reply)
    BY DEF RpcTypes, ClientRecord
  <2>3. ToCall(executed, Head(replies[c]), k) /\ \A i \in DOMAIN Tail(replies[c]) : ToCall(executed, Tail(replies[c])[i], k)
    <3>1. /\ Head(replies[c]) = replies[c][1] /\ 1 \in DOMAIN replies[c]
          /\ \A i \in DOMAIN Tail(replies[c]) :
                i + 1 \in DOMAIN replies[c] /\ Tail(replies[c])[i] = replies[c][i + 1]
      BY <2>1, <2>2
    <3> QED BY <2>1, <3>1 DEF PendingToCall
  <2>4. \A i \in DOMAIN got : ToCall(executed, got[i], k)
    <3>1. \A i \in DOMAIN got : got[i] = Head(replies[c]) \/
             (i \in DOMAIN client[c].got /\ got[i] = client[c].got[i])
      BY <2>2
    <3> QED BY <2>1, <2>3, <3>1 DEF PendingToCall
  <2> HIDE DEF got
  <2>5. ASSUME NEW d \in Clients, client'[d].pc # "idle"
        PROVE  /\ \A i \in DOMAIN replies'[d] : ToCall(executed', replies'[d][i], <<d, client'[d].n>>)
               /\ \A i \in DOMAIN client'[d].got : ToCall(executed', client'[d].got[i], <<d, client'[d].n>>)
    <3>1. CASE d = c
      <4>1. /\ replies'[d] = Tail(replies[c]) /\ client'[d].got = got /\ <<d, client'[d].n>> = k
        BY <2>1, <2>5, <3>1 DEF RpcTypes
      <4> QED BY <2>1, <2>3, <2>4, <4>1 DEF ToCall
    <3>2. CASE d # c
      <4>1. replies'[d] = replies[d] /\ client'[d] = client[d]
        BY <2>1, <3>2 DEF RpcTypes
      <4> QED BY <2>1, <2>5, <4>1 DEF PendingToCall, ToCall
    <3> QED BY <3>1, <3>2
  <2> QED BY <2>5 DEF PendingToCall
<1>5. ASSUME NEW c \in Clients, Restart(c) \/ LoseReply(c)
      PROVE  PendingToCall'
  <2>1. CASE Restart(c)
    <3>1. /\ client'[c].pc = "idle" /\ UNCHANGED <<replies, executed>>
          /\ \A d \in Clients \ {c} : client'[d] = client[d]
      BY <2>1 DEF Restart, RpcTypes, Idle
    <3>2. \A d \in Clients : client'[d].pc # "idle" =>
             client'[d] = client[d] /\ replies'[d] = replies[d]
      BY <3>1
    <3> QED BY <3>1, <3>2 DEF PendingToCall
  <2>2. CASE LoseReply(c)
    <3>1. /\ replies' = [replies EXCEPT ![c] = Tail(@)] /\ replies[c] # << >>
          /\ UNCHANGED <<client, executed>>
      BY <2>2 DEF LoseReply
    <3>2. replies[c] \in Seq(Reply)
      BY DEF RpcTypes
    <3>3. \A i \in DOMAIN Tail(replies[c]) :
             i + 1 \in DOMAIN replies[c] /\ Tail(replies[c])[i] = replies[c][i + 1]
      BY <3>1, <3>2
    <3>4. \A d \in Clients : replies'[d] = IF d = c THEN Tail(replies[c]) ELSE replies[d]
      BY <3>1 DEF RpcTypes
    <3>5. ASSUME NEW d \in Clients, client[d].pc # "idle", NEW i \in DOMAIN replies'[d]
          PROVE  ToCall(executed, replies'[d][i], <<d, client[d].n>>)
      <4>1. \E j \in DOMAIN replies[d] : replies'[d][i] = replies[d][j]
        BY <3>3, <3>4, <3>5
      <4> QED BY <3>5, <4>1 DEF PendingToCall
    <3>6. \A d \in Clients : client[d].pc # "idle" =>
             \A i \in DOMAIN client[d].got : ToCall(executed, client[d].got[i], <<d, client[d].n>>)
      BY DEF PendingToCall
    <3> QED BY <3>1, <3>5, <3>6 DEF PendingToCall
  <2> QED BY <1>5, <2>1, <2>2
<1>6. CASE HandlerExecutes
  <2> DEFINE peer == Head(inbox).from
  <2>1. /\ inbox # << >> /\ UNCHANGED client /\ peer = <<peer[1], peer[2]>> /\ peer[1] \in Clients
    BY <1>6, ExecuteStep
  <2>2. PICK ok \in BOOLEAN, fits \in BOOLEAN :
          /\ RunBy(ok, fits) \in Run
          /\ executed' = Append(executed, RunBy(ok, fits))
          /\ Sent(ok, fits) \in Seq(Reply)
          /\ \A i \in DOMAIN Sent(ok, fits) : Sent(ok, fits)[i].exec = Len(executed) + 1
          /\ replies' = IF client[peer[1]].pc # "idle" /\ client[peer[1]].n = peer[2]
                        THEN [replies EXCEPT ![peer[1]] = @ \o Sent(ok, fits)]
                        ELSE replies
    BY <1>6, ExecuteStep
  <2> DEFINE sent == Sent(ok, fits)
  <2>3. \A i \in DOMAIN sent : ToCall(executed', sent[i], peer)
    <3>1. executed \in Seq(Run) /\ server.args \in Seq(Dgram) /\ Head(inbox) \in Dgram
      BY <2>1 DEF RpcTypes, ServerSound
    <3>2. Len(executed) + 1 \in DOMAIN executed' /\ executed'[Len(executed) + 1] = RunBy(ok, fits)
      BY <2>2, <3>1
    <3>3. RunBy(ok, fits).args = Append(server.args, Head(inbox))
      BY DEF RunBy
    <3>4. RunBy(ok, fits).args[Len(RunBy(ok, fits).args)] = Head(inbox)
      BY <3>1, <3>3
    <3> QED BY <2>2, <3>2, <3>4 DEF ToCall
  <2> HIDE DEF sent
  <2>4. ASSUME NEW d \in Clients, client[d].pc # "idle"
        PROVE  \A i \in DOMAIN replies'[d] : ToCall(executed', replies'[d][i], <<d, client[d].n>>)
    <3>1. CASE d = peer[1] /\ client[d].n = peer[2]
      <4>1. replies'[d] = replies[d] \o sent /\ <<d, client[d].n>> = peer
        BY <2>1, <2>2, <2>4, <3>1 DEF RpcTypes, sent
      <4>2. replies[d] \in Seq(Reply) /\ sent \in Seq(Reply)
        BY <2>2 DEF RpcTypes, sent
      <4>3. \A i \in DOMAIN replies'[d] :
               \/ i \in DOMAIN replies[d] /\ replies'[d][i] = replies[d][i]
               \/ i - Len(replies[d]) \in DOMAIN sent /\ replies'[d][i] = sent[i - Len(replies[d])]
        <5>1. /\ Len(replies[d] \o sent) = Len(replies[d]) + Len(sent)
              /\ replies[d] \o sent \in Seq(Reply)
              /\ \A i \in 1 .. Len(replies[d]) + Len(sent) : (replies[d] \o sent)[i] =
                    IF i <= Len(replies[d]) THEN replies[d][i] ELSE sent[i - Len(replies[d])]
          BY <4>2, ConcatProperties
        <5>2. /\ Len(replies[d]) \in Nat /\ DOMAIN replies[d] = 1 .. Len(replies[d])
              /\ Len(sent) \in Nat /\ DOMAIN sent = 1 .. Len(sent)
              /\ DOMAIN (replies[d] \o sent) = 1 .. Len(replies[d] \o sent)
          BY <4>2, <5>1, LenProperties
        <5> QED BY <4>1, <5>1, <5>2
      <4>4. \A i \in DOMAIN replies[d] : ToCall(executed, replies[d][i], <<d, client[d].n>>)
        BY <2>4 DEF PendingToCall
      <4> QED BY <1>1, <2>3, <4>1, <4>3, <4>4
    <3>2. CASE ~(d = peer[1] /\ client[d].n = peer[2])
      <4>1. replies'[d] = replies[d]
        BY <2>1, <2>2, <3>2 DEF RpcTypes
      <4> QED BY <1>1, <2>4, <4>1 DEF PendingToCall
    <3> QED BY <3>1, <3>2
  <2> QED BY <1>1, <2>1, <2>4 DEF PendingToCall
<1>7. CASE ServerReadsOpcode \/ HandlerReads \/ HandlerCrashes
  <2>1. UNCHANGED <<client, replies, executed>>
    BY <1>7 DEF ServerReadsOpcode, HandlerReads, HandlerCrashes
  <2> QED BY <2>1 DEF PendingToCall, ToCall
<1> QED BY <1>2, <1>3, <1>4, <1>5, <1>6, <1>7 DEF Next, Server

LEMMA AnswersKept ==
    ASSUME RpcTypes, PendingToCall, AnswersToCall, Next
    PROVE  AnswersToCall'
<1>1. ASSUME NEW r, NEW k, ToCall(executed, r, k) PROVE ToCall(executed', r, k)
  BY <1>1, ToCallKept
<1>2. CASE UNCHANGED answers
  BY <1>1, <1>2 DEF AnswersToCall
<1>3. ASSUME NEW c \in Clients, Recv(c), answers' # answers
      PROVE  AnswersToCall'
  <2> DEFINE got == Append(client[c].got, Head(replies[c]))
             k   == <<c, client[c].n>>
             ans == [call |-> k, op |-> client[c].op, got |-> got]
  <2>1. answers' = Append(answers, ans) /\ replies[c] # << >> /\ client[c].pc # "idle"
    BY <1>3 DEF Recv
  <2>2. client[c].got \in Seq(Reply) /\ replies[c] \in Seq(Reply) /\ answers \in Seq(Answer)
    BY DEF RpcTypes, ClientRecord
  <2>3. \A i \in DOMAIN got : ToCall(executed, got[i], k)
    <3>1. Head(replies[c]) = replies[c][1] /\ 1 \in DOMAIN replies[c]
      BY <2>1, <2>2
    <3>2. \A i \in DOMAIN got : got[i] = Head(replies[c]) \/
             (i \in DOMAIN client[c].got /\ got[i] = client[c].got[i])
      BY <2>2
    <3> QED BY <2>1, <3>1, <3>2 DEF PendingToCall
  <2>4. ans.got = got /\ ans.call = k
    OBVIOUS
  <2> HIDE DEF ans, got, k
  <2>5. \A i \in DOMAIN answers' : answers'[i] = ans \/ (i \in DOMAIN answers /\ answers'[i] = answers[i])
    BY <2>1, <2>2
  <2> QED BY <1>1, <2>3, <2>4, <2>5 DEF AnswersToCall
<1> QED BY <1>2, <1>3 DEF Next, Call, Send, Restart, LoseReply, Server, ServerReadsOpcode,
           HandlerReads, HandlerCrashes, HandlerExecutes

(* For any number of clients, calls, losses and restarts, a call never     *)
(* takes an answer to another call for its own.                            *)
THEOREM NoStaleAnswers == Spec => []AnswersToOwnDatagrams
<1> DEFINE Inv == RpcTypes /\ PendingToCall /\ AnswersToCall
<1>1. Init => Inv
  BY RpcInit DEF Init, Idle, PendingToCall, AnswersToCall
<1>2. Inv /\ [Next]_vars => Inv'
  <2>1. CASE UNCHANGED vars
    BY <2>1, RpcNext DEF vars, PendingToCall, AnswersToCall, ToCall
  <2>2. CASE Next
    BY <2>2, RpcNext, PendingKept, AnswersKept
  <2> QED BY <2>1, <2>2
<1>3. Inv => AnswersToOwnDatagrams
  BY DEF AnswersToCall, ToCall, AnswersToOwnDatagrams
<1> QED BY <1>1, <1>2, <1>3, PTL DEF Spec
----------------------------------------------------------------------------
(* One client.  The datagrams of its call, from the server's end of the    *)
(* way to the client's: those the handler has read, those in its socket's  *)
(* queue, those still to be sent.                                          *)
DatagramsOf(k, op) ==
    LET kinds == <<"opcode">> \o Sends(op)
    IN  [i \in DOMAIN kinds |-> [from |-> k, op |-> op, kind |-> kinds[i]]]

Slice(s, whole, o) == \A i \in DOMAIN s : s[i] = whole[o + i]

Taken == IF server.pc = "handler" THEN Len(server.args) + 1 ELSE 0

NotRun(k) == \A i \in DOMAIN executed : executed[i].root.from # k

(* Nothing to do for either side *)
Resting(c) == client[c].pc = "idle" /\ server.pc = "top" /\ inbox = << >>

(* The whole request is on its way. *)
Asking(c) ==
    LET me == client[c]  k == <<c, me.n>>  all == DatagramsOf(k, me.op) IN
    /\ me.pc # "idle" /\ me.got = << >> /\ replies[c] = << >>
    /\ NotRun(k)
    /\ server.pc \in {"top", "handler"}
    /\ server.pc = "handler" =>
          /\ server.op = me.op /\ server.root[1] = all[1]
          /\ Slice(server.args, all, 1) /\ Len(server.args) < Takes(me.op)
    /\ Slice(inbox, all, Taken)
    /\ Slice(me.left, all, Taken + Len(inbox))
    /\ Taken + Len(inbox) + Len(me.left) = Len(all)

(* A datagram of the request is lost: the handler, whichever it is, will   *)
(* not get as many as it waits for.                                        *)
Starved(c) ==
    LET me == client[c]  rest == Len(inbox) + Len(me.left)
        First == IF inbox # << >> THEN inbox[1] ELSE me.left[1]
    IN
    /\ me.pc # "idle" /\ me.got = << >> /\ replies[c] = << >> /\ me.op \in Lossy
    /\ NotRun(<<c, me.n>>)
    /\ \/ /\ server.pc = "handler"
          /\ Len(server.args) + rest < Takes(server.op)
       \/ /\ server.pc = "top"
          /\ \/ rest <= 1
             \/ rest <= 2 /\ First.kind \in {"path", "joined"}
             \/ /\ inbox # << >> /\ First.kind = "opcode" /\ First.op = me.op
                /\ rest <= Takes(me.op)

(* All that the run e, the x-th, sent is in the client's hands or queued.  *)
Owed(me, queue, x, e) ==
    LET kinds == Gives(me.op, e.ok, e.fits)
        Of(i) == [exec |-> x, kind |-> kinds[i], ok |-> e.ok]
    IN
    /\ e.op = me.op /\ (me.op = "RELEASE" => e.ok)
    /\ Len(me.got) + Len(queue) = Len(kinds)
    /\ \A i \in DOMAIN me.got : me.got[i] = Of(i)
    /\ \A i \in DOMAIN queue : queue[i] = Of(Len(me.got) + i)
    /\ me.got # << >> => me.want = 1 + Follow(me.op, e.ok)

(* The server ran the call, and its replies are on their way. *)
Answering(c) ==
    LET x == Len(executed) IN
    /\ client[c].pc = "recv" /\ server.pc = "top" /\ inbox = << >>
    /\ x # 0 /\ executed[x].root.from = <<c, client[c].n>>
    /\ Owed(client[c], replies[c], x, executed[x])

(* A reply is lost: the client will not get as many as it waits for.       *)
CutShort(c) ==
    LET me == client[c] IN
    /\ me.pc = "recv" /\ server.pc = "top" /\ inbox = << >> /\ me.op \in Lossy
    /\ me.got # << >> => Len(me.got) + Len(replies[c]) < me.want
    /\ me.got = << >> /\ replies[c] # << >> =>
          /\ \A ok \in TakenForSuccess(replies[c][1]) : Len(replies[c]) < 1 + Follow(me.op, ok)
          /\ Len(replies[c]) = 1 \/ lost >= MaxLost

(* What the history says: a call runs once, on its own datagrams, and      *)
(* returns once.                                                           *)
History(c) ==
    /\ \A i \in DOMAIN executed :
          LET k == executed[i].root.from
          IN  k[1] = c /\ k[2] <= client[c].n /\ Own(executed[i], k)
    /\ \A i, j \in DOMAIN executed : executed[i].root.from = executed[j].root.from => i = j
    /\ \A i \in DOMAIN answers :
          LET k == answers[i].call
          IN  k[1] = c /\ k[2] <= client[c].n /\ (k[2] = client[c].n => client[c].pc = "idle")
    /\ \A i, j \in DOMAIN answers : answers[i].call = answers[j].call => i = j
    /\ \A i \in DOMAIN answers : answers[i].got # << >>

Alone(c) ==
    /\ Resting(c) \/ Asking(c) \/ Starved(c) \/ Answering(c) \/ CutShort(c)
    /\ History(c)
    /\ lost \in Nat /\ restarts = 0

(* The losses that can only make a call hang: not those of a call whose    *)
(* arguments or replies can be taken for something else than they are.     *)
LossesOnlyHang ==
    \/ MaxLost = 0
    \/ /\ Lossy \subseteq Dispatched \ {"READLINK", "READ", "WRITE"}
       /\ "READDIR" \in Lossy => MaxLost <= 1

LEMMA SendsShape ==
    ASSUME NEW op \in Dispatched
    PROVE  /\ Sends(op) \in Seq(RequestKind) /\ Len(Sends(op)) = Takes(op)
           /\ Sends(op)[1] = IF op \in TwoPaths THEN "joined" ELSE "path"
<1> USE DEF RequestKind
<1> DEFINE first == IF op \in TwoPaths THEN "joined" ELSE "path"
<1>1. first \in RequestKind
  OBVIOUS
<1>2. /\ op = "ACCESS" => Sends(op) = <<first>> \o <<"args">>
      /\ op = "READLINK" => Sends(op) = <<first>> \o <<"size", "buf">>
      /\ op \in {"MKDIR", "CHMOD", "MKNOD"} => Sends(op) = <<first>> \o <<"mode">>
      /\ op = "OPEN" => Sends(op) = <<first>> \o <<"flags">>
      /\ op = "UTIME" => Sends(op) = <<first>> \o <<"times">>
      /\ op = "READ" => Sends(op) = <<first>> \o <<"args">>
      /\ op = "WRITE" => Sends(op) = <<first>> \o <<"args", "data">>
      /\ op \notin {"ACCESS", "READLINK", "MKDIR", "CHMOD", "MKNOD", "OPEN", "UTIME", "READ", "WRITE"} =>
            Sends(op) = <<first>> \o << >>
  BY DEF Sends
<1> HIDE DEF first
<1>3. ASSUME NEW rest \in Seq(RequestKind)
      PROVE  /\ (<<first>> \o rest)[1] = first /\ <<first>> \o rest \in Seq(RequestKind)
             /\ Len(<<first>> \o rest) = 1 + Len(rest)
  <2>1. <<first>> \in Seq(RequestKind) /\ Len(<<first>>) = 1 /\ <<first>>[1] = first
    BY <1>1
  <2>2. Len(rest) \in Nat
    OBVIOUS
  <2> QED BY <2>1, <2>2, ConcatProperties
<1>4. PICK rest \in Seq(RequestKind) : Sends(op) = <<first>> \o rest /\ 1 + Len(rest) = Takes(op)
  <2>1. \A x, y \in RequestKind :
           /\ << >> \in Seq(RequestKind) /\ Len(<< >>) = 0
           /\ <<x>> \in Seq(RequestKind) /\ Len(<<x>>) = 1
           /\ <<x, y>> \in Seq(RequestKind) /\ Len(<<x, y>>) = 2
    BY ShortSequences
  <2>2. \/ Sends(op) = <<first>> \o << >> /\ Takes(op) = 1
        \/ \E x \in RequestKind : Sends(op) = <<first>> \o <<x>> /\ Takes(op) = 2
        \/ \E x, y \in RequestKind : Sends(op) = <<first>> \o <<x, y>> /\ Takes(op) = 3
    BY <1>2 DEF Takes
  <2> HIDE DEF RequestKind
  <2>3. CASE Sends(op) = <<first>> \o << >> /\ Takes(op) = 1
    <3>1. << >> \in Seq(RequestKind) /\ 1 + Len(<< >>) = Takes(op)
      BY <1>1, <2>1, <2>3
    <3> QED BY <2>3, <3>1
  <2>4. ASSUME NEW x \in RequestKind, Sends(op) = <<first>> \o <<x>>, Takes(op) = 2
        PROVE  \E rest \in Seq(RequestKind) : Sends(op) = <<first>> \o rest /\ 1 + Len(rest) = Takes(op)
    <3>1. <<x>> \in Seq(RequestKind) /\ 1 + Len(<<x>>) = Takes(op)
      BY <2>1, <2>4
    <3> QED BY <2>4, <3>1
  <2>5. ASSUME NEW x \in RequestKind, NEW y \in RequestKind,
               Sends(op) = <<first>> \o <<x, y>>, Takes(op) = 3
        PROVE  \E rest \in Seq(RequestKind) : Sends(op) = <<first>> \o rest /\ 1 + Len(rest) = Takes(op)
    <3>1. <<x, y>> \in Seq(RequestKind) /\ 1 + Len(<<x, y>>) = Takes(op)
      BY <2>1, <2>5
    <3> QED BY <2>5, <3>1
  <2> QED BY <2>2, <2>3, <2>4, <2>5
<1> HIDE DEF RequestKind
<1>5. Sends(op)[1] = first /\ Sends(op) \in Seq(RequestKind) /\ Len(Sends(op)) = Takes(op)
  BY <1>3, <1>4
<1> QED BY <1>5 DEF first

LEMMA RequestShape ==
    ASSUME NEW op \in Dispatched, NEW k
    PROVE  LET all == DatagramsOf(k, op) IN
           /\ all \in Seq([from : {k}, op : {op}, kind : RequestKind])
           /\ Len(all) = 1 + Takes(op) /\ Takes(op) \in 1 .. 3
           /\ all[1].kind = "opcode" /\ all[1].op = op
           /\ \A i \in 1 .. Len(all) : all[i].from = k
           /\ op \in TwoPaths => all[2].kind = "joined"
           /\ op \notin TwoPaths => all[2].kind = "path"
<1>1. Sends(op) \in Seq(RequestKind) /\ Len(Sends(op)) = Takes(op) /\ Takes(op) \in 1 .. 3
  BY SendsShape, TakesType
<1> DEFINE kinds == <<"opcode">> \o Sends(op)
           all == [i \in DOMAIN kinds |-> [from |-> k, op |-> op, kind |-> kinds[i]]]
<1>2. /\ kinds \in Seq(RequestKind) /\ Len(kinds) = 1 + Takes(op)
      /\ kinds[1] = "opcode" /\ \A i \in 1 .. Takes(op) : kinds[i + 1] = Sends(op)[i]
  <2>1. <<"opcode">> \in Seq(RequestKind) /\ Len(<<"opcode">>) = 1
    BY DEF RequestKind
  <2> QED BY <1>1, <2>1, ConcatProperties
<1> HIDE DEF kinds
<1>3. all \in [1 .. 1 + Takes(op) -> [from : {k}, op : {op}, kind : RequestKind]]
  BY <1>1, <1>2
<1>4. all \in Seq([from : {k}, op : {op}, kind : RequestKind]) /\ Len(all) = 1 + Takes(op)
  <2> HIDE DEF all
  <2>1. \A S, n, f : n \in Nat /\ f \in [1 .. n -> S] => f \in Seq(S) /\ Len(f) = n
    OBVIOUS
  <2>2. 1 + Takes(op) \in Nat
    BY <1>1
  <2> QED BY <1>3, <2>1, <2>2
<1>5. /\ \A i \in 1 .. 1 + Takes(op) : all[i].kind = kinds[i] /\ all[i].from = k
      /\ all[1].op = op
  BY <1>1, <1>2
<1>6. all = DatagramsOf(k, op)
  BY DEF DatagramsOf, kinds
<1>7. /\ op \in TwoPaths => Sends(op)[1] = "joined"
      /\ op \notin TwoPaths => Sends(op)[1] = "path"
  BY SendsShape
<1> HIDE DEF all
<1>8. /\ all[1].kind = "opcode" /\ all[2].kind = Sends(op)[1] /\ all[1].op = op
  BY <1>1, <1>2, <1>5
<1> QED BY <1>1, <1>4, <1>5, <1>6, <1>7, <1>8

LEMMA RequestStart ==
    ASSUME NEW op \in Dispatched, NEW k
    PROVE  LET all == DatagramsOf(k, op) IN
           /\ Len(all) = 1 + Takes(op) /\ Takes(op) \in 1 .. 3
           /\ all[1].kind = "opcode" /\ all[1].op = op /\ all[1].from = k
           /\ op \in TwoPaths => all[2].kind = "joined"
           /\ op \notin TwoPaths => all[2].kind = "path"
<1> DEFINE all == DatagramsOf(k, op)
<1>1. Len(all) = 1 + Takes(op) /\ Takes(op) \in 1 .. 3
  BY RequestShape
<1>2. all[1].kind = "opcode" /\ all[1].op = op
  BY RequestShape
<1>3. /\ op \in TwoPaths => all[2].kind = "joined"
      /\ op \notin TwoPaths => all[2].kind = "path"
  BY RequestShape
<1>4. \A i \in 1 .. Len(all) : all[i].from = k
  BY RequestShape
<1> HIDE DEF all
<1>5. all[1].from = k
  BY <1>1, <1>4
<1> QED BY <1>1, <1>2, <1>3, <1>5 DEF all

LEMMA RequestKinds ==
    ASSUME NEW op \in Dispatched, NEW k, NEW i \in 1 .. Takes(op)
    PROVE  DatagramsOf(k, op)[i + 1].kind = Sends(op)[i]
<1> DEFINE kinds == <<"opcode">> \o Sends(op)
<1>1. Sends(op) \in Seq(RequestKind) /\ Len(Sends(op)) = Takes(op) /\ Takes(op) \in 1 .. 3
  BY SendsShape, TakesType
<1>2. kinds[i + 1] = Sends(op)[i] /\ i + 1 \in DOMAIN kinds
  <2>1. <<"opcode">> \in Seq(RequestKind) /\ Len(<<"opcode">>) = 1
    BY DEF RequestKind
  <2>2. kinds \in Seq(RequestKind) /\ Len(kinds) = 1 + Takes(op) /\ kinds[i + 1] = Sends(op)[i]
    BY <1>1, <2>1, ConcatProperties
  <2> HIDE DEF kinds
  <2> QED BY <1>1, <2>2
<1>3. DatagramsOf(k, op) = [j \in DOMAIN kinds |-> [from |-> k, op |-> op, kind |-> kinds[j]]]
  BY DEF DatagramsOf
<1> HIDE DEF kinds
<1> QED BY <1>2, <1>3

(* The replies, kinds, are as many as the client waits for, 1 + f, but for *)
(* a directory whose entries do not fit; all is what they are if they do,  *)
(* and ft what the client waits for once it has taken one for success.     *)
RepliesFor(op, kinds, all, f, ft) ==
    /\ \/ Len(kinds) = 1 + f /\ kinds = all
       \/ Len(kinds) = 2 /\ f = 2
    /\ kinds[1] = "res" \/ (kinds[1] = "f_path" /\ op = "RELEASE")
    /\ \/ op \in {"READLINK", "READ"} \/ Len(kinds) = 1
       \/ Len(kinds) = 2 /\ kinds[2] \in {"stat", "f_path", "n"} /\ ft \in {1, 2}
       \/ Len(kinds) = 3 /\ kinds[2] = "n" /\ ft = 2 /\ op = "READDIR"

LEMMA GivesShape ==
    ASSUME NEW op \in Dispatched, NEW ok \in BOOLEAN, NEW fits \in BOOLEAN
    PROVE  /\ Gives(op, ok, fits) \in Seq(ReplyKind) /\ Follow(op, ok) \in 0 .. 2
           /\ RepliesFor(op, Gives(op, ok, fits), Gives(op, ok, TRUE),
                         Follow(op, ok), Follow(op, TRUE))
<1>1. Gives(op, ok, fits) \in Seq(ReplyKind) /\ Follow(op, ok) \in 0 .. 2
  BY GivesType, FollowType
<1>2. \A o, ft :
         /\ RepliesFor(o, <<"res">>, <<"res">>, 0, ft)
         /\ RepliesFor(o, <<"res", "stat">>, <<"res", "stat">>, 1, 1)
         /\ RepliesFor(o, <<"res", "f_path">>, <<"res", "f_path">>, 1, 1)
         /\ RepliesFor(o, <<"res", "n">>, <<"res", "n", "entries">>, 2, 2)
  BY DEF RepliesFor
<1>3. \A ft : /\ RepliesFor("RELEASE", <<"f_path">>, <<"f_path">>, 0, ft)
              /\ RepliesFor("READLINK", <<"res", "buf">>, <<"res", "buf">>, 1, ft)
              /\ RepliesFor("READ", <<"res", "data">>, <<"res", "data">>, 1, ft)
  BY DEF RepliesFor
<1>4. RepliesFor("READDIR", <<"res", "n", "entries">>, <<"res", "n", "entries">>, 2, 2)
  BY DEF RepliesFor
<1>5. CASE op = "GETATTR" \/ op = "OPEN" \/ op = "READDIR"
  BY <1>1, <1>2, <1>4, <1>5 DEF Gives, Follow
<1>6. CASE op = "RELEASE" \/ op = "READLINK" \/ op = "READ"
  BY <1>1, <1>2, <1>3, <1>6 DEF Gives, Follow
<1>7. CASE op \notin {"GETATTR", "OPEN", "READDIR", "RELEASE", "READLINK", "READ"}
  BY <1>1, <1>2, <1>7 DEF Gives, Follow
<1> QED BY <1>5, <1>6, <1>7

(* A queue that holds a part of the request, and its two ends *)
LEMMA SliceEnds ==
    ASSUME NEW S, NEW s \in Seq(S), NEW whole, NEW o \in Nat, Slice(s, whole, o)
    PROVE  /\ Len(s) \in Nat
           /\ s # << >> => /\ Head(s) = whole[o + 1] /\ s[1] = Head(s) /\ Head(s) \in S
                           /\ Tail(s) \in Seq(S) /\ Len(Tail(s)) = Len(s) - 1 /\ Len(s) # 0
                           /\ Slice(Tail(s), whole, o + 1)
           /\ \A x : x = whole[o + Len(s) + 1] => Slice(Append(s, x), whole, o)
<1>1. ASSUME s # << >>
      PROVE  /\ Head(s) = whole[o + 1] /\ s[1] = Head(s) /\ Head(s) \in S
             /\ Tail(s) \in Seq(S) /\ Len(Tail(s)) = Len(s) - 1 /\ Len(s) # 0
             /\ Slice(Tail(s), whole, o + 1)
  <2>1. /\ Head(s) = s[1] /\ 1 \in DOMAIN s /\ Tail(s) \in Seq(S) /\ Len(Tail(s)) = Len(s) - 1
        /\ Head(s) \in S /\ Len(s) # 0
        /\ \A i \in DOMAIN Tail(s) : i \in Nat /\ i + 1 \in DOMAIN s /\ Tail(s)[i] = s[i + 1]
    BY <1>1
  <2>2. \A i \in Nat : o + (i + 1) = (o + 1) + i
    OBVIOUS
  <2> QED BY <2>1, <2>2 DEF Slice
<1>2. ASSUME NEW x, x = whole[o + Len(s) + 1]
      PROVE  Slice(Append(s, x), whole, o)
  <2>1. \A i \in DOMAIN Append(s, x) :
           \/ i \in DOMAIN s /\ Append(s, x)[i] = s[i]
           \/ i = Len(s) + 1 /\ Append(s, x)[i] = x
    OBVIOUS
  <2>2. o + (Len(s) + 1) = o + Len(s) + 1
    OBVIOUS
  <2> QED BY <1>2, <2>1, <2>2 DEF Slice
<1> QED BY <1>1, <1>2

(* One client, that is not killed while a call of its hangs. *)
OneClient(c) ==
    Clients = {c} /\ MaxRestarts = 0 /\ Ops \subseteq Dispatched /\ LossesOnlyHang

LEMMA Mine ==
    ASSUME RpcTypes, NEW c \in Clients
    PROVE  LET me == client[c] IN
           /\ me.pc \in {"idle", "send", "recv"} /\ me.n \in Nat /\ me.want \in Nat
           /\ me.pc # "idle" => me.op \in Ops /\ me.n \in 1 .. MaxCalls
           /\ me.left \in Seq(Dgram) /\ Len(me.left) \in Nat /\ (me.left = << >> <=> Len(me.left) = 0)
           /\ me.pc = "send" <=> me.left # << >>
           /\ me.got \in Seq(Reply) /\ Len(me.got) \in Nat /\ (me.got = << >> <=> Len(me.got) = 0)
           /\ replies[c] \in Seq(Reply) /\ Len(replies[c]) \in Nat
           /\ replies[c] = << >> <=> Len(replies[c]) = 0
           /\ inbox \in Seq(Dgram) /\ Len(inbox) \in Nat /\ (inbox = << >> <=> Len(inbox) = 0)
           /\ server.args \in Seq(Dgram) /\ Len(server.args) \in Nat
           /\ server.pc = "handler" => server.op \in Dispatched
           /\ executed \in Seq(Run) /\ answers \in Seq(Answer)
<1>1. client[c] \in ClientRecord /\ ClientSound(client[c]) /\ replies[c] \in Seq(Reply)
  BY DEF RpcTypes
<1>2. client[c].left \in Seq(Dgram) /\ client[c].got \in Seq(Reply)
  BY <1>1 DEF ClientRecord
<1>3. \A S : \A s \in Seq(S) : Len(s) \in Nat /\ (s = << >> <=> Len(s) = 0)
  OBVIOUS
<1>4. client[c].n \in Nat /\ client[c].want \in Nat /\ client[c].pc \in {"idle", "send", "recv"}
  BY <1>1, RpcAssumption DEF ClientRecord
<1>5. client[c].pc # "idle" => client[c].op \in Ops /\ client[c].n \in 1 .. MaxCalls
  BY <1>1, RpcAssumption DEF ClientRecord, ClientSound
<1>6. client[c].pc = "send" <=> client[c].left # << >>
  BY <1>1 DEF ClientSound
<1>7. /\ inbox \in Seq(Dgram) /\ server.args \in Seq(Dgram)
      /\ server.pc = "handler" => server.op \in Dispatched
      /\ executed \in Seq(Run) /\ answers \in Seq(Answer)
  BY DEF RpcTypes, ServerSound
<1> QED BY <1>1, <1>2, <1>3, <1>4, <1>5, <1>6, <1>7

(* A call starts with all of its request still to be sent. *)
LEMMA CallAsks ==
    ASSUME RpcTypes, NEW c, OneClient(c), Alone(c), NEW op \in Ops, Call(c, op)
    PROVE  Asking(c)' /\ Resting(c) /\ client'[c].n = client[c].n + 1 /\ client'[c].op = op
           /\ client'[c].pc = "send"
<1> DEFINE k == <<c, client[c].n + 1>>
<1>1. c \in Clients /\ op \in Dispatched /\ client[c].n \in Nat
  BY Mine DEF OneClient
<1>2. Resting(c) /\ History(c)
  BY DEF Alone, Call, Resting, Asking, Starved, Answering, CutShort
<1>3. client'[c] = [pc |-> "send", n |-> client[c].n + 1, op |-> op, got |-> << >>, want |-> 1,
                    left |-> DatagramsOf(k, op)]
  BY <1>1 DEF Call, RpcTypes, DatagramsOf
<1>4. /\ client'[c].pc = "send" /\ client'[c].n = client[c].n + 1 /\ client'[c].op = op
      /\ client'[c].got = << >> /\ client'[c].left = DatagramsOf(k, op)
  BY <1>3
<1>5. replies'[c] = << >> /\ server'.pc = "top" /\ inbox' = << >> /\ executed' = executed
      /\ server' = server
  BY <1>1, <1>2 DEF Call, RpcTypes, Resting
<1>6. NotRun(k)
  <2>1. \A i \in DOMAIN executed : executed[i].root.from[2] <= client[c].n
    BY <1>2 DEF History
  <2>2. k[2] = client[c].n + 1
    OBVIOUS
  <2> HIDE DEF k
  <2> QED BY <1>1, <2>1, <2>2 DEF NotRun
<1>7. /\ Slice(<< >>, DatagramsOf(k, op), 0) /\ Len(<< >>) = 0
      /\ Slice(DatagramsOf(k, op), DatagramsOf(k, op), 0 + 0)
      /\ Len(DatagramsOf(k, op)) \in Nat
  <2>1. DatagramsOf(k, op) \in Seq([from : {k}, op : {op}, kind : RequestKind])
    BY <1>1, RequestShape
  <2> HIDE DEF k
  <2>2. \A i \in DOMAIN DatagramsOf(k, op) : 0 + 0 + i = i
    BY <2>1
  <2>3. Len(DatagramsOf(k, op)) \in Nat
    BY <2>1
  <2> QED BY <2>2, <2>3 DEF Slice
<1>8. Asking(c)'
  BY <1>4, <1>5, <1>6, <1>7 DEF Asking, Taken, NotRun
<1> QED BY <1>2, <1>4, <1>8

LEMMA SendStep ==
    ASSUME RpcTypes, NEW c \in Clients, Send(c)
    PROVE  /\ client[c].pc = "send" /\ client[c].left # << >>
           /\ client'[c].pc = IF Len(client[c].left) = 1 THEN "recv" ELSE "send"
           /\ client'[c].left = Tail(client[c].left)
           /\ client'[c].n = client[c].n /\ client'[c].op = client[c].op /\ client'[c].got = client[c].got
           /\ UNCHANGED <<replies, server, executed, answers, restarts>>
           /\ \/ inbox' = Append(inbox, Head(client[c].left)) /\ lost' = lost
              \/ server.pc = "crashed"
              \/ inbox' = inbox /\ lost' = lost + 1 /\ lost < MaxLost /\ client[c].op \in Lossy
<1>1. client[c].pc = "send" /\ client[c].left # << >>
  BY Mine DEF Send
<1>2. client'[c] = [client[c] EXCEPT !.left = Tail(@),
                                     !.pc = IF Len(client[c].left) = 1 THEN "recv" ELSE "send"]
  BY DEF Send, RpcTypes
<1>3. client[c] \in ClientRecord
  BY DEF RpcTypes
<1>4. /\ client'[c].pc = IF Len(client[c].left) = 1 THEN "recv" ELSE "send"
      /\ client'[c].left = Tail(client[c].left)
      /\ client'[c].n = client[c].n /\ client'[c].op = client[c].op /\ client'[c].got = client[c].got
  BY <1>2, <1>3 DEF ClientRecord
<1>5. /\ UNCHANGED <<replies, server, executed, answers, restarts>>
      /\ \/ inbox' = Append(inbox, Head(client[c].left)) /\ lost' = lost
         \/ server.pc = "crashed"
         \/ inbox' = inbox /\ lost' = lost + 1 /\ lost < MaxLost /\ client[c].op \in Lossy
  BY DEF Send
<1> QED BY <1>1, <1>4, <1>5

LEMMA LossyTakes ==
    ASSUME NEW c, OneClient(c), MaxLost # 0
    PROVE  \A op \in Lossy : /\ op \in Dispatched \ {"READLINK", "READ", "WRITE"}
                             /\ Takes(op) \in 1 .. 2
                             /\ op = "READDIR" => MaxLost <= 1
<1>1. \A op \in Lossy : op \in Dispatched \ {"READLINK", "READ", "WRITE"} /\ (op = "READDIR" => MaxLost <= 1)
  BY DEF OneClient, LossesOnlyHang
<1>2. \A op : op \notin {"READLINK", "WRITE"} => Takes(op) \in 1 .. 2
  BY DEF Takes
<1> QED BY <1>1, <1>2

(* The request goes on its way, or a datagram of it is lost. *)
LEMMA SendAsks ==
    ASSUME RpcTypes, NEW c, OneClient(c), Asking(c), lost \in Nat, Send(c)
    PROVE  Asking(c)' \/ Starved(c)'
<1> DEFINE me  == client[c]
           k   == <<c, me.n>>
           all == DatagramsOf(k, me.op)
           T   == Takes(me.op)
<1>1. c \in Clients
  BY DEF OneClient
<1>2. /\ me.op \in Dispatched /\ me.left \in Seq(Dgram) /\ Len(me.left) \in Nat /\ inbox \in Seq(Dgram)
      /\ Len(inbox) \in Nat /\ (inbox = << >> <=> Len(inbox) = 0) /\ server.args \in Seq(Dgram)
      /\ Len(server.args) \in Nat
  BY <1>1, Mine DEF OneClient, Asking
<1>3. /\ me.pc # "idle" /\ me.got = << >> /\ replies[c] = << >> /\ NotRun(k)
      /\ server.pc \in {"top", "handler"}
      /\ server.pc = "handler" =>
            /\ server.op = me.op /\ server.root[1] = all[1]
            /\ Slice(server.args, all, 1) /\ Len(server.args) < T
      /\ Slice(inbox, all, Taken) /\ Slice(me.left, all, Taken + Len(inbox))
      /\ Taken + Len(inbox) + Len(me.left) = Len(all)
  BY DEF Asking
<1>4. /\ me.left # << >> /\ client'[c].pc # "idle" /\ client'[c].left = Tail(me.left)
      /\ client'[c].n = me.n /\ client'[c].op = me.op /\ client'[c].got = << >>
      /\ replies'[c] = << >> /\ server' = server /\ executed' = executed
      /\ \/ inbox' = Append(inbox, Head(client[c].left))
         \/ inbox' = inbox /\ lost < MaxLost /\ client[c].op \in Lossy
  BY <1>1, <1>3, SendStep
<1>5. Taken \in Nat /\ Taken' = Taken
  BY <1>2, <1>4 DEF Taken
<1>6. /\ Len(all) = 1 + T /\ T \in 1 .. 3 /\ all[1].kind = "opcode" /\ all[1].op = me.op
      /\ all[2].kind \in {"path", "joined"}
  BY <1>2, RequestStart
<1>7. /\ Head(me.left) = all[Taken + Len(inbox) + 1] /\ Len(Tail(me.left)) = Len(me.left) - 1
      /\ Len(me.left) # 0 /\ Tail(me.left) \in Seq(Dgram)
      /\ Slice(Tail(me.left), all, Taken + Len(inbox) + 1)
      /\ Slice(Append(inbox, Head(me.left)), all, Taken)
  <2>1. Taken + Len(inbox) \in Nat
    BY <1>2, <1>5
  <2>2. /\ Head(me.left) = all[Taken + Len(inbox) + 1] /\ Len(Tail(me.left)) = Len(me.left) - 1
        /\ Len(me.left) # 0 /\ Tail(me.left) \in Seq(Dgram)
        /\ Slice(Tail(me.left), all, Taken + Len(inbox) + 1)
    BY <1>2, <1>3, <1>4, <2>1, SliceEnds
  <2> QED BY <1>2, <1>3, <1>5, <2>2, SliceEnds
<1> HIDE DEF all, k, T
<1>8. CASE inbox' = Append(inbox, Head(me.left))
  <2>1. Len(inbox') = Len(inbox) + 1
    BY <1>2, <1>7, <1>8
  <2>2. /\ Taken + Len(inbox) + 1 = Taken + (Len(inbox) + 1)
        /\ Taken + (Len(inbox) + 1) + (Len(me.left) - 1) = Len(all)
    <3>1. \A t, i, l \in Nat :
             t + i + 1 = t + (i + 1) /\ t + (i + 1) + (l - 1) = t + i + l
      OBVIOUS
    <3> QED BY <1>2, <1>3, <1>5, <3>1
  <2>3. /\ Slice(inbox', all, Taken) /\ Slice(client'[c].left, all, Taken + Len(inbox'))
        /\ Taken + Len(inbox') + Len(client'[c].left) = Len(all)
    BY <1>4, <1>7, <1>8, <2>1, <2>2
  <2>4. Asking(c)'
    BY <1>3, <1>4, <1>5, <2>3 DEF Asking, NotRun, all, k, T
  <2> QED BY <2>4
<1>9. CASE inbox' = inbox /\ lost < MaxLost /\ me.op \in Lossy
  <2>1. T \in 1 .. 2
    <3>1. MaxLost # 0
      BY <1>9, RpcAssumption
    <3> QED BY <1>9, <3>1, LossyTakes DEF T
  <2> DEFINE rest == Len(inbox) + Len(client'[c].left)
             First == IF inbox # << >> THEN inbox[1] ELSE client'[c].left[1]
  <2>2. rest = Len(all) - Taken - 1 /\ rest \in Nat
    BY <1>2, <1>3, <1>4, <1>5, <1>7
  <2>3. CASE server.pc = "handler"
    <3>1. Taken = Len(server.args) + 1
      BY <2>3 DEF Taken
    <3>2. Len(server.args) + rest < T
      <4>1. \A r, t1, n : \A a \in Nat, t \in 1 .. 2 : n = 1 + t /\ t1 = a + 1 /\ r = n - t1 - 1 => a + r < t
        OBVIOUS
      <4> QED BY <1>2, <1>6, <2>1, <2>2, <3>1, <4>1
    <3> QED BY <1>3, <1>4, <1>9, <2>3, <3>2 DEF Starved, NotRun, all, k, T
  <2>4. CASE server.pc = "top"
    <3>1. Taken = 0 /\ rest = T
      BY <1>6, <2>1, <2>2, <2>4 DEF Taken
    <3>2. CASE inbox # << >>
      <4>1. inbox[1] = all[1]
        BY <1>2, <1>3, <3>1, <3>2 DEF Slice
      <4> QED BY <1>3, <1>4, <1>6, <1>9, <2>1, <2>4, <3>1, <3>2, <4>1 DEF Starved, NotRun, k, T
    <3>3. CASE inbox = << >>
      <4>1. rest <= 1 \/ (rest <= 2 /\ First.kind \in {"path", "joined"})
        <5>1. CASE Tail(me.left) = << >>
          <6>1. Len(<< >>) = 0
            OBVIOUS
          <6>2. Len(inbox) = 0 /\ Len(client'[c].left) = 0
            BY <1>4, <3>3, <5>1, <6>1
          <6> QED BY <6>2
        <5>2. CASE Tail(me.left) # << >>
          <6>1. Tail(me.left)[1] = all[2]
            BY <1>2, <1>7, <3>1, <3>3, <5>2 DEF Slice
          <6> QED BY <1>4, <1>6, <2>1, <3>1, <3>3, <6>1
        <5> QED BY <5>1, <5>2
      <4> QED BY <1>3, <1>4, <1>9, <2>4, <4>1 DEF Starved, NotRun, k
    <3> QED BY <3>2, <3>3
  <2> QED BY <1>3, <2>3, <2>4
<1> QED BY <1>4, <1>8, <1>9

LEMMA QueueEnds ==
    ASSUME NEW S, NEW s \in Seq(S), NEW x
    PROVE  /\ s # << >> => /\ Head(s) = s[1] /\ Len(s) # 0 /\ Len(Tail(s)) = Len(s) - 1
                           /\ Append(s, x)[1] = s[1]
                           /\ Len(s) = 1 => Tail(s) = << >>
           /\ s = << >> => Append(s, x)[1] = x
           /\ Len(Append(s, x)) = Len(s) + 1 /\ Len(s) \in Nat /\ Append(s, x) # << >>
<1>1. CASE s # << >>
  <2>1. Len(s) = 1 => Tail(s) = << >>
    <3>1. Tail(s) \in Seq(S) /\ Len(Tail(s)) = Len(s) - 1
      BY <1>1
    <3>2. \A t \in Seq(S) : Len(t) = 0 => t = << >>
      OBVIOUS
    <3>3. \A m : m = 1 => m - 1 = 0
      OBVIOUS
    <3>4. Len(s) = 1 => Len(Tail(s)) = 0
      BY <3>1, <3>3, Zenon
    <3> QED BY <3>1, <3>2, <3>4, Zenon
  <2> QED BY <1>1, <2>1
<1>2. CASE s = << >>
  BY <1>2
<1> QED BY <1>1, <1>2

LEMMA AppendOne ==
    ASSUME NEW S, NEW s \in Seq(S), NEW x \in S
    PROVE  /\ Append(s, x) \in Seq(S) /\ Len(Append(s, x)) = Len(s) + 1 /\ Len(s) \in Nat
           /\ \A i \in DOMAIN Append(s, x) :
                 \/ i \in DOMAIN s /\ Append(s, x)[i] = s[i]
                 \/ i = Len(s) + 1 /\ Append(s, x)[i] = x
           /\ \A i \in DOMAIN s : i \in DOMAIN Append(s, x) /\ Append(s, x)[i] = s[i]
           /\ Len(s) + 1 \in DOMAIN Append(s, x) /\ Append(s, x)[Len(s) + 1] = x
  OBVIOUS

(* A request that has lost a datagram goes on its way, or loses another. *)
LEMMA SendStarves ==
    ASSUME RpcTypes, NEW c, OneClient(c), Starved(c), Send(c)
    PROVE  Starved(c)'
<1> DEFINE me    == client[c]
           rest  == Len(inbox) + Len(me.left)
           First == IF inbox # << >> THEN inbox[1] ELSE me.left[1]
           after == Len(inbox') + Len(client'[c].left)
           Next1 == IF inbox' # << >> THEN inbox'[1] ELSE client'[c].left[1]
<1>1. c \in Clients
  BY DEF OneClient
<1>2. /\ me.left \in Seq(Dgram) /\ inbox \in Seq(Dgram) /\ Len(me.left) \in Nat /\ Len(inbox) \in Nat
      /\ Len(server.args) \in Nat
  BY <1>1, Mine
<1>3. /\ me.left # << >> /\ client'[c].pc # "idle" /\ client'[c].left = Tail(me.left)
      /\ client'[c].n = me.n /\ client'[c].op = me.op /\ client'[c].got = me.got
      /\ replies'[c] = replies[c] /\ server' = server /\ executed' = executed
      /\ inbox' = Append(inbox, Head(me.left)) \/ inbox' = inbox
  <2>1. server.pc # "crashed"
    BY DEF Starved
  <2> QED BY <1>1, <2>1, SendStep
<1>4. /\ me.got = << >> /\ replies[c] = << >> /\ me.op \in Lossy /\ NotRun(<<c, me.n>>)
      /\ \/ server.pc = "handler" /\ Len(server.args) + rest < Takes(server.op)
         \/ /\ server.pc = "top"
            /\ \/ rest <= 1
               \/ rest <= 2 /\ First.kind \in {"path", "joined"}
               \/ /\ inbox # << >> /\ First.kind = "opcode" /\ First.op = me.op
                  /\ rest <= Takes(me.op)
  BY DEF Starved
<1>5. /\ Head(me.left) = me.left[1] /\ Len(me.left) # 0 /\ Len(Tail(me.left)) = Len(me.left) - 1
      /\ inbox # << >> => Append(inbox, Head(me.left))[1] = inbox[1]
      /\ inbox = << >> => Append(inbox, Head(me.left))[1] = Head(me.left)
      /\ Len(Append(inbox, Head(me.left))) = Len(inbox) + 1 /\ Append(inbox, Head(me.left)) # << >>
  BY <1>2, <1>3, QueueEnds
<1>6. rest \in Nat /\ after \in Nat /\ Takes(server.op) \in Nat /\ Takes(me.op) \in Nat
  <2>1. \A op : Takes(op) \in Nat
    BY TakesType
  <2> QED BY <1>2, <1>3, <1>5, <2>1
<1>7. \/ after = rest /\ inbox' # << >> /\ Next1 = First
      \/ after + 1 = rest /\ inbox' = inbox /\ (inbox # << >> => Next1 = First)
  <2>1. CASE inbox' = Append(inbox, Head(me.left))
    <3>1. after = rest
      <4>1. Len(inbox') = Len(inbox) + 1 /\ Len(client'[c].left) = Len(me.left) - 1
        BY <1>3, <1>5, <2>1
      <4> DEFINE i == Len(inbox)
                 l == Len(me.left)
                 a == Len(inbox')
                 b == Len(client'[c].left)
      <4>2. i \in Nat /\ l \in Nat /\ a = i + 1 /\ b = l - 1
        BY <1>2, <4>1
      <4> HIDE DEF i, l, a, b
      <4>3. a + b = i + l
        BY <4>2
      <4> QED BY <4>3 DEF a, b, i, l
    <3> QED BY <1>5, <2>1, <3>1
  <2>2. CASE inbox' = inbox
    <3>1. after + 1 = rest
      BY <1>2, <1>3, <1>5, <2>2
    <3> QED BY <2>2, <3>1
  <2> QED BY <1>3, <2>1, <2>2
<1> HIDE DEF rest, First, after, Next1, me
<1>8. \/ server.pc = "handler" /\ Len(server.args) + after < Takes(server.op)
      \/ /\ server.pc = "top"
         /\ \/ after <= 1
            \/ after <= 2 /\ Next1.kind \in {"path", "joined"}
            \/ /\ inbox' # << >> /\ Next1.kind = "opcode" /\ Next1.op = me.op
               /\ after <= Takes(me.op)
  BY <1>2, <1>4, <1>6, <1>7
<1> QED BY <1>3, <1>4, <1>8 DEF Starved, NotRun, after, Next1, me

(* The server takes the request as what it is. *)
LEMMA ServerAsked ==
    ASSUME RpcTypes, NEW c, OneClient(c), Asking(c), Server
    PROVE  Asking(c)' \/ HandlerExecutes
<1> DEFINE me  == client[c]
           k   == <<c, me.n>>
           all == DatagramsOf(k, me.op)
           T   == Takes(me.op)
<1>1. c \in Clients
  BY DEF OneClient
<1>2. /\ me.op \in Dispatched /\ me.left \in Seq(Dgram) /\ Len(me.left) \in Nat /\ inbox \in Seq(Dgram)
      /\ Len(inbox) \in Nat /\ (inbox = << >> <=> Len(inbox) = 0) /\ server.args \in Seq(Dgram)
      /\ Len(server.args) \in Nat
  BY <1>1, Mine DEF OneClient, Asking
<1>3. /\ me.pc # "idle" /\ me.got = << >> /\ replies[c] = << >> /\ NotRun(k)
      /\ server.pc \in {"top", "handler"}
      /\ server.pc = "handler" =>
            /\ server.op = me.op /\ server.root[1] = all[1]
            /\ Slice(server.args, all, 1) /\ Len(server.args) < T
      /\ Slice(inbox, all, Taken) /\ Slice(me.left, all, Taken + Len(inbox))
      /\ Taken + Len(inbox) + Len(me.left) = Len(all)
  BY DEF Asking
<1>4. /\ Len(all) = 1 + T /\ T \in 1 .. 3 /\ all[1].kind = "opcode" /\ all[1].op = me.op
      /\ me.op \in TwoPaths => all[2].kind = "joined"
  BY <1>2, RequestStart
<1>5. Taken \in Nat
  BY <1>2 DEF Taken
<1> HIDE DEF all, k, T, me
<1>6. ASSUME inbox # << >>
      PROVE  /\ Head(inbox) = all[Taken + 1] /\ Slice(Tail(inbox), all, Taken + 1)
             /\ Len(Tail(inbox)) = Len(inbox) - 1 /\ Taken + 1 + Len(Tail(inbox)) = Taken + Len(inbox)
  <2>1. /\ Head(inbox) = all[Taken + 1] /\ Slice(Tail(inbox), all, Taken + 1)
        /\ Len(Tail(inbox)) = Len(inbox) - 1
    <3>1. inbox \in Seq(Dgram) /\ Taken \in Nat /\ Slice(inbox, all, Taken)
      BY <1>2, <1>3, <1>5
    <3> QED BY <1>6, <3>1, SliceEnds
  <2>2. \A t, n \in Nat : t + 1 + (n - 1) = t + n
    OBVIOUS
  <2> QED BY <1>2, <1>5, <2>1, <2>2
<1>7. ASSUME UNCHANGED <<client, replies, executed>>, inbox # << >>, inbox' = Tail(inbox),
              server'.pc = "handler", server'.op = me.op, server'.root[1] = all[1],
              Slice(server'.args, all, 1), Len(server'.args) < T, Taken' = Taken + 1
       PROVE  Asking(c)'
  <2>1. /\ Slice(inbox', all, Taken')
        /\ Taken' + Len(inbox') = Taken + Len(inbox)
    BY <1>6, <1>7
  <2>2. /\ Slice(me.left, all, Taken' + Len(inbox'))
        /\ Taken' + Len(inbox') + Len(me.left) = Len(all)
    BY <1>3, <2>1
  <2>3. NotRun(k)'
    <3>1. \A i \in DOMAIN executed : executed[i].root.from # k
      BY <1>3 DEF NotRun
    <3> QED BY <1>7, <3>1 DEF NotRun, k, me
  <2> QED BY <1>3, <1>7, <2>1, <2>2, <2>3 DEF Asking, all, k, T, me
<1>8. CASE ServerReadsOpcode
  <2>1. /\ server.pc = "top" /\ inbox # << >> /\ inbox' = Tail(inbox)
        /\ UNCHANGED <<client, replies, executed>>
    BY <1>8 DEF ServerReadsOpcode
  <2>2. Taken = 0 /\ Head(inbox) = all[1]
    BY <1>6, <2>1 DEF Taken
  <2>3. ReadAsOpcode(Head(inbox)) = {me.op}
    BY <1>4, <2>2 DEF ReadAsOpcode
  <2>4. server' = [pc |-> "handler", op |-> me.op, root |-> <<all[1]>>, args |-> << >>]
    BY <1>2, <1>8, <2>2, <2>3 DEF ServerReadsOpcode
  <2>5. /\ server'.pc = "handler" /\ server'.op = me.op /\ server'.root[1] = all[1]
        /\ server'.args = << >> /\ Len(<< >>) = 0 /\ Slice(<< >>, all, 1)
    BY <2>4 DEF Slice
  <2>6. Taken' = Taken + 1
    BY <2>2, <2>5 DEF Taken
  <2>7. Len(server'.args) < T
    BY <1>4, <2>5
  <2> QED BY <1>7, <2>1, <2>5, <2>6, <2>7
<1>9. CASE HandlerReads
  <2>1. /\ server.pc = "handler" /\ inbox # << >> /\ inbox' = Tail(inbox)
        /\ Len(server.args) + 1 < Takes(server.op)
        /\ server' = [server EXCEPT !.args = Append(@, Head(inbox))]
        /\ UNCHANGED <<client, replies, executed>>
    BY <1>9 DEF HandlerReads
  <2>2. Taken = Len(server.args) + 1
    BY <2>1 DEF Taken
  <2>3. /\ server'.args = Append(server.args, Head(inbox)) /\ server'.pc = server.pc /\ server'.op = server.op
        /\ server'.root = server.root
    BY <2>1 DEF RpcTypes, ServerSound
  <2>4. Slice(server'.args, all, 1) /\ Len(server'.args) = Len(server.args) + 1
    <3>1. Head(inbox) = all[1 + Len(server.args) + 1]
      <4>1. Len(server.args) + 1 = 1 + Len(server.args)
        BY <1>2
      <4> QED BY <1>6, <2>1, <2>2, <4>1
    <3>2. Slice(Append(server.args, Head(inbox)), all, 1)
      BY <1>2, <1>3, <2>1, <3>1, SliceEnds
    <3> QED BY <1>2, <2>3, <3>2, QueueEnds
  <2>5. Taken' = Taken + 1
    BY <2>1, <2>2, <2>3, <2>4 DEF Taken
  <2>6. server'.op = me.op /\ server'.root[1] = all[1] /\ server'.pc = "handler" /\ Len(server'.args) < T
    BY <1>3, <2>1, <2>3, <2>4 DEF T, me
  <2> QED BY <1>7, <2>1, <2>4, <2>5, <2>6
<1>10. CASE HandlerCrashes
  <2>1. server.pc = "handler" /\ inbox # << >> /\ server.op \in TwoPaths /\ FALSE \in ReadAsJoined(Head(inbox))
    BY <1>10 DEF HandlerCrashes
  <2>2. T = 1 /\ me.op \in TwoPaths
    BY <1>3, <2>1 DEF T, TwoPaths, Takes
  <2>3. Taken = 1
    BY <1>2, <1>3, <2>1, <2>2 DEF Taken
  <2>4. ReadAsJoined(Head(inbox)) = {TRUE}
    <3>1. Head(inbox).kind = "joined"
      BY <1>4, <1>6, <2>1, <2>2, <2>3
    <3> QED BY <3>1 DEF ReadAsJoined
  <2> QED BY <2>1, <2>4
<1> QED BY <1>8, <1>9, <1>10 DEF Server

(* A handler that is short of a datagram reads what there is, and waits. *)
LEMMA ServerStarved ==
    ASSUME RpcTypes, NEW c, OneClient(c), Starved(c), Server
    PROVE  Starved(c)' /\ UNCHANGED <<client, executed, answers, lost, restarts>>
<1> DEFINE me    == client[c]
           L     == Len(me.left)
           rest  == Len(inbox) + L
           First == IF inbox # << >> THEN inbox[1] ELSE me.left[1]
<1>1. c \in Clients
  BY DEF OneClient
<1>2. /\ inbox \in Seq(Dgram) /\ L \in Nat /\ Len(inbox) \in Nat
      /\ server.args \in Seq(Dgram) /\ Len(server.args) \in Nat
  BY <1>1, Mine
<1>3. /\ me.pc # "idle" /\ me.got = << >> /\ replies[c] = << >> /\ me.op \in Lossy /\ NotRun(<<c, me.n>>)
      /\ \/ server.pc = "handler" /\ Len(server.args) + rest < Takes(server.op)
         \/ /\ server.pc = "top"
            /\ \/ rest <= 1
               \/ rest <= 2 /\ First.kind \in {"path", "joined"}
               \/ /\ inbox # << >> /\ First.kind = "opcode" /\ First.op = me.op
                  /\ rest <= Takes(me.op)
  BY DEF Starved
<1>4. inbox # << >>
  BY DEF Server, ServerReadsOpcode, HandlerReads, HandlerCrashes, HandlerExecutes
<1>5. Head(inbox) = inbox[1] /\ Len(inbox) # 0 /\ Len(Tail(inbox)) = Len(inbox) - 1
  BY <1>2, <1>4, QueueEnds
<1>6. \A op : Takes(op) \in 1 .. 3
  BY TakesType
<1> DEFINE after == Len(Tail(inbox)) + L
<1>7. after + 1 = rest /\ after \in Nat /\ rest \in Nat
  <2> HIDE DEF L
  <2> QED BY <1>2, <1>5
<1> HIDE DEF L, rest, after, me
<1>8. CASE ServerReadsOpcode
  <2>1. PICK op \in ReadAsOpcode(Head(inbox)) :
           server' = IF op \in Dispatched
                     THEN [pc |-> "handler", op |-> op, root |-> <<Head(inbox)>>, args |-> << >>]
                     ELSE Top
    BY <1>8 DEF ServerReadsOpcode
  <2>2. /\ server.pc = "top" /\ inbox' = Tail(inbox)
        /\ UNCHANGED <<client, replies, executed, answers, lost, restarts>>
    BY <1>8 DEF ServerReadsOpcode
  <2>3. CASE op \in Dispatched
    <3>1. server'.pc = "handler" /\ server'.op = op /\ server'.args = << >> /\ Len(<< >>) = 0
      BY <2>1, <2>3
    <3>2. after < Takes(op)
      <4>1. CASE rest <= 1
        BY <1>6, <1>7, <4>1
      <4>2. CASE First.kind \in {"path", "joined"}
        <5>1. op = NoOp
          BY <1>4, <1>5, <2>1, <4>2 DEF ReadAsOpcode
        <5> QED BY <2>3, <5>1, NoOpAssumption
      <4>3. CASE First.kind = "opcode" /\ First.op = me.op /\ rest <= Takes(me.op)
        <5>1. op = me.op
          BY <1>4, <1>5, <2>1, <4>3 DEF ReadAsOpcode
        <5> QED BY <1>6, <1>7, <4>3, <5>1
      <4> QED BY <1>3, <2>2, <4>1, <4>2, <4>3
    <3>3. Len(server'.args) + after < Takes(server'.op)
      BY <1>7, <3>1, <3>2
    <3> QED BY <1>3, <2>2, <3>1, <3>3 DEF Starved, NotRun, me, L, after
  <2>4. CASE op \notin Dispatched
    <3>1. server'.pc = "top"
      BY <2>1, <2>4 DEF Top
    <3>2. after <= 1
      <4>1. CASE rest <= 2
        BY <1>7, <4>1
      <4>2. CASE First.kind = "opcode" /\ First.op = me.op
        <5>1. op = me.op
          BY <1>4, <1>5, <2>1, <4>2 DEF ReadAsOpcode
        <5>2. op \in Dispatched
          BY <1>1, <1>3, <5>1, Mine DEF OneClient, me
        <5> QED BY <2>4, <5>2
      <4> QED BY <1>3, <1>7, <2>2, <4>1, <4>2
    <3> QED BY <1>3, <2>2, <3>1, <3>2 DEF Starved, NotRun, me, L, after
  <2> QED BY <2>3, <2>4
<1>9. CASE HandlerReads
  <2>1. /\ server.pc = "handler" /\ inbox' = Tail(inbox)
        /\ server' = [server EXCEPT !.args = Append(@, Head(inbox))]
        /\ UNCHANGED <<client, replies, executed, answers, lost, restarts>>
    BY <1>9 DEF HandlerReads
  <2>2. server'.args = Append(server.args, Head(inbox)) /\ server'.pc = server.pc /\ server'.op = server.op
    BY <2>1 DEF RpcTypes, ServerSound
  <2>3. Len(server'.args) = Len(server.args) + 1
    BY <1>2, <2>2, QueueEnds
  <2>4. Len(server'.args) + after = Len(server.args) + rest
    BY <1>2, <1>7, <2>3
  <2>5. Len(server'.args) + after < Takes(server'.op)
    BY <1>3, <2>1, <2>2, <2>4
  <2> QED BY <1>3, <2>1, <2>2, <2>5 DEF Starved, NotRun, me, L, after
<1>10. CASE HandlerCrashes \/ HandlerExecutes
  <2>1. server.pc = "handler" /\ Len(server.args) + 1 >= Takes(server.op)
    <3>1. CASE HandlerCrashes
      <4>1. server.pc = "handler" /\ server.op \in TwoPaths
        BY <3>1 DEF HandlerCrashes
      <4>2. Takes(server.op) = 1
        BY <4>1 DEF Takes, TwoPaths
      <4> QED BY <1>2, <4>1, <4>2
    <3>2. CASE HandlerExecutes
      BY <1>2, <3>2 DEF HandlerExecutes
    <3> QED BY <1>10, <3>1, <3>2
  <2>2. Len(server.args) + rest < Takes(server.op)
    BY <1>3, <2>1
  <2> QED BY <1>2, <1>6, <1>7, <2>1, <2>2
<1> QED BY <1>8, <1>9, <1>10 DEF Server

(* The server runs what the call has asked for, with what it has sent, and *)
(* all the replies are queued at the socket of the call.                   *)
LEMMA ServerAnswers ==
    ASSUME RpcTypes, NEW c, OneClient(c), Asking(c), HandlerExecutes
    PROVE  /\ Answering(c)'
           /\ \E e \in Run : /\ executed' = Append(executed, e) /\ e.root.from = <<c, client[c].n>>
                             /\ e.op = client[c].op /\ Own(e, <<c, client[c].n>>)
<1> DEFINE me  == client[c]
           k   == <<c, me.n>>
           all == DatagramsOf(k, me.op)
           T   == Takes(me.op)
<1>1. c \in Clients
  BY DEF OneClient
<1>2. /\ me.op \in Dispatched /\ me.left \in Seq(Dgram) /\ Len(me.left) \in Nat /\ inbox \in Seq(Dgram)
      /\ Len(inbox) \in Nat /\ (inbox = << >> <=> Len(inbox) = 0) /\ server.args \in Seq(Dgram)
      /\ Len(server.args) \in Nat /\ me.pc \in {"idle", "send", "recv"}
      /\ (me.left = << >> <=> Len(me.left) = 0) /\ (me.pc = "send" <=> me.left # << >>)
      /\ executed \in Seq(Run)
  BY <1>1, Mine DEF OneClient, Asking
<1>3. /\ me.pc # "idle" /\ me.got = << >> /\ replies[c] = << >> /\ NotRun(k)
      /\ server.pc = "handler" =>
            /\ server.op = me.op /\ server.root[1] = all[1]
            /\ Slice(server.args, all, 1) /\ Len(server.args) < T
      /\ Slice(inbox, all, Taken)
      /\ Taken + Len(inbox) + Len(me.left) = Len(all)
  BY DEF Asking
<1>4. /\ Len(all) = 1 + T /\ T \in 1 .. 3 /\ all[1].kind = "opcode" /\ all[1].op = me.op /\ all[1].from = k
      /\ \A i \in 1 .. T : all[i + 1].kind = Sends(me.op)[i]
      /\ \A i \in 1 .. Len(all) : all[i].from = k
  <2>1. me.op \in Dispatched
    BY <1>2
  <2> HIDE DEF me, k
  <2>2. \A i \in 1 .. T : all[i + 1].kind = Sends(me.op)[i]
    BY <2>1, RequestKinds
  <2>3. \A i \in 1 .. Len(all) : all[i].from = k
    BY <2>1, RequestShape
  <2>4. /\ Len(all) = 1 + T /\ T \in 1 .. 3
        /\ all[1].kind = "opcode" /\ all[1].op = me.op /\ all[1].from = k
    BY <2>1, RequestStart
  <2> HIDE DEF all, T
  <2> QED BY <2>2, <2>3, <2>4
<1> HIDE DEF all, T
<1>5. /\ server.pc = "handler" /\ inbox # << >> /\ Len(server.args) + 1 = T
      /\ inbox' = Tail(inbox) /\ server' = Top /\ client' = client
  BY <1>3 DEF HandlerExecutes, T
<1>6. Taken = T /\ Len(inbox) = 1 /\ Len(me.left) = 0
  <2>1. Taken = T
    BY <1>5 DEF Taken
  <2> DEFINE i == Len(inbox)
             l == Len(me.left)
  <2>2. i \in Nat /\ l \in Nat /\ i # 0 /\ T \in 1 .. 3 /\ T + i + l = 1 + T
    BY <1>2, <1>3, <1>4, <1>5, <2>1
  <2> HIDE DEF i, l
  <2>3. i = 1 /\ l = 0
    BY <2>2
  <2> QED BY <2>1, <2>3 DEF i, l
<1>7. me.pc = "recv" /\ inbox' = << >>
  BY <1>2, <1>3, <1>5, <1>6, QueueEnds
<1> DEFINE args == Append(server.args, Head(inbox))
<1>8. Slice(args, all, 1) /\ Head(inbox).from = k /\ args \in Seq(Dgram) /\ Len(args) = T
  <2>1. Head(inbox) = all[T + 1] /\ Head(inbox) \in Dgram
    BY <1>2, <1>3, <1>4, <1>5, <1>6, SliceEnds
  <2>2. 1 + Len(server.args) + 1 = T + 1 /\ T + 1 \in 1 .. Len(all)
    BY <1>2, <1>4, <1>5
  <2>3. Slice(args, all, 1)
    BY <1>2, <1>3, <1>5, <2>1, <2>2, SliceEnds
  <2> QED BY <1>2, <1>4, <1>5, <2>1, <2>2, <2>3, QueueEnds
<1>9. PICK ok \in BOOLEAN, fits \in BOOLEAN :
        /\ server.op = "RELEASE" => ok
        /\ RunBy(ok, fits) \in Run
        /\ executed' = Append(executed, RunBy(ok, fits))
        /\ Sent(ok, fits) \in Seq(Reply)
        /\ replies' = IF client[c].pc # "idle" /\ client[c].n = me.n
                      THEN [replies EXCEPT ![c] = @ \o Sent(ok, fits)]
                      ELSE replies
  <2> DEFINE peer == Head(inbox).from
  <2>1. PICK ok \in BOOLEAN, fits \in BOOLEAN :
        /\ server.op = "RELEASE" => ok
        /\ RunBy(ok, fits) \in Run
        /\ executed' = Append(executed, RunBy(ok, fits))
        /\ Sent(ok, fits) \in Seq(Reply)
        /\ replies' = IF client[peer[1]].pc # "idle" /\ client[peer[1]].n = peer[2]
                      THEN [replies EXCEPT ![peer[1]] = @ \o Sent(ok, fits)]
                      ELSE replies
    BY ExecuteStep
  <2>2. peer[1] = c /\ peer[2] = me.n
    BY <1>8
  <2> HIDE DEF peer
  <2> QED BY <2>1, <2>2
<1> DEFINE e == RunBy(ok, fits)
<1>10. /\ e.root = all[1] /\ e.op = me.op /\ e.ok = ok /\ e.fits = fits /\ e.args = args
  BY <1>3, <1>5 DEF RunBy
<1>11. Own(e, k)
  <2>1. e.root.from = k /\ e.root.op = me.op
    BY <1>4, <1>10
  <2>2. \A i \in DOMAIN args : i \in 1 .. T /\ 1 + i \in 1 .. Len(all) /\ 1 + i = i + 1
    BY <1>4, <1>8
  <2>3. \A i \in DOMAIN args : args[i].from = k /\ args[i].kind = Sends(me.op)[i]
    BY <1>4, <1>8, <2>2 DEF Slice
  <2>4. [i \in DOMAIN args |-> args[i].kind] = Sends(me.op)
    <3>1. Sends(me.op) \in Seq(RequestKind) /\ Len(Sends(me.op)) = T
      BY <1>2, SendsShape DEF T
    <3>2. DOMAIN args = 1 .. T /\ DOMAIN Sends(me.op) = 1 .. T
      BY <1>8, <3>1
    <3>3. Sends(me.op) = [i \in 1 .. T |-> Sends(me.op)[i]]
      BY <3>1
    <3> HIDE DEF args
    <3> QED BY <2>3, <3>2, <3>3
  <2> HIDE DEF e, args, k
  <2> QED BY <1>10, <2>1, <2>3, <2>4 DEF Own
<1>12. /\ executed' = Append(executed, e) /\ Len(executed') = Len(executed) + 1
       /\ executed'[Len(executed')] = e /\ Len(executed') # 0
  BY <1>2, <1>9
<1> DEFINE kinds == Gives(me.op, ok, fits)
<1>13. /\ replies'[c] = Sent(ok, fits) /\ Len(Sent(ok, fits)) = Len(kinds)
       /\ \A i \in DOMAIN Sent(ok, fits) :
             Sent(ok, fits)[i] = [exec |-> Len(executed'), kind |-> kinds[i], ok |-> ok]
  <2>1. replies'[c] = << >> \o Sent(ok, fits)
    BY <1>1, <1>3, <1>9 DEF RpcTypes
  <2>2. << >> \o Sent(ok, fits) = Sent(ok, fits)
    BY <1>9
  <2>3. Sent(ok, fits) = [i \in DOMAIN kinds |->
           [exec |-> Len(executed) + 1, kind |-> kinds[i], ok |-> ok]]
    BY <1>3, <1>5 DEF Sent
  <2>4. kinds \in Seq(ReplyKind)
    BY GivesType
  <2> HIDE DEF kinds
  <2>5. \A f : [i \in DOMAIN kinds |-> f] \in Seq({f})
    BY <2>4
  <2>6. DOMAIN Sent(ok, fits) = 1 .. Len(kinds) /\ Len(kinds) \in Nat
    BY <2>3, <2>4
  <2>7. Len(Sent(ok, fits)) = Len(kinds)
    BY <1>9, <2>6
  <2> QED BY <1>12, <2>1, <2>2, <2>3, <2>7
<1>14. Answering(c)'
  <2>1. client'[c] = me /\ server'.pc = "top" /\ inbox' = << >>
    BY <1>5, <1>7 DEF Top
  <2>2. me.op = "RELEASE" => e.ok
    BY <1>3, <1>5, <1>9, <1>10
  <2>3. Len(kinds) \in Nat /\ Len(<< >>) = 0 /\ DOMAIN << >> = {} /\ 0 + Len(kinds) = Len(kinds)
    BY GivesType
  <2>4. \A i \in DOMAIN Sent(ok, fits) : 0 + i = i
    BY <1>9
  <2> HIDE DEF e, args
  <2> HIDE DEF kinds
  <2>5. /\ Len(me.got) + Len(replies'[c]) = Len(kinds)
        /\ \A i \in DOMAIN me.got : FALSE
        /\ \A i \in DOMAIN replies'[c] : Len(me.got) + i = i
    BY <1>3, <1>13, <2>3, <2>4
  <2>6. \A i \in DOMAIN replies'[c] : replies'[c][i] =
           [exec |-> Len(executed'), kind |-> kinds[Len(me.got) + i], ok |-> ok]
    BY <1>13, <2>5
  <2> HIDE DEF me, k
  <2>7. Owed(me, replies'[c], Len(executed'), e)
    BY <1>3, <1>10, <2>2, <2>5, <2>6 DEF Owed, kinds
  <2>8. e.root.from = <<c, me.n>>
    BY <1>4, <1>10 DEF k
  <2> QED BY <1>7, <1>12, <2>1, <2>7, <2>8 DEF Answering, me
<1> QED BY <1>4, <1>9, <1>10, <1>11, <1>14

(* What a recvfrom of the client does to its own record *)
LEMMA RecvStep ==
    ASSUME RpcTypes, NEW c \in Clients, Recv(c)
    PROVE  LET me == client[c]  reply == replies[c][1]  got == Append(me.got, reply) IN
           /\ me.pc = "recv" /\ replies[c] # << >> /\ replies'[c] = Tail(replies[c])
           /\ UNCHANGED <<inbox, server, executed, lost, restarts>>
           /\ client'[c].n = me.n
           /\ \E ok \in TakenForSuccess(reply) :
                 LET want == IF me.got = << >> THEN 1 + Follow(me.op, ok) ELSE me.want IN
                 \/ /\ Len(me.got) + 1 < want /\ answers' = answers
                    /\ client'[c].pc = "recv" /\ client'[c].op = me.op
                    /\ client'[c].got = got /\ client'[c].want = want
                 \/ /\ ~(Len(me.got) + 1 < want) /\ client'[c].pc = "idle"
                    /\ answers' = Append(answers, [call |-> <<c, me.n>>, op |-> me.op, got |-> got])
<1> DEFINE me    == client[c]
           reply == replies[c][1]
           got   == Append(me.got, reply)
<1>1. me.pc = "recv" /\ replies[c] # << >> /\ UNCHANGED <<inbox, server, executed, lost, restarts>>
  BY DEF Recv
<1>2. replies'[c] = Tail(replies[c])
  BY DEF Recv, RpcTypes
<1>3. Head(replies[c]) = reply /\ Len(got) = Len(me.got) + 1
  BY <1>1, Mine, QueueEnds
<1>4. PICK ok \in TakenForSuccess(reply) :
        LET want == IF me.got = << >> THEN 1 + Follow(me.op, ok) ELSE me.want
        IN  IF Len(got) < want
            THEN /\ client' = [client EXCEPT ![c].got = got, ![c].want = want]
                 /\ UNCHANGED answers
            ELSE /\ client' = [client EXCEPT ![c] = [Idle EXCEPT !.n = me.n]]
                 /\ answers' = Append(answers, [call |-> <<c, me.n>>, op |-> me.op, got |-> got])
  BY <1>3 DEF Recv
<1> DEFINE want == IF me.got = << >> THEN 1 + Follow(me.op, ok) ELSE me.want
<1>5. me \in ClientRecord /\ client \in [Clients -> ClientRecord]
  BY DEF RpcTypes
<1> HIDE DEF reply, got, want
<1>6. CASE Len(got) < want
  <2>1. client' = [client EXCEPT ![c].got = got, ![c].want = want] /\ UNCHANGED answers
    BY <1>4, <1>6 DEF want
  <2>2. client'[c] = [me EXCEPT !.got = got, !.want = want]
    BY <1>5, <2>1
  <2>3. /\ client'[c].pc = me.pc /\ client'[c].op = me.op /\ client'[c].n = me.n
        /\ client'[c].got = got /\ client'[c].want = want
    BY <1>5, <2>2 DEF ClientRecord
  <2> QED BY <1>1, <1>2, <1>3, <1>4, <1>6, <2>1, <2>3 DEF want, got, reply
<1>7. CASE ~(Len(got) < want)
  <2>1. /\ client' = [client EXCEPT ![c] = [Idle EXCEPT !.n = me.n]]
        /\ answers' = Append(answers, [call |-> <<c, me.n>>, op |-> me.op, got |-> got])
    BY <1>4, <1>7 DEF want
  <2>2. client'[c] = [Idle EXCEPT !.n = me.n]
    BY <1>5, <2>1
  <2>3. client'[c].pc = "idle" /\ client'[c].n = me.n
    BY <2>2 DEF Idle
  <2> QED BY <1>1, <1>2, <1>3, <1>4, <1>7, <2>1, <2>3 DEF want, got, reply
<1> QED BY <1>6, <1>7

(* The call that has been run takes the next reply; with the last one it   *)
(* returns, and has all the replies of its run.                            *)
LEMMA RecvAnswers ==
    ASSUME RpcTypes, NEW c, OneClient(c), Answering(c), Recv(c)
    PROVE  LET me == client[c]  x == Len(executed)
        IN  \/ /\ Answering(c)' /\ client'[c].pc = me.pc /\ client'[c].n = me.n
               /\ client'[c].op = me.op /\ UNCHANGED <<answers, executed>>
            \/ /\ Resting(c)' /\ client'[c].n = me.n /\ UNCHANGED executed
               /\ \E got \in Seq(Reply) :
                    /\ answers' = Append(answers, [call |-> <<c, me.n>>, op |-> me.op, got |-> got])
                    /\ Len(got) = Len(Gives(me.op, executed[x].ok, TRUE)) /\ Len(got) # 0
                    /\ \A i \in DOMAIN got :
                          got[i] = [exec |-> x, kind |-> Gives(me.op, executed[x].ok, TRUE)[i],
                                    ok |-> executed[x].ok]
<1> DEFINE me    == client[c]
           x     == Len(executed)
           e     == executed[x]
           kinds == Gives(me.op, e.ok, e.fits)
           whole == Gives(me.op, e.ok, TRUE)
           Of(i) == [exec |-> x, kind |-> kinds[i], ok |-> e.ok]
           reply == replies[c][1]
           got   == Append(me.got, reply)
           f     == Follow(me.op, e.ok)
<1>1. c \in Clients
  BY DEF OneClient
<1>2. /\ me.got \in Seq(Reply) /\ replies[c] \in Seq(Reply) /\ Len(me.got) \in Nat /\ Len(replies[c]) \in Nat
      /\ (me.got = << >> <=> Len(me.got) = 0) /\ me.op \in Dispatched /\ executed \in Seq(Run)
  BY <1>1, Mine DEF OneClient, Answering
<1>3. /\ me.pc = "recv" /\ server.pc = "top" /\ inbox = << >>
      /\ x # 0 /\ e.root.from = <<c, me.n>> /\ e.op = me.op
      /\ me.op = "RELEASE" => e.ok
      /\ Len(me.got) + Len(replies[c]) = Len(kinds)
      /\ \A i \in DOMAIN me.got : me.got[i] = Of(i)
      /\ \A i \in DOMAIN replies[c] : replies[c][i] = Of(Len(me.got) + i)
      /\ me.got # << >> => me.want = 1 + f
  BY DEF Answering, Owed
<1>4. e \in Run /\ e.ok \in BOOLEAN /\ e.fits \in BOOLEAN
  <2>1. e \in Run
    BY <1>2, <1>3
  <2> QED BY <2>1 DEF Run
<1> HIDE DEF e, x
<1>5. /\ kinds \in Seq(ReplyKind) /\ f \in 0 .. 2 /\ Len(kinds) \in Nat
      /\ RepliesFor(me.op, kinds, whole, f, Follow(me.op, TRUE))
  <2>1. me.op \in Dispatched
    BY <1>2
  <2> HIDE DEF me
  <2>2. /\ kinds \in Seq(ReplyKind) /\ f \in 0 .. 2
        /\ RepliesFor(me.op, kinds, whole, f, Follow(me.op, TRUE))
    BY <1>4, <2>1, GivesShape, Zenon
  <2>3. Len(kinds) \in Nat
    BY <2>2
  <2> HIDE DEF kinds, whole, f
  <2> QED BY <2>2, <2>3
<1> HIDE DEF kinds, whole, f
<1>6. replies[c] # << >> /\ UNCHANGED <<inbox, server, executed>> /\ replies'[c] = Tail(replies[c])
      /\ client'[c].n = me.n
  BY <1>1, RecvStep
<1>7. PICK ok \in TakenForSuccess(reply) :
         LET want == IF me.got = << >> THEN 1 + Follow(me.op, ok) ELSE me.want IN
         \/ /\ Len(me.got) + 1 < want /\ answers' = answers
            /\ client'[c].pc = "recv" /\ client'[c].op = me.op
            /\ client'[c].got = got /\ client'[c].want = want
         \/ /\ ~(Len(me.got) + 1 < want) /\ client'[c].pc = "idle"
            /\ answers' = Append(answers, [call |-> <<c, me.n>>, op |-> me.op, got |-> got])
  BY <1>1, RecvStep
<1>8. reply = Of(Len(me.got) + 1) /\ Len(replies[c]) # 0 /\ Len(Tail(replies[c])) = Len(replies[c]) - 1
      /\ reply \in Reply /\ Tail(replies[c]) \in Seq(Reply)
      /\ \A i \in DOMAIN Tail(replies[c]) : Tail(replies[c])[i] = Of(Len(me.got) + (i + 1))
  <2>1. /\ 1 \in DOMAIN replies[c] /\ Len(replies[c]) # 0 /\ Len(Tail(replies[c])) = Len(replies[c]) - 1
        /\ reply \in Reply /\ Tail(replies[c]) \in Seq(Reply)
        /\ \A i \in DOMAIN Tail(replies[c]) :
              i + 1 \in DOMAIN replies[c] /\ Tail(replies[c])[i] = replies[c][i + 1]
    BY <1>2, <1>6
  <2> QED BY <1>3, <2>1
<1>9. (IF me.got = << >> THEN 1 + Follow(me.op, ok) ELSE me.want) = 1 + f
  <2>1. CASE me.got # << >>
    BY <1>3, <2>1
  <2>2. CASE me.got = << >>
    <3>1. reply.kind = kinds[1] /\ reply.ok = e.ok
      BY <1>2, <1>8, <2>2
    <3>2. TakenForSuccess(reply) = {e.ok}
      BY <1>3, <1>4, <1>5, <3>1 DEF RepliesFor, TakenForSuccess
    <3>3. ok = e.ok
      BY <1>7, <3>2
    <3> QED BY <2>2, <3>3 DEF f
  <2> QED BY <2>1, <2>2
<1>10. /\ got \in Seq(Reply) /\ Len(got) = Len(me.got) + 1
       /\ \A i \in DOMAIN got : got[i] = Of(i)
  <2>1. /\ got \in Seq(Reply) /\ Len(got) = Len(me.got) + 1
        /\ \A i \in DOMAIN got : \/ i \in DOMAIN me.got /\ got[i] = me.got[i]
                                 \/ i = Len(me.got) + 1 /\ got[i] = reply
    BY <1>2, <1>8, AppendOne
  <2> HIDE DEF got
  <2> QED BY <1>3, <1>8, <2>1
<1> HIDE DEF reply, got
<1>11. CASE Len(me.got) + 1 < 1 + f
  <2>1. /\ client'[c].pc = "recv" /\ client'[c].op = me.op /\ answers' = answers
        /\ client'[c].got = got /\ client'[c].want = 1 + f
    BY <1>7, <1>9, <1>11 DEF got
  <2> DEFINE g == Len(me.got)
             r == Len(replies[c])
  <2>2. g \in Nat /\ r \in Nat /\ g + r = Len(kinds) /\ Len(got) = g + 1 /\ Len(replies'[c]) = r - 1
    BY <1>2, <1>3, <1>6, <1>8, <1>10
  <2> HIDE DEF g, r
  <2>3. Len(got) + Len(replies'[c]) = Len(kinds)
    BY <2>2
  <2>4. \A i \in DOMAIN replies'[c] : Len(me.got) + (i + 1) = Len(got) + i /\ replies'[c][i] = Of(Len(got) + i)
    <3>1. DOMAIN replies'[c] \subseteq Nat
      BY <1>6, <1>8
    <3> DEFINE n == Len(me.got)
               h == Len(got)
    <3>2. n \in Nat /\ h = n + 1
      BY <1>2, <1>10
    <3> HIDE DEF n, h
    <3>3. \A i \in Nat : n + (i + 1) = h + i
      BY <3>2
    <3>4. \A i \in Nat : Len(me.got) + (i + 1) = Len(got) + i
      BY <3>3 DEF n, h
    <3> QED BY <1>6, <1>8, <3>1, <3>4
  <2>5. Owed(client'[c], replies'[c], x, e)
    BY <1>3, <1>10, <2>1, <2>3, <2>4 DEF Owed, kinds, f
  <2>6. Answering(c)'
    <3>1. executed' = executed /\ server' = server /\ inbox' = inbox
      BY <1>6
    <3> QED BY <1>3, <1>6, <2>1, <2>5, <3>1 DEF Answering, e, x
  <2> QED BY <1>3, <1>6, <2>1, <2>6
<1>12. CASE ~(Len(me.got) + 1 < 1 + f)
  <2>1. /\ client'[c].pc = "idle"
        /\ answers' = Append(answers, [call |-> <<c, me.n>>, op |-> me.op, got |-> got])
    BY <1>7, <1>9, <1>12 DEF got
  <2>2. Len(got) = Len(kinds) /\ kinds = whole
    <3> DEFINE g == Len(me.got)
               r == Len(replies[c])
               n == Len(kinds)
    <3>1. /\ g \in Nat /\ r \in Nat /\ r # 0 /\ g + r = n /\ n \in Nat /\ ~(g + 1 < 1 + f) /\ f \in 0 .. 2
          /\ (n = 1 + f /\ kinds = whole) \/ (n = 2 /\ f = 2)
      BY <1>2, <1>3, <1>5, <1>8, <1>12 DEF RepliesFor
    <3> HIDE DEF g, r, n
    <3>2. g + 1 = n /\ kinds = whole
      BY <3>1
    <3> QED BY <1>10, <3>2 DEF g, n
  <2>3. Resting(c)'
    BY <1>3, <1>6, <2>1 DEF Resting
  <2>4. /\ Len(got) = Len(whole) /\ Len(got) # 0
        /\ \A i \in DOMAIN got : got[i] = [exec |-> x, kind |-> whole[i], ok |-> e.ok]
    BY <1>2, <1>10, <2>2
  <2> QED BY <1>6, <1>10, <2>1, <2>3, <2>4 DEF whole, e, x
<1> QED BY <1>11, <1>12

(* A call that has lost a reply takes what there is, and waits. *)
LEMMA RecvCut ==
    ASSUME RpcTypes, NEW c, OneClient(c), CutShort(c), Recv(c)
    PROVE  /\ CutShort(c)' /\ client'[c].pc = client[c].pc /\ client'[c].n = client[c].n
           /\ client'[c].op = client[c].op /\ UNCHANGED <<answers, executed>>
<1> DEFINE me    == client[c]
           reply == replies[c][1]
           got   == Append(me.got, reply)
           g     == Len(me.got)
           r     == Len(replies[c])
<1>1. c \in Clients
  BY DEF OneClient
<1>2. /\ me.got \in Seq(Reply) /\ replies[c] \in Seq(Reply) /\ g \in Nat /\ r \in Nat
      /\ (me.got = << >> <=> g = 0) /\ me.want \in Nat
  BY <1>1, Mine
<1>3. /\ me.pc = "recv" /\ server.pc = "top" /\ inbox = << >> /\ me.op \in Lossy
      /\ me.got # << >> => g + r < me.want
      /\ me.got = << >> /\ replies[c] # << >> =>
            \A ok \in TakenForSuccess(reply) : r < 1 + Follow(me.op, ok)
  BY DEF CutShort
<1>4. replies[c] # << >> /\ UNCHANGED <<inbox, server, executed, lost>> /\ replies'[c] = Tail(replies[c])
      /\ client'[c].n = me.n
  BY <1>1, RecvStep
<1>5. PICK ok \in TakenForSuccess(reply) :
         LET want == IF me.got = << >> THEN 1 + Follow(me.op, ok) ELSE me.want IN
         \/ /\ g + 1 < want /\ answers' = answers
            /\ client'[c].pc = "recv" /\ client'[c].op = me.op
            /\ client'[c].got = got /\ client'[c].want = want
         \/ /\ ~(g + 1 < want) /\ client'[c].pc = "idle"
            /\ answers' = Append(answers, [call |-> <<c, me.n>>, op |-> me.op, got |-> got])
  BY <1>1, RecvStep
<1> DEFINE want == IF me.got = << >> THEN 1 + Follow(me.op, ok) ELSE me.want
<1>6. r # 0 /\ Len(replies'[c]) = r - 1 /\ Len(got) = g + 1 /\ got # << >>
  BY <1>2, <1>4, QueueEnds
<1>7. want \in Nat /\ g + r < want
  <2>1. CASE me.got # << >>
    BY <1>2, <1>3, <2>1
  <2>2. CASE me.got = << >>
    <3>1. g = 0 /\ want = 1 + Follow(me.op, ok) /\ r < 1 + Follow(me.op, ok)
      BY <1>2, <1>3, <1>4, <1>5, <2>2
    <3>2. Follow(me.op, ok) \in Nat
      BY FollowType
    <3> HIDE DEF want, g, r
    <3> QED BY <1>2, <3>1, <3>2
  <2> QED BY <2>1, <2>2
<1> HIDE DEF want, g, r, got, reply
<1>8. g + 1 < want /\ (g + 1) + (r - 1) < want
  BY <1>2, <1>6, <1>7
<1>9. /\ answers' = answers /\ client'[c].pc = "recv" /\ client'[c].op = me.op
      /\ client'[c].got = got /\ client'[c].want = want
  BY <1>5, <1>8 DEF want
<1>10. CutShort(c)'
  <2>1. Len(client'[c].got) + Len(replies'[c]) < client'[c].want /\ client'[c].got # << >>
    BY <1>6, <1>8, <1>9
  <2> QED BY <1>3, <1>4, <1>9, <2>1 DEF CutShort
<1> QED BY <1>3, <1>4, <1>9, <1>10

LEMMA OwedKinds ==
    ASSUME NEW me, NEW queue, NEW x, NEW e, Owed(me, queue, x, e), NEW i \in DOMAIN queue
    PROVE  queue[i].kind = Gives(me.op, e.ok, e.fits)[Len(me.got) + i]
<1> DEFINE kinds == Gives(me.op, e.ok, e.fits)
           g     == Len(me.got)
           ok    == e.ok
<1>1. queue[i] = [exec |-> x, kind |-> kinds[g + i], ok |-> ok]
  BY DEF Owed
<1> HIDE DEF kinds, g, ok
<1>2. queue[i].kind = kinds[g + i]
  BY <1>1
<1> QED BY <1>2 DEF kinds, g

(* A reply that is lost leaves the client short of one. *)
LEMMA LossCuts ==
    ASSUME RpcTypes, NEW c, OneClient(c), lost \in Nat, LoseReply(c), Answering(c) \/ CutShort(c)
    PROVE  CutShort(c)' /\ UNCHANGED <<client, executed, answers>>
<1> DEFINE me == client[c]
           g  == Len(me.got)
           r  == Len(replies[c])
<1>1. c \in Clients
  BY DEF OneClient
<1>2. /\ me.got \in Seq(Reply) /\ replies[c] \in Seq(Reply) /\ g \in Nat /\ r \in Nat
      /\ (me.got = << >> <=> g = 0) /\ me.want \in Nat /\ executed \in Seq(Run)
      /\ me.pc # "idle" => me.op \in Dispatched
  BY <1>1, Mine DEF OneClient
<1>3. /\ replies[c] # << >> /\ lost < MaxLost /\ me.op \in Lossy /\ lost' = lost + 1
      /\ replies'[c] = Tail(replies[c]) /\ UNCHANGED <<client, inbox, server, executed, answers>>
  BY <1>1 DEF LoseReply, RpcTypes
<1>4. /\ r # 0 /\ Len(replies'[c]) = r - 1 /\ (r = 1 => replies'[c] = << >>)
      /\ \A i \in DOMAIN replies'[c] : replies'[c][i] = replies[c][i + 1]
      /\ replies'[c] \in Seq(Reply)
  <2>1. \A i \in DOMAIN Tail(replies[c]) : Tail(replies[c])[i] = replies[c][i + 1]
    BY <1>2, <1>3
  <2>2. r # 0 /\ Len(Tail(replies[c])) = r - 1 /\ (r = 1 => Tail(replies[c]) = << >>)
    BY <1>2, <1>3, QueueEnds
  <2>3. Tail(replies[c]) \in Seq(Reply)
    BY <1>2, <1>3
  <2> QED BY <1>3, <2>1, <2>2, <2>3
<1>5. /\ me.op \in Dispatched \ {"READLINK", "READ", "WRITE"} /\ (me.op = "READDIR" => lost' >= MaxLost)
  <2>1. MaxLost # 0 /\ MaxLost \in Nat
    BY <1>3, RpcAssumption
  <2> QED BY <1>3, <2>1, LossyTakes
<1>6. CASE Answering(c)
  <2> DEFINE x     == Len(executed)
             e     == executed[x]
             kinds == Gives(me.op, e.ok, e.fits)
             f     == Follow(me.op, e.ok)
             ft    == Follow(me.op, TRUE)
  <2>1. /\ me.pc = "recv" /\ server.pc = "top" /\ inbox = << >> /\ x # 0
        /\ Owed(me, replies[c], x, e)
    BY <1>6 DEF Answering
  <2>2. e.ok \in BOOLEAN /\ e.fits \in BOOLEAN
    <3>1. e \in Run
      BY <1>2, <2>1
    <3> QED BY <3>1 DEF Run
  <2> HIDE DEF e, x
  <2>3. /\ g + r = Len(kinds) /\ (me.got # << >> => me.want = 1 + f)
        /\ \A i \in DOMAIN replies[c] :
              replies[c][i] = [exec |-> x, kind |-> kinds[g + i], ok |-> e.ok]
    BY <2>1 DEF Owed
  <2>4. me.op \in Dispatched
    BY <1>5
  <2>5. /\ kinds \in Seq(ReplyKind) /\ f \in 0 .. 2
        /\ RepliesFor(me.op, kinds, Gives(me.op, e.ok, TRUE), f, ft)
    <3> HIDE DEF me
    <3> QED BY <2>2, <2>4, GivesShape, Zenon
  <2> HIDE DEF kinds, f, ft
  <2>6. \A i \in DOMAIN replies[c] : replies[c][i].kind = kinds[g + i]
    BY <2>1, OwedKinds DEF kinds
  <2>7. Len(kinds) \in Nat /\ (Len(kinds) = 1 + f \/ (Len(kinds) = 2 /\ f = 2))
    <3>1. Len(kinds) \in Nat
      BY <2>5
    <3>2. Len(kinds) = 1 + f \/ (Len(kinds) = 2 /\ f = 2)
      BY <2>5, Zenon DEF RepliesFor
    <3> QED BY <3>1, <3>2
  <2>8. CASE me.got # << >>
    <3>1. g + (r - 1) < me.want
      <4> DEFINE n == Len(kinds)
                 w == me.want
      <4>1. g \in Nat /\ r \in Nat /\ n \in Nat /\ g + r = n /\ w = 1 + f /\ f \in 0 .. 2
            /\ (n = 1 + f \/ (n = 2 /\ f = 2))
        BY <1>2, <2>3, <2>5, <2>7, <2>8
      <4> HIDE DEF g, r, n, w
      <4>2. g + (r - 1) < w
        BY <4>1
      <4> QED BY <4>2 DEF w
    <3> QED BY <1>3, <1>4, <2>1, <2>8, <3>1 DEF CutShort
  <2>9. CASE me.got = << >>
    <3>1. g = 0 /\ r = Len(kinds)
      BY <1>2, <2>3, <2>7, <2>9
    <3>2. CASE r = 1
      <4>1. replies'[c] = << >>
        BY <1>4, <3>2
      <4> QED BY <1>3, <2>1, <2>9, <4>1 DEF CutShort
    <3>3. CASE r # 1
      <4>1. \/ r = 2 /\ kinds[2] \in {"stat", "f_path", "n"} /\ ft \in {1, 2}
            \/ r = 3 /\ kinds[2] = "n" /\ ft = 2 /\ me.op = "READDIR"
        BY <1>5, <2>5, <3>1, <3>3 DEF RepliesFor
      <4>2. replies'[c][1].kind = kinds[2]
        <5>1. 2 \in DOMAIN replies[c] /\ 1 \in DOMAIN replies'[c] /\ 1 + 1 = 2
          <6>1. 1 \in 1 .. Len(replies'[c]) /\ 2 \in 1 .. r
            <7> HIDE DEF r
            <7> QED BY <1>2, <1>4, <4>1
          <6> QED BY <1>2, <1>4, <6>1
        <5>2. replies'[c][1] = replies[c][2]
          BY <1>4, <5>1
        <5> QED BY <2>6, <3>1, <5>1, <5>2
      <4>3. TakenForSuccess(replies'[c][1]) = {TRUE}
        BY <4>1, <4>2 DEF TakenForSuccess
      <4>4. \A ok \in TakenForSuccess(replies'[c][1]) : Len(replies'[c]) < 1 + Follow(me.op, ok)
        <5>1. Len(replies'[c]) < 1 + ft
          <6> HIDE DEF r
          <6> QED BY <1>4, <4>1
        <5> QED BY <4>3, <5>1 DEF ft
      <4>5. Len(replies'[c]) = 1 \/ lost' >= MaxLost
        BY <1>4, <1>5, <4>1
      <4> QED BY <1>3, <2>1, <2>9, <4>4, <4>5 DEF CutShort
    <3> QED BY <3>2, <3>3
  <2> QED BY <1>3, <2>8, <2>9
<1>7. CASE CutShort(c)
  <2>1. /\ me.pc = "recv" /\ server.pc = "top" /\ inbox = << >>
        /\ me.got # << >> => g + r < me.want
        /\ me.got = << >> => r = 1 \/ lost >= MaxLost
    BY <1>3, <1>7 DEF CutShort
  <2>2. CASE me.got # << >>
    <3>1. g + (r - 1) < me.want
      <4> HIDE DEF g, r
      <4> QED BY <1>2, <2>1, <2>2
    <3> QED BY <1>3, <1>4, <2>1, <2>2, <3>1 DEF CutShort
  <2>3. CASE me.got = << >>
    <3>1. replies'[c] = << >>
      BY <1>3, <1>4, <2>1, <2>3, RpcAssumption
    <3> QED BY <1>3, <2>1, <2>3, <3>1 DEF CutShort
  <2> QED BY <1>3, <2>2, <2>3
<1> QED BY <1>6, <1>7

(* The state of AtomicCall *)
AOp      == [k \in CallIds |-> OpOf(k)]
ARuns    == [i \in DOMAIN executed |-> RunOf(executed[i])]
AReturns == [i \in DOMAIN answers |-> ReturnOf(answers[i])]

LEMMA QuietStep ==
    ASSUME RpcTypes, NEW c, Clients = {c}, History(c),
           client'[c].n = client[c].n, client'[c].pc = "idle" <=> client[c].pc = "idle",
           client[c].pc # "idle" => client'[c].op = client[c].op,
           executed' = executed, answers' = answers
    PROVE  History(c)' /\ UNCHANGED <<AOp, ARuns, AReturns>>
<1>1. History(c)'
  BY DEF History, Own
<1>2. ASSUME NEW k \in CallIds PROVE OpOf(k)' = OpOf(k)
  <2>1. k[1] = c
    BY DEF CallIds
  <2> QED BY <2>1 DEF OpOf
<1>3. AOp' = AOp
  BY <1>2 DEF AOp
<1>4. ARuns' = ARuns
  BY DEF ARuns, RunOf, Own
<1>5. AReturns' = AReturns
  BY DEF AReturns, ReturnOf, Own
<1> QED BY <1>1, <1>3, <1>4, <1>5
LEMMA CallInvokes ==
    ASSUME RpcTypes, NEW c, OneClient(c), Alone(c), NEW op \in Ops, Call(c, op)
    PROVE  History(c)' /\ \E k \in CallIds : Atomic!Invoke(k, op)
<1> DEFINE n == client[c].n
           k == <<c, n + 1>>
<1>1. /\ Resting(c) /\ client'[c].n = n + 1 /\ client'[c].op = op /\ client'[c].pc = "send"
      /\ client[c].pc = "idle" /\ History(c)
  BY CallAsks DEF Alone, Resting
<1>2. executed' = executed /\ answers' = answers /\ n < MaxCalls /\ Clients = {c} /\ n \in Nat
  BY Mine DEF Call, OneClient
<1>3. k \in CallIds
  BY <1>2, RpcAssumption DEF CallIds
<1>4. /\ \A i \in DOMAIN executed : executed[i].root.from[2] \in Nat /\ executed[i].root.from[2] <= n
      /\ \A i \in DOMAIN answers : answers[i].call[2] \in Nat /\ answers[i].call[2] <= n
  <2>1. /\ \A i \in DOMAIN executed : executed[i].root.from \in CallIds
        /\ \A i \in DOMAIN answers : answers[i].call \in CallIds
    <3>1. executed \in Seq(Run) /\ answers \in Seq(Answer)
      BY DEF RpcTypes
    <3>2. /\ \A i \in DOMAIN executed : executed[i] \in Run
          /\ \A i \in DOMAIN answers : answers[i] \in Answer
      BY <3>1
    <3> QED BY <3>2 DEF Run, Dgram, Answer
  <2>2. \A j \in CallIds : j[2] \in Nat
    BY DEF CallIds
  <2> QED BY <1>1, <2>1, <2>2 DEF History
<1>5. History(c)'
  <2>1. /\ \A i \in DOMAIN executed : executed[i].root.from[2] <= n + 1
        /\ \A i \in DOMAIN answers : answers[i].call[2] <= n + 1 /\ answers[i].call[2] # n + 1
    BY <1>2, <1>4
  <2> HIDE DEF n, k
  <2> QED BY <1>1, <1>2, <2>1 DEF History, Own
<1>6. AOp[k] = NoOp
  <2>1. ~\E i \in DOMAIN answers : answers[i].call = k
    BY <1>2, <1>4
  <2> QED BY <1>1, <1>3, <2>1 DEF AOp, OpOf
<1>7. ASSUME NEW j \in CallIds PROVE OpOf(j)' = IF j = k THEN op ELSE OpOf(j)
  <2>1. j[1] = c /\ j = <<c, j[2]>> /\ j[2] \in Nat
    BY <1>2 DEF CallIds
  <2>2. j = k <=> j[2] = n + 1
    BY <2>1
  <2> HIDE DEF k, n
  <2> QED BY <1>1, <1>2, <2>1, <2>2 DEF OpOf
<1>8. AOp' = [AOp EXCEPT ![k] = op]
  BY <1>3, <1>7 DEF AOp
<1>9. ARuns' = ARuns /\ AReturns' = AReturns
  BY <1>2 DEF ARuns, AReturns, RunOf, ReturnOf, Own
<1> HIDE DEF k, n
<1>10. Atomic!Invoke(k, op)
  BY <1>6, <1>8, <1>9 DEF Atomic!Invoke, AOp, ARuns, AReturns
<1> QED BY <1>3, <1>5, <1>10

LEMMA ServerExecutes ==
    ASSUME RpcTypes, AnswersToCall, NEW c, OneClient(c), Alone(c), Asking(c), HandlerExecutes
    PROVE  History(c)' /\ \E k \in CallIds, ok \in BOOLEAN : Atomic!Execute(k, ok)
<1> DEFINE me == client[c]
           k  == <<c, me.n>>
<1>1. PICK e \in Run : /\ executed' = Append(executed, e) /\ e.root.from = k
                       /\ e.op = me.op /\ Own(e, k)
  BY ServerAnswers
<1>2. client' = client /\ answers' = answers /\ Clients = {c} /\ NotRun(k) /\ me.pc # "idle" /\ History(c)
  BY DEF HandlerExecutes, OneClient, Asking, Alone
<1>3. me.op \in Ops /\ k \in CallIds /\ executed \in Seq(Run) /\ me.n \in Nat
  BY <1>2, Mine DEF CallIds
<1>4. /\ \A i \in DOMAIN executed' : \/ i \in DOMAIN executed /\ executed'[i] = executed[i]
                                     \/ i = Len(executed) + 1 /\ executed'[i] = e
      /\ \A i \in DOMAIN executed : i \in DOMAIN executed' /\ executed'[i] = executed[i] 
  BY <1>1, <1>3, AppendOne
<1>5. History(c)'
  <2>1. /\ \A i \in DOMAIN executed' :
              LET j == executed'[i].root.from
              IN  j[1] = c /\ j[2] <= me.n /\ Own(executed'[i], j)
        /\ \A i, j \in DOMAIN executed' : executed'[i].root.from = executed'[j].root.from => i = j
    <3>1. k[1] = c /\ k[2] <= me.n
      BY <1>3
    <3> HIDE DEF k
    <3>2. \A i \in DOMAIN executed : executed[i].root.from # k
      BY <1>2 DEF NotRun
    <3> QED BY <1>1, <1>2, <1>4, <3>1, <3>2 DEF History
  <2> QED BY <1>2, <2>1 DEF History, Own
<1>6. AOp[k] = me.op /\ AOp[k] # NoOp
  BY <1>2, <1>3, RpcAssumption DEF AOp, OpOf
<1>7. AOp' = AOp
  BY <1>2 DEF AOp, OpOf
<1>8. AReturns' = AReturns
  <2>1. ASSUME NEW i \in DOMAIN answers PROVE ReturnOf(answers[i])' = ReturnOf(answers[i])
    <3> DEFINE a == answers[i]
    <3>1. \A j \in DOMAIN a.got : executed'[a.got[j].exec] = executed[a.got[j].exec]
      BY <1>4 DEF AnswersToCall, ToCall
    <3>2. (\A j \in DOMAIN a.got : Own(executed'[a.got[j].exec], a.call)) <=>
             \A j \in DOMAIN a.got : Own(executed[a.got[j].exec], a.call)
      BY <3>1
    <3>3. ReturnOf(a)' = [call |-> a.call, ok |-> a.got[1].ok,
             own |-> /\ \A j \in DOMAIN a.got : Own(executed'[a.got[j].exec], a.call)
                     /\ [j \in DOMAIN a.got |-> a.got[j].kind] = Gives(a.op, a.got[1].ok, TRUE)]
      BY <1>2 DEF ReturnOf
    <3> QED BY <3>2, <3>3 DEF ReturnOf
  <2> QED BY <1>2, <2>1 DEF AReturns
<1>9. RunOf(e) = [call |-> k, op |-> me.op, ok |-> e.ok, own |-> TRUE] /\ e.ok \in BOOLEAN
  <2>1. Own(e, e.root.from) = TRUE
    BY <1>1 DEF Own
  <2> QED BY <1>1, <2>1 DEF RunOf, Run
<1>10. ARuns' = Append(ARuns, RunOf(e))
  <2>1. ARuns' = [i \in DOMAIN executed' |-> RunOf(executed'[i])]
    BY DEF ARuns, RunOf, Own
  <2> QED BY <1>1, <1>3, <1>4, <2>1 DEF ARuns
<1>11. ~Atomic!Ran(k, TRUE) /\ ~Atomic!Ran(k, FALSE)
  BY <1>2 DEF Atomic!Ran, RunOf, NotRun
<1> HIDE DEF k
<1>12. Atomic!Execute(k, e.ok)
  BY <1>6, <1>7, <1>8, <1>9, <1>10, <1>11 DEF Atomic!Execute, AOp, ARuns, AReturns
<1> QED BY <1>3, <1>5, <1>9, <1>12

(* The call that has all the replies of its run returns what the run said. *)
LEMMA RecvReturns ==
    ASSUME RpcTypes, NEW c, OneClient(c), Alone(c), Answering(c), Recv(c), Resting(c)'
    PROVE  History(c)' /\ \E k \in CallIds, ok \in BOOLEAN : Atomic!Return(k, ok)
<1> DEFINE me == client[c]
           k  == <<c, me.n>>
           x  == Len(executed)
           e  == executed[x]
           whole == Gives(me.op, e.ok, TRUE)
<1>1. /\ client'[c].n = me.n /\ client'[c].pc = "idle" /\ executed' = executed
      /\ \E got \in Seq(Reply) :
            /\ answers' = Append(answers, [call |-> k, op |-> me.op, got |-> got])
            /\ Len(got) = Len(whole) /\ Len(got) # 0
            /\ \A i \in DOMAIN got :
                  got[i] = [exec |-> x, kind |-> whole[i], ok |-> e.ok]
  <2>1. ~(Answering(c)' /\ client'[c].pc = me.pc)
    BY DEF Resting, Answering
  <2>2. client'[c].pc = "idle"
    BY DEF Resting
  <2> QED BY <2>1, <2>2, RecvAnswers, Zenon
<1>2. PICK got \in Seq(Reply) :
            /\ answers' = Append(answers, [call |-> k, op |-> me.op, got |-> got])
            /\ Len(got) = Len(whole) /\ Len(got) # 0
            /\ \A i \in DOMAIN got :
                  got[i] = [exec |-> x, kind |-> whole[i], ok |-> e.ok]
  BY <1>1
<1> DEFINE a == [call |-> k, op |-> me.op, got |-> got]
<1>3. /\ me.op \in Ops /\ me.op \in Dispatched /\ k \in CallIds /\ executed \in Seq(Run)
      /\ answers \in Seq(Answer) /\ me.n \in Nat /\ me.pc # "idle" /\ Clients = {c} /\ History(c)
  <2>1. me.pc # "idle" /\ Clients = {c} /\ Ops \subseteq Dispatched /\ History(c)
    BY DEF Answering, OneClient, Alone
  <2> QED BY <2>1, Mine DEF CallIds
<1>4. x \in DOMAIN executed /\ e \in Run /\ e.ok \in BOOLEAN /\ e.root.from = k /\ Own(e, k)
  <2>1. x # 0 /\ e.root.from = k
    BY DEF Answering
  <2>2. x \in DOMAIN executed /\ e \in Run
    BY <1>3, <2>1
  <2>3. Own(e, e.root.from)
    BY <1>3, <2>2 DEF History
  <2> HIDE DEF e
  <2> QED BY <2>1, <2>2, <2>3 DEF Run
<1>5. a \in Answer /\ a.call = k /\ a.op = me.op /\ a.got = got
  BY <1>3 DEF Answer
<1> HIDE DEF a, e, x, whole
<1>6. /\ \A i \in DOMAIN answers' : \/ i \in DOMAIN answers /\ answers'[i] = answers[i]
                                    \/ i = Len(answers) + 1 /\ answers'[i] = a
      /\ \A i \in DOMAIN answers : i \in DOMAIN answers' /\ answers'[i] = answers[i]
      /\ Len(answers) + 1 \in DOMAIN answers' /\ answers'[Len(answers) + 1] = a
      /\ answers' = Append(answers, a)
  <2>1. answers' = Append(answers, a)
    BY <1>2 DEF a
  <2> QED BY <1>3, <1>5, <2>1, AppendOne
<1>7. \A i \in DOMAIN answers : answers[i].call[1] = c /\ answers[i].call[2] <= me.n
                                /\ answers[i].call[2] # me.n /\ answers[i].call # k
  BY <1>3 DEF History
<1>8. History(c)'
  <2>1. k[1] = c /\ k[2] <= me.n /\ got # << >>
    BY <1>2, <1>3
  <2> HIDE DEF k
  <2>2. /\ \A i \in DOMAIN answers' :
              LET j == answers'[i].call
              IN  j[1] = c /\ j[2] <= client'[c].n /\ (j[2] = client'[c].n => client'[c].pc = "idle")
        /\ \A i, j \in DOMAIN answers' : answers'[i].call = answers'[j].call => i = j
        /\ \A i \in DOMAIN answers' : answers'[i].got # << >>
    BY <1>1, <1>3, <1>5, <1>6, <1>7, <2>1 DEF History
  <2>3. /\ \A i \in DOMAIN executed' :
              LET j == executed'[i].root.from
              IN  j[1] = c /\ j[2] <= client'[c].n /\ Own(executed'[i], j)
        /\ \A i, j \in DOMAIN executed' : executed'[i].root.from = executed'[j].root.from => i = j
    BY <1>1, <1>3 DEF History
  <2> QED BY <2>2, <2>3 DEF History, Own
<1>9. ASSUME NEW j \in CallIds PROVE OpOf(j)' = OpOf(j)
  <2> DEFINE old == CHOOSE i \in DOMAIN answers : answers[i].call = j
             new == CHOOSE i \in DOMAIN answers' : answers'[i].call = j
  <2>1. j[1] = c /\ j = <<c, j[2]>>
    BY <1>3 DEF CallIds
  <2>2. OpOf(j)' = IF \E i \in DOMAIN answers' : answers'[i].call = j THEN answers'[new].op ELSE NoOp
    BY <1>1, <2>1 DEF OpOf
  <2>3. CASE j = k
    <3>1. new \in DOMAIN answers' /\ answers'[new].call = j
      BY <1>5, <1>6, <2>3
    <3>2. answers'[new] = a
      BY <1>6, <1>7, <2>3, <3>1
    <3>3. OpOf(j) = me.op
      BY <1>3, <2>3 DEF OpOf
    <3> HIDE DEF new
    <3> QED BY <1>5, <2>2, <3>1, <3>2, <3>3
  <2>4. CASE j # k
    <3>1. OpOf(j) = IF \E i \in DOMAIN answers : answers[i].call = j THEN answers[old].op ELSE NoOp
      BY <2>1, <2>4 DEF OpOf
    <3>2. (\E i \in DOMAIN answers' : answers'[i].call = j) <=> \E i \in DOMAIN answers : answers[i].call = j
      <4> HIDE DEF k
      <4> QED BY <1>5, <1>6, <2>4
    <3>3. ASSUME \E i \in DOMAIN answers : answers[i].call = j
          PROVE  answers'[new].op = answers[old].op
      <4>1. old \in DOMAIN answers /\ answers[old].call = j
        BY <3>3
      <4>2. new \in DOMAIN answers' /\ answers'[new].call = j
        BY <3>2, <3>3
      <4> HIDE DEF k, new, old
      <4>3. new \in DOMAIN answers /\ answers'[new] = answers[new]
        BY <1>5, <1>6, <2>4, <4>2
      <4>4. new = old
        BY <1>3, <4>1, <4>2, <4>3 DEF History
      <4> QED BY <4>3, <4>4
    <3> HIDE DEF new, old
    <3> QED BY <2>2, <3>1, <3>2, <3>3
  <2> QED BY <2>3, <2>4
<1>10. AOp' = AOp /\ ARuns' = ARuns
  BY <1>1, <1>9 DEF AOp, ARuns, RunOf, Own
<1>11. ReturnOf(a) = [call |-> k, ok |-> e.ok, own |-> TRUE]
  <2>1. \A i \in DOMAIN got : got[i].exec = x /\ got[i].kind = whole[i] /\ got[i].ok = e.ok
    <3> DEFINE ok == e.ok
    <3>1. \A i \in DOMAIN got : got[i] = [exec |-> x, kind |-> whole[i], ok |-> ok]
      BY <1>2
    <3> HIDE DEF ok
    <3>2. \A i \in DOMAIN got : got[i].exec = x /\ got[i].kind = whole[i] /\ got[i].ok = ok
      BY <3>1
    <3> QED BY <3>2 DEF ok
  <2>2. 1 \in DOMAIN got
    BY <1>2
  <2>3. [i \in DOMAIN got |-> got[i].kind] = whole
    <3>1. whole \in Seq(ReplyKind)
      BY GivesType DEF whole
    <3>2. DOMAIN got = DOMAIN whole /\ whole = [i \in DOMAIN whole |-> whole[i]]
      BY <1>2, <3>1
    <3> QED BY <2>1, <3>2
  <2>4. /\ \A i \in DOMAIN got : Own(executed[got[i].exec], k)
        /\ [i \in DOMAIN got |-> got[i].kind] = Gives(me.op, got[1].ok, TRUE)
    BY <1>4, <2>1, <2>2, <2>3 DEF e, whole
  <2> HIDE DEF k
  <2> QED BY <1>5, <2>1, <2>2, <2>4 DEF ReturnOf
<1>12. AReturns' = Append(AReturns, ReturnOf(a))
  <2>1. AReturns' = [i \in DOMAIN answers' |-> ReturnOf(answers'[i])]
    BY <1>1 DEF AReturns, ReturnOf
  <2>2. answers \in Seq(Answer) /\ a \in Answer
    BY <1>3, <1>5
  <2> HIDE DEF k
  <2> QED BY <1>6, <2>1, <2>2 DEF AReturns
<1>13. Atomic!Ran(k, e.ok)
  BY <1>4 DEF Atomic!Ran, RunOf, e
<1>14. ~Atomic!Returned(k)
  BY <1>7 DEF Atomic!Returned, ReturnOf
<1> HIDE DEF k
<1>15. Atomic!Return(k, e.ok)
  BY <1>10, <1>11, <1>12, <1>13, <1>14 DEF Atomic!Return, AOp, ARuns, AReturns
<1> QED BY <1>3, <1>4, <1>8, <1>15

LEMMA AloneNext ==
    ASSUME RpcTypes, AnswersToCall, NEW c, OneClient(c), Alone(c), Next
    PROVE  Alone(c)' /\ (Atomic!Next \/ UNCHANGED <<AOp, ARuns, AReturns>>)
<1>1. /\ Clients = {c} /\ c \in Clients /\ History(c) /\ lost \in Nat /\ restarts = 0
      /\ Resting(c) \/ Asking(c) \/ Starved(c) \/ Answering(c) \/ CutShort(c)
  BY DEF OneClient, Alone
<1>2. ASSUME NEW op \in Ops, Call(c, op)
      PROVE  Alone(c)' /\ Atomic!Next
  <2>1. Asking(c)' /\ History(c)' /\ \E k \in CallIds : Atomic!Invoke(k, op)
    BY <1>2, CallAsks, CallInvokes
  <2>2. lost' = lost /\ restarts' = restarts
    BY <1>2 DEF Call
  <2> QED BY <1>1, <2>1, <2>2 DEF Alone, Atomic!Next
<1>3. CASE Send(c)
  <2>1. Asking(c) \/ Starved(c)
    BY <1>1, <1>3 DEF Send, Resting, Answering, CutShort
  <2>2. Asking(c)' \/ Starved(c)'
    BY <1>1, <1>3, <2>1, SendAsks, SendStarves
  <2>3. /\ server.pc # "crashed" /\ client[c].pc = "send" /\ client'[c].pc # "idle"
        /\ client'[c].n = client[c].n /\ client'[c].op = client[c].op
        /\ UNCHANGED <<executed, answers, restarts>> /\ lost' \in Nat
    <3>1. server.pc # "crashed"
      BY <2>1 DEF Asking, Starved
    <3> QED BY <1>1, <1>3, <3>1, SendStep
  <2>4. History(c)' /\ UNCHANGED <<AOp, ARuns, AReturns>>
    BY <1>1, <2>3, QuietStep
  <2> QED BY <1>1, <2>2, <2>3, <2>4 DEF Alone
<1>4. CASE Recv(c)
  <2>1. Answering(c) \/ CutShort(c)
    BY <1>1, <1>4 DEF Recv, Resting, Asking, Starved
  <2>2. lost' = lost /\ restarts' = restarts
    BY <1>4 DEF Recv
  <2>3. ASSUME Answering(c)' \/ CutShort(c)', client'[c].pc = client[c].pc, client'[c].n = client[c].n,
               client'[c].op = client[c].op, executed' = executed, answers' = answers
        PROVE  Alone(c)' /\ UNCHANGED <<AOp, ARuns, AReturns>>
    <3>1. History(c)' /\ UNCHANGED <<AOp, ARuns, AReturns>>
      BY <1>1, <2>3, QuietStep
    <3> QED BY <1>1, <2>2, <2>3, <3>1 DEF Alone
  <2>4. CASE CutShort(c)
    BY <1>4, <2>3, <2>4, RecvCut
  <2>5. CASE Answering(c)
    <3>1. CASE Resting(c)'
      <4>1. History(c)' /\ \E k \in CallIds, ok \in BOOLEAN : Atomic!Return(k, ok)
        BY <1>4, <2>5, <3>1, RecvReturns
      <4> QED BY <1>1, <2>2, <3>1, <4>1 DEF Alone, Atomic!Next
    <3>2. CASE ~Resting(c)'
      <4>1. /\ Answering(c)' /\ client'[c].pc = client[c].pc /\ client'[c].n = client[c].n
            /\ client'[c].op = client[c].op /\ executed' = executed /\ answers' = answers
        BY <1>4, <2>5, <3>2, RecvAnswers
      <4> QED BY <2>3, <4>1
    <3> QED BY <3>1, <3>2
  <2> QED BY <2>1, <2>4, <2>5
<1>5. CASE Restart(c)
  BY <1>1, <1>5 DEF Restart, OneClient
<1>6. CASE LoseReply(c)
  <2>1. /\ replies[c] # << >> /\ UNCHANGED <<client, inbox, server, executed, answers, restarts>>
        /\ lost' \in Nat
    BY <1>1, <1>6 DEF LoseReply
  <2>2. History(c)' /\ UNCHANGED <<AOp, ARuns, AReturns>>
    BY <1>1, <2>1, QuietStep
  <2>3. Resting(c)' \/ CutShort(c)'
    <3>1. CASE Resting(c)
      BY <2>1, <3>1 DEF Resting
    <3>2. CASE Answering(c) \/ CutShort(c)
      BY <1>1, <1>6, <3>2, LossCuts
    <3> QED BY <1>1, <2>1, <3>1, <3>2 DEF Asking, Starved
  <2> QED BY <1>1, <2>1, <2>2, <2>3 DEF Alone
<1>7. CASE Server
  <2>1. inbox # << >> /\ lost' = lost /\ restarts' = restarts /\ client' = client /\ answers' = answers
    BY <1>7 DEF Server, ServerReadsOpcode, HandlerReads, HandlerCrashes, HandlerExecutes
  <2>2. CASE Starved(c)
    <3>1. Starved(c)' /\ executed' = executed
      BY <1>7, <2>2, ServerStarved
    <3>2. History(c)' /\ UNCHANGED <<AOp, ARuns, AReturns>>
      BY <1>1, <2>1, <3>1, QuietStep
    <3> QED BY <1>1, <2>1, <3>1, <3>2 DEF Alone
  <2>3. CASE Asking(c) /\ HandlerExecutes
    <3>1. Answering(c)'
      BY <2>3, ServerAnswers
    <3>2. History(c)' /\ \E k \in CallIds, ok \in BOOLEAN : Atomic!Execute(k, ok)
      BY <2>3, ServerExecutes
    <3> QED BY <1>1, <2>1, <3>1, <3>2 DEF Alone, Atomic!Next
  <2>4. CASE Asking(c) /\ ~HandlerExecutes
    <3>1. Asking(c)'
      BY <1>7, <2>4, ServerAsked
    <3>2. executed' = executed
      BY <1>7, <2>4 DEF Server, ServerReadsOpcode, HandlerReads, HandlerCrashes
    <3>3. History(c)' /\ UNCHANGED <<AOp, ARuns, AReturns>>
      BY <1>1, <2>1, <3>2, QuietStep
    <3> QED BY <1>1, <2>1, <3>1, <3>3 DEF Alone
  <2> QED BY <1>1, <2>1, <2>2, <2>3, <2>4 DEF Resting, Answering, CutShort
<1> QED BY <1>1, <1>2, <1>3, <1>4, <1>5, <1>6, <1>7 DEF Next

(* One client, whose mount is not killed while a call hangs: whatever the  *)
(* datagrams of its calls go through, on the server each call runs once at *)
(* most, as what was asked and on what was sent, and what it returns is    *)
(* what that run reported.  Datagrams may be lost, any number of them, but *)
(* for those LossesOnlyHang leaves out.                                    *)
THEOREM OneClientIsAtomic ==
    ASSUME NEW c, OneClient(c)
    PROVE  Spec => ImplementsAtomicCall
<1> DEFINE Inv == RpcTypes /\ PendingToCall /\ AnswersToCall /\ Alone(c)
<1>1. c \in Clients
  BY DEF OneClient
<1>2. ASSUME Init PROVE Inv /\ Atomic!Init
  <2>1. Resting(c) /\ History(c) /\ lost \in Nat /\ restarts = 0
    BY <1>1, <1>2 DEF Init, Idle, Top, Resting, History
  <2>2. RpcTypes /\ PendingToCall /\ AnswersToCall
    BY <1>2, RpcInit DEF Init, Idle, PendingToCall, AnswersToCall
  <2>3. Atomic!Init
    <3>1. \A k \in CallIds : OpOf(k) = NoOp
      BY <1>2 DEF Init, Idle, OpOf, CallIds
    <3>2. executed = << >> /\ answers = << >>
      BY <1>2 DEF Init
    <3> QED BY <3>1, <3>2 DEF Atomic!Init
  <2> QED BY <2>1, <2>2, <2>3 DEF Alone
<1>3. Inv /\ [Next]_vars => Inv' /\ [Atomic!Next]_(Atomic!vars)
  <2> SUFFICES ASSUME Inv, [Next]_vars PROVE Inv' /\ [Atomic!Next]_(Atomic!vars)
    OBVIOUS
  <2>1. CASE UNCHANGED vars
    <3>1. RpcTypes' /\ PendingToCall' /\ AnswersToCall'
      BY <2>1, RpcNext DEF vars, PendingToCall, AnswersToCall, ToCall
    <3>2. /\ History(c)' /\ UNCHANGED <<AOp, ARuns, AReturns>>
      BY <2>1, <1>1, QuietStep DEF vars, Alone, OneClient
    <3>3. Alone(c)'
      BY <2>1, <3>2 DEF vars, Alone, Resting, Asking, Starved, Answering, CutShort, Taken, NotRun
    <3> QED BY <3>1, <3>2, <3>3 DEF Atomic!vars, AOp, ARuns, AReturns
  <2>2. CASE Next
    <3>1. Alone(c)' /\ (Atomic!Next \/ UNCHANGED <<AOp, ARuns, AReturns>>)
      BY <2>2, AloneNext
    <3> QED BY <2>2, <3>1, RpcNext, PendingKept, AnswersKept DEF Atomic!vars, AOp, ARuns, AReturns
  <2> QED BY <2>1, <2>2
<1> QED BY <1>2, <1>3, PTL DEF Spec, ImplementsAtomicCall, Atomic!Spec
=============================================================================
