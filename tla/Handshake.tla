------------------------------ MODULE Handshake ------------------------------
(* What npc and nps say to each other on a fresh connection: NewConn and      *)
(* SendType of client/control.go against CliProcess and typeDeal of           *)
(* bridge/handshake.go, for every protocol version, and the exchanges that    *)
(* follow the type: the items of a configuration file against getConfig of    *)
(* bridge/config.go, the status query, the registration of an address, and    *)
(* the secret and p2p requests of a visitor.                                  *)
(*                                                                            *)
(* Each side is the list of the stream operations it has still to perform.    *)
(* A message is its kind (the field the code writes), never its bytes.        *)
EXTENDS Integers, Sequences, FiniteSets, FiniteSetsExt

CONSTANTS Latest,    \* version.GetLatestIndex()
          MinVer,    \* version.MinVer: the oldest version secure mode accepts
          Pairs      \* the pairs of configurations that meet

VARIABLES pair,      \* the one of Pairs this behaviour is about
          cli, srv,  \* [ops, buf, st, at, dl]: what each side has still to do, its
                     \* write buffer, whether it still runs, the last point it
                     \* passed, whether its read deadline is set
          toS, toC,  \* the two directions of the stream
          net,       \* "up" or "cut"
          told,      \* what the client was told of each of its items
          open       \* the ports and hosts <<item, port>> the server opened

hVars == <<pair, cli, srv, toS, toC, net, told, open>>

\* What two configurations are: the version npc speaks, whether the server knows
\* its key and the client is enabled, secure mode, the clock of npc, the
\* transport and its certificate, what npc asks for, and its items.
Wants == {"main", "chan", "vstr", "conf", "stus", "rgst", "sert", "p2pm"}
PairType ==
    [ver : Nat, known : BOOLEAN, on : BOOLEAN, secure : BOOLEAN, fresh : BOOLEAN,
     tp : {"tcp", "kcp", "ws", "tls", "wss", "quic"}, cert : {"verified", "pinned", "other"},
     skip : BOOLEAN, pub : BOOLEAN, allow : BOOLEAN, peer : BOOLEAN, want : Wants,
     items : Seq([mode : {"host", "task"}, ports : Nat]), faults : BOOLEAN]

ASSUME PairAssumption == Latest \in Nat /\ MinVer \in Nat \ {0} /\ Pairs \subseteq PairType

-----------------------------------------------------------------------------
(* Stream operations.                                                        *)

Msg(k) == [k |-> k, of |-> 0, ports |-> 0, ok |-> TRUE]
Result(i, ok) == [Msg("add") EXCEPT !.of = i, !.ok = ok]

Op(do, m, i) == [do |-> do, m |-> m, i |-> i]
Buf(k) == Op("buf", Msg(k), 0)         \* BufferWrite, WriteLenContent
Write(k) == Op("write", Msg(k), 0)     \* Write: sends the buffer as well
Read(k) == Op("read", Msg(k), 0)
Flush == Op("flush", Msg(""), 0)
Alive == Op("alive", Msg(""), 0)       \* SetAlive: the read deadline goes
Close == Op("close", Msg(""), 0)
Mark(st) == Op("mark", Msg(st), 0)     \* a point of the code properties name
If(b, ops) == IF b THEN ops ELSE <<>>

\* A check: the side goes on, or takes the exit how. What follows an exit in
\* a list is dead code, and UpTo drops it.
Need(b, how) == If(~b, how)
UpTo(ops) ==
    LET ends == {i \in 1 .. Len(ops) : ops[i] = Close} IN
    IF ends = {} THEN ops ELSE SubSeq(ops, 1, Min(ends))

-----------------------------------------------------------------------------
(* The client: NewConn, SendType and the callers.                            *)

Hello == <<Buf("tst"), Buf("ver"), Buf("vs")>>

OldAuth == <<Read("md5"), Buf("key32"), Read("flag")>>

SendAuth == <<Buf("ts"), Buf("key64"), Buf("info"), Buf("rand"), Buf("hmac")>>

IsTls(s) == s.tp \in {"tls", "wss", "quic"}

\* The certificate of the TLS connection: its fingerprint, and whether the
\* system's roots vouch for it. The server's own certificate is self-signed.
VerifyState(s) ==
    [fp |-> IF ~IsTls(s) THEN "" ELSE IF s.cert = "pinned" THEN "server" ELSE "other",
     verified |-> IsTls(s) /\ s.cert = "verified"]

\* The check of the fingerprint the server sends under the key.
CertAccepted(s) ==
    s.skip \/ ~IsTls(s) \/ VerifyState(s).verified \/ VerifyState(s).fp = "server"

CheckReply(s) ==
    <<Read("answer")>>
    \o If(s.ver > 1, <<Read("fp")>> \o Need(CertAccepted(s), <<Close>>))
    \o If(s.ver > 5, <<Read("uuid")>>)
    \o If(s.ver > 3, <<Read("rand")>>)

\* Fault: the uuid is sent one version too early.
SendTypeEarlyUuid(s) ==
    <<Buf("type")>> \o If(s.ver > 4, <<Buf("uuid")>>) \o If(s.ver > 3, <<Buf("rand")>>)
    \o <<Flush, Alive>>

SendType(s) ==
    <<Buf("type")>> \o If(s.ver > 5, <<Buf("uuid")>>) \o If(s.ver > 3, <<Buf("rand")>>)
    \o <<Flush, Alive>>

NewConn(s) ==
    Hello \o (IF s.ver = 0 THEN OldAuth ELSE SendAuth \o CheckReply(s))
    \o <<Mark("verified")>>

\* The items of the configuration file, hosts and tasks, one after the other.
SendItems(s) ==
    [n \in 1 .. 2 * Len(s.items) |->
        LET i == (n + 1) \div 2 IN
        IF n % 2 = 1
        THEN Op("item", [Msg(s.items[i].mode) EXCEPT !.of = i, !.ports = s.items[i].ports], i)
        ELSE Op("status", Msg("add"), i)]

SendConfigFile(s) ==
    <<Read("pub")>>
    \o If(s.pub, <<Write("newconf"), Op("status", Msg("add"), 0), Read("key16")>>)
    \o SendItems(s) \o <<Mark("ok"), Close>>

GetTaskStatus == <<Buf("stus"), Write("key64"), Read("pub"), Read("len"), Read("list"),
                   Mark("ok"), Close>>

RegisterLocalIp == <<Write("hour"), Mark("ok"), Close>>

SendSecret == <<Write("key32"), Mark("ok")>>

AskP2P == <<Write("key32"), Read("addr"), Mark("ok"), Close>>

AskFor(s) ==
    CASE s.want \in {"main", "chan", "vstr"} -> <<Mark("ok")>>
      [] s.want = "conf" -> SendConfigFile(s)
      [] s.want = "stus" -> GetTaskStatus
      [] s.want = "rgst" -> RegisterLocalIp
      [] s.want = "sert" -> SendSecret
      [] s.want = "p2pm" -> AskP2P

Client(s) == UpTo(NewConn(s) \o SendType(s) \o AskFor(s))

-----------------------------------------------------------------------------
(* The server: CliProcess, typeDeal and what they hand the connection to.    *)

VerifyError(s) == If(~s.secure, <<Write("vkey")>>) \o <<Close>>

GetIndex(v) == IF v \in 0 .. Latest THEN v ELSE -1

ReadVersion(s) ==
    LET ver == GetIndex(s.ver) IN
    <<Read("tst"), Read("ver")>>
    \o Need(ver # -1 /\ (s.secure => ver >= MinVer), <<Close>>)
    \o <<Read("vs")>>

\* Fault: the success flag is written before the key is looked up.
OldVerifyAnswersFirst(s) ==
    <<Write("md5"), Read("key32"), Write("flag")>> \o Need(s.known /\ s.on, VerifyError(s))
    \o <<Mark("verified")>>

OldVerify(s) ==
    <<Write("md5"), Read("key32")>> \o Need(s.known /\ s.on, VerifyError(s))
    \o <<Mark("verified"), Write("flag")>>

VerifyKey(s) ==
    <<Read("ts")>> \o Need(s.secure => s.fresh, <<Close>>)
    \o <<Read("key64")>> \o Need(s.known, VerifyError(s)) \o Need(s.on, <<Close>>)

VerifyInfo == <<Read("info"), Read("rand"), Read("hmac")>>

Reply(s) ==
    <<Buf("answer")>> \o If(s.ver > 1, <<Buf("fp")>>) \o If(s.ver > 5, <<Buf("uuid")>>)
    \o If(s.ver > 3, <<Buf("rand")>>) \o <<Flush>>

ReadType(s) ==
    <<Read("type")>> \o If(s.ver > 5, <<Read("uuid")>>) \o If(s.ver > 3, <<Read("rand")>>)
    \o <<Alive>>

FlagLoop == Op("loop", Msg(""), 0)

\* The tunnel of the password must exist, be of mode p2p, and its client have
\* a node with a signal connection, which is told of the visitor.
ServeP2P(s) ==
    <<Read("key32")>> \o Need(s.peer, <<Close>>) \o <<Write("addr"), Mark("served"), Close>>

\* What typeDeal does for the type it read.
typeDeal(s) ==
    CASE s.want = "main" -> Need(~s.pub, <<Close>>) \o <<Mark("served")>>
      [] s.want \in {"chan", "vstr"} -> <<Mark("served")>>
      [] s.want \in {"conf", "stus"} ->
           Need(s.pub \/ s.allow, <<Close>>) \o <<Write("pub"), FlagLoop>>
      [] s.want = "rgst" -> <<Read("hour"), Mark("served"), Close>>
      [] s.want = "sert" -> <<Read("key32"), Mark("served")>>
      [] s.want = "p2pm" -> ServeP2P(s)

VerifyClient(s) ==
    IF s.ver = 0 THEN OldVerify(s)
    ELSE VerifyKey(s) \o VerifyInfo \o <<Mark("verified")>> \o Reply(s)

CliProcess(s) == UpTo(ReadVersion(s) \o VerifyClient(s) \o ReadType(s) \o typeDeal(s))

\* The ports of a task are added one by one, each with its own result.
GetTask(m) == [n \in 1 .. m.ports |-> Op("add", Msg(""), m.of)] \o <<FlagLoop>>

\* getConfig: the flag it read and what it does with it.
GetConfig(m) ==
    CASE m.k = "stus" -> <<Read("key64"), Write("len"), Write("list"), Mark("served"), Close>>
      [] m.k = "newconf" -> <<Op("add", Msg("key16"), 0), FlagLoop>>
      [] m.k \in {"host", "task"} -> GetTask(m)
      [] OTHER -> <<FlagLoop>>

-----------------------------------------------------------------------------
(* Steps.                                                                     *)

Next1(me) == [me EXCEPT !.ops = Tail(@)]
Ended(me) == [me EXCEPT !.ops = <<>>, !.buf = <<>>, !.st = "closed"]
NextIs(me, do) == me.st = "run" /\ me.ops # <<>> /\ Head(me.ops).do = do

\* One operation of a side that reads from in and writes to out.
Do(me, meN, in, inN, out, outN) ==
    \/ /\ NextIs(me, "buf")
       /\ meN = [Next1(me) EXCEPT !.buf = Append(@, Head(me.ops).m)]
       /\ inN = in /\ outN = out
    \/ /\ NextIs(me, "write") \/ NextIs(me, "flush")
       /\ meN = [Next1(me) EXCEPT !.buf = <<>>]
       /\ inN = in
       /\ outN = out \o me.buf \o If(NextIs(me, "write"), <<Head(me.ops).m>>)
    \/ /\ NextIs(me, "read") /\ me.buf = <<>> /\ in # <<>> /\ Head(in).k = Head(me.ops).m.k
       /\ meN = Next1(me)
       /\ inN = Tail(in) /\ outN = out
    \/ /\ NextIs(me, "alive")
       /\ meN = [Next1(me) EXCEPT !.dl = FALSE]
       /\ inN = in /\ outN = out
    \/ /\ NextIs(me, "mark")
       /\ meN = [Next1(me) EXCEPT !.at = Head(me.ops).m.k]
       /\ inN = in /\ outN = out

\* Conn.Read sends what BufferWrite left before it waits.
FlushesFirst(me, meN, out, outN) ==
    /\ me.ops # <<>> /\ Head(me.ops).do \in {"read", "status", "loop"} /\ me.buf # <<>>
    /\ meN = [me EXCEPT !.buf = <<>>]
    /\ outN = out \o me.buf

\* A read ends without its message: the peer closed or the link is cut, the
\* deadline passed, or the peer sent the short refusal and closed.
ReadEnds(me, in, peer) ==
    /\ me.st = "run" /\ me.ops # <<>> /\ me.buf = <<>>
    /\ \/ net = "cut"
       \/ in = <<>> /\ peer.st # "run"
       \/ in = <<>> /\ me.dl /\ pair.faults
       \/ in # <<>> /\ Head(in).k = "vkey" /\ peer.st # "run"

\* Close, or os.Exit. With input unread it resets the connection, and the peer
\* may lose the end of what it has not read yet.
Closes(me, meN, out, outN, unread) ==
    /\ NextIs(me, "close")
    /\ meN = Ended(me)
    /\ outN \in {out} \cup (IF unread = <<>> THEN {} ELSE {SubSeq(out, 1, n) : n \in 0 .. Len(out)})

\* NewConn dials over its transport, directly or through a proxy: the server
\* has a connection to process, or NewConn returns the error.
Dial ==
    /\ cli.st = "dial"
    /\ \/ cli' = [cli EXCEPT !.st = "run"] /\ srv' = [srv EXCEPT !.st = "run"]
       \/ pair.faults /\ cli' = Ended(cli) /\ srv' = Ended(srv)
    /\ UNCHANGED <<pair, toS, toC, net, told, open>>

ClientStep ==
    /\ \/ Do(cli, cli', toC, toC', toS, toS')
       \/ FlushesFirst(cli, cli', toS, toS') /\ UNCHANGED toC
       \/ Closes(cli, cli', toS, toS', toC) /\ UNCHANGED toC
    /\ UNCHANGED <<pair, srv, net, told, open>>

ClientFails ==
    /\ NextIs(cli, "read") /\ ReadEnds(cli, toC, srv)
    /\ cli' = Ended(cli)
    /\ UNCHANGED <<pair, srv, toS, toC, net, told, open>>

\* SendInfo of an item: an error is logged and the next item is tried.
SendItem ==
    /\ NextIs(cli, "item")
    /\ \/ cli' = Next1(cli) /\ toS' = Append(toS, Head(cli.ops).m) /\ UNCHANGED told
       \/ /\ net = "cut" \/ srv.st # "run"
          /\ cli' = [cli EXCEPT !.ops = SubSeq(@, 3, Len(@))]
          /\ told' = [told EXCEPT ![Head(cli.ops).i] = "fail"]
          /\ UNCHANGED toS
    /\ UNCHANGED <<pair, srv, toC, net, open>>

\* GetAddStatus: whatever result comes next, and false when none comes. The
\* result of the client record itself ends the attempt when it is false.
GetAddStatus ==
    /\ NextIs(cli, "status") /\ cli.buf = <<>>
    /\ \E ok \in BOOLEAN :
          /\ \/ toC # <<>> /\ Head(toC).k = "add" /\ ok = Head(toC).ok /\ toC' = Tail(toC)
             \/ ReadEnds(cli, toC, srv) /\ ~ok /\ UNCHANGED toC
          /\ IF Head(cli.ops).i = 0
             THEN cli' = (IF ok THEN Next1(cli) ELSE Ended(cli)) /\ UNCHANGED told
             ELSE /\ cli' = Next1(cli)
                  /\ told' = [told EXCEPT ![Head(cli.ops).i] = IF ok THEN "ok" ELSE "fail"]
    /\ UNCHANGED <<pair, srv, toS, net, open>>

ServerStep ==
    /\ \/ Do(srv, srv', toS, toS', toC, toC')
       \/ Closes(srv, srv', toC, toC', toS) /\ UNCHANGED toS
    /\ UNCHANGED <<pair, cli, net, told, open>>

ServerFails ==
    /\ NextIs(srv, "read") /\ ReadEnds(srv, toS, cli)
    /\ srv' = Ended(srv)
    /\ UNCHANGED <<pair, cli, toS, toC, net, told, open>>

\* getConfig reads the next flag, or ends with its connection.
ReadFlag ==
    /\ NextIs(srv, "loop")
    /\ \/ /\ toS # <<>>
          /\ srv' = [srv EXCEPT !.ops = GetConfig(Head(toS))]
          /\ toS' = Tail(toS)
       \/ /\ ReadEnds(srv, toS, cli)
          /\ srv' = [Ended(srv) EXCEPT !.at = "served"] /\ UNCHANGED toS
    /\ UNCHANGED <<pair, cli, toC, net, told, open>>

\* The link fails between the flag of an item and its body: GetHostInfo,
\* GetTaskInfo and GetConfigInfo write to the record they did not get, and the
\* nil dereference ends the process.
BodyLost ==
    /\ NextIs(srv, "loop") /\ net = "cut" /\ toS # <<>>
    /\ Head(toS).k \in {"host", "task", "newconf"}
    /\ srv' = [Ended(srv) EXCEPT !.st = "crashed"] /\ open' = {}
    /\ UNCHANGED <<pair, cli, toS, toC, net, told>>

\* One port or host of an item (NewHost, NewTask and the port test), or the
\* client record of a public key: opened, or refused; a refusal ends the
\* connection and DelClient drops what the client had opened.
AddOne ==
    /\ NextIs(srv, "add")
    /\ LET i == Head(srv.ops).i
           port == Cardinality({o \in open : o[1] = i}) + 1
       IN \/ /\ toC' = toC \o <<Result(i, TRUE)>> \o If(i = 0, <<Msg("key16")>>)
             /\ srv' = Next1(srv)
             /\ open' = IF i = 0 THEN open ELSE open \cup {<<i, port>>}
          \/ /\ toC' = Append(toC, Result(i, FALSE))
             /\ srv' = Ended(srv)
             /\ open' = {}
    /\ UNCHANGED <<pair, cli, toS, net, told>>

LinkCut ==
    /\ pair.faults /\ net = "up" /\ net' = "cut"
    /\ UNCHANGED <<pair, cli, srv, toS, toC, told, open>>

HandshakeInit ==
    /\ pair \in Pairs
    /\ cli = [ops |-> Client(pair), buf |-> <<>>, st |-> "dial", at |-> "start", dl |-> TRUE]
    /\ srv = [ops |-> CliProcess(pair), buf |-> <<>>, st |-> "dial", at |-> "start", dl |-> TRUE]
    /\ toS = <<>> /\ toC = <<>> /\ net = "up"
    /\ told = [i \in DOMAIN pair.items |-> "none"]
    /\ open = {}

ClientRuns == Dial \/ ClientStep \/ ClientFails \/ SendItem \/ GetAddStatus
ServerRuns == ServerStep \/ ServerFails \/ ReadFlag \/ AddOne

HandshakeNext == ClientRuns \/ ServerRuns \/ BodyLost \/ LinkCut

\* Both processes keep running, and a read that cannot get its message fails.
HandshakeFairness == WF_hVars(ClientRuns) /\ WF_hVars(ServerRuns)

HandshakeSpec == HandshakeInit /\ [][HandshakeNext]_hVars /\ HandshakeFairness

-----------------------------------------------------------------------------
(* Properties.                                                                *)

HandshakeTypeOK ==
    /\ pair \in Pairs
    /\ cli.st \in {"dial", "run", "closed"} /\ srv.st \in {"dial", "run", "closed", "crashed"}
    /\ cli.at \in {"start", "verified", "ok"} /\ srv.at \in {"start", "verified", "served"}
    /\ net \in {"up", "cut"}
    /\ \A i \in DOMAIN told : told[i] \in {"none", "ok", "fail"}
    /\ open \subseteq (DOMAIN pair.items) \X (1 .. 3)

Allowed(s) ==
    /\ s.known /\ s.on /\ s.ver \in 0 .. Latest
    /\ s.secure => s.ver >= MinVer /\ s.fresh
    /\ s.ver > 1 => CertAccepted(s)

\* What the request needs on top of the verification.
Grantable(s) ==
    /\ s.want = "main" => ~s.pub
    /\ s.want \in {"conf", "stus"} => s.pub \/ s.allow
    /\ s.want = "p2pm" => s.peer

\* The server refused an item, or the record of a public client.
ItemRefused == \/ \E i \in DOMAIN told : told[i] = "fail"
               \/ pair.pub /\ cli.st = "closed" /\ cli.at = "verified"

\* Two sides that should understand each other do, in every version and for
\* every request: no field one side writes is missed or misread by the other,
\* and nobody waits for what is still in a write buffer.
Succeeds ==
    Allowed(pair) /\ Grantable(pair) /\ ~pair.faults
        => <>(\/ srv.at = "served" /\ cli.at = "ok"
              \/ srv.st = "closed" /\ ItemRefused)

\* NewConn returns a connection only when the server verified the client: a
\* refusal, in whatever form the version and the mode give it, is never taken
\* for an answer.
AcceptedIsVerified == cli.at # "start" => srv.at # "start" /\ Allowed(pair)
=============================================================================
