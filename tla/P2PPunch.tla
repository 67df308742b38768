------------------------------ MODULE P2PPunch ------------------------------
(***************************************************************************)
(* How two npc find a direct UDP path (lib/p2p, server/proxy/p2p.go and    *)
(* the provider's newUdpConn).  The visitor and the provider announce      *)
(* themselves to three ports of nps; each port that heard both tells each  *)
(* the other's address as it saw it.  From the three addresses an npc      *)
(* guesses how its own and the peer's NAT hand out ports, sends CONNECT to *)
(* where it expects the peer, and the CONNECT / SUCCESS / END handshake    *)
(* picks the pair of addresses the tunnel will use.                        *)
(*                                                                         *)
(* Addresses are numbers: an end's NAT hands out those from Base[e] on, an *)
(* address of a local network is negative.  A burst of copies of a         *)
(* message, and the spray that repeats it, is one packet that may take any *)
(* time.                                                                   *)
(***************************************************************************)
EXTENDS Integers, Sequences, FiniteSets

CONSTANTS
    Networks,   \* the network the two ends live in, see PunchTypeOK
    Step,       \* by how much a symmetric NAT's next port differs
    MaxBurst    \* bursts of SUCCESS (of END) to one peer; 20 packets in the code

ASSUME BoundsAssumption == Step \in 1..6 /\ MaxBurst \in Nat \ {0}

VARIABLES
    network,    \* the member of Networks this behaviour is about
    nat,        \* end -> the <<socket, destination>> pairs it has sent to, numbered from 0
    net,        \* packets on their way
    sessions,   \* server port -> the announced address of each role, 0 for none
    end,        \* end -> the locals of HandleUDP and sendP2PTestMsg
    sent,       \* <<end, socket, address, message, n>>: the n-th burst was sent
    lost,       \* packets lost so far
    tunnel      \* "none", or "open" once the provider took the visitor's session

punchVars == <<network, nat, net, sessions, end, sent, lost, tunnel>>

End == {"visitor", "provider"}
Peer(e) == IF e = "visitor" THEN "provider" ELSE "visitor"
Port == 1..3                  \* p2p_port, p2p_port + 1, p2p_port + 2
Sock == {0, 1}                \* localConn; one more stands for the extra listeners
Base == [visitor |-> 100, provider |-> 200]
Local(e, s) == -(Base[e] + s)
Stale == 112                  \* where the visitor's earlier attempt was seen

-----------------------------------------------------------------------------
(* The NATs.  "full": one port per socket, open to everyone.  "port": the  *)
(* same, open to the addresses it has sent to.  "sym": a new port for      *)
(* every destination, open to that one.                                    *)

IsLocal(a) == a < 0

\* The table of e after it has sent to the pairs tos, all different, in turn.
NewMappings(e, tos) ==
    LET new == {i \in DOMAIN tos : ~IsLocal(tos[i][2]) /\ tos[i] \notin DOMAIN nat[e]}
        number(i) == Cardinality(DOMAIN nat[e]) + Cardinality({j \in new : j < i})
    IN  [p \in DOMAIN nat[e] \cup {tos[i] : i \in new} |->
            IF p \in DOMAIN nat[e] THEN nat[e][p] ELSE number(CHOOSE i \in new : tos[i] = p)]

\* The address under which the packets of socket s of e reach `to'.
From(e, s, to, map) ==
    CASE IsLocal(to) -> Local(e, s)
      [] ~IsLocal(to) /\ network.nat[e] = "sym" ->
            Base[e] + Step * map[<<s, to>>]
      [] OTHER -> Base[e] + 50 * s

\* The open sockets of e that a packet sent from `from' to `to' reaches.
Reaches(e, from, to) ==
    {s \in end[e].socks :
        CASE IsLocal(to) -> network.lan /\ to = Local(e, s)
          [] ~IsLocal(to) /\ network.nat[e] = "sym" ->
                /\ <<s, from>> \in DOMAIN nat[e]
                /\ to = Base[e] + Step * nat[e][<<s, from>>]
          [] OTHER ->
                /\ to = Base[e] + 50 * s
                /\ \E p \in DOMAIN nat[e] : p[1] = s /\ (network.nat[e] = "full" \/ p[2] = from)}

HasResult(e) == end[e].phase \in {"won", "done", "failed"}

\* Whether what socket s of e reads can still matter: once both ends have their
\* result nothing does.
Matters(e, s) ==
    CASE end[e].phase = "won" -> s # end[e].win /\ ~HasResult(Peer(e))
      [] OTHER -> ~HasResult(e)

\* The messages ks from e to the <<socket, address>> pairs of the sequence tos,
\* in this order; what the peer's NAT refuses is gone.  `after' is the net
\* without what the sender has read.
Send(e, ks, tos, after) ==
    \E map \in {NewMappings(e, tos)} :
        /\ nat' = [nat EXCEPT ![e] = map]
        /\ \E froms \in {[i \in DOMAIN tos |-> From(e, tos[i][1], tos[i][2], map)]} :
              net' = after \cup
                  UNION {{[k |-> k, e |-> Peer(e), s |-> t, from |-> froms[i]] :
                             t \in {u \in Reaches(Peer(e), froms[i], tos[i][2]) :
                                       Matters(Peer(e), u)},
                             k \in ks} :
                         i \in DOMAIN tos}

-----------------------------------------------------------------------------
(* What the three observed ports tell (util.go).  0 stands for "".         *)

Seen(x) == {i \in Port : x[i] # 0}

Abs(n) == IF n < 0 THEN -n ELSE n
Half(n) == IF n < 0 THEN -((-n) \div 2) ELSE n \div 2
MakeAddr(p) == IF p <= 0 THEN 0 ELSE p

\* Fault: the distance between the outer two is taken for one step.
FillsOneStep(x) ==
    CASE Seen(x) = {2, 3} -> [x EXCEPT ![1] = MakeAddr(x[2] - (x[3] - x[2]))]
      [] Seen(x) = {1, 3} -> [x EXCEPT ![2] = MakeAddr(x[1] + (x[3] - x[1]))]
      [] Seen(x) = {1, 2} -> [x EXCEPT ![3] = MakeAddr(x[1])]
      [] OTHER -> x

fillTripletByPortDiff(x) ==
    CASE Seen(x) = {2, 3} -> [x EXCEPT ![1] = MakeAddr(x[2] - (x[3] - x[2]))]
      [] Seen(x) = {1, 3} -> [x EXCEPT ![2] = MakeAddr(x[1] + Half(x[3] - x[1]))]
      [] Seen(x) = {1, 2} -> [x EXCEPT ![3] = MakeAddr(x[2] + (x[2] - x[1]))]
      [] OTHER -> x

\* 0 also when not all three are known: hasPeerExt, hasSelfExt are FALSE then.
getAddrInterval(x) ==
    LET a == Abs(x[3] - x[2])
        b == Abs(x[2] - x[1])
        d == IF a < b THEN a ELSE b
    IN  CASE Seen(x) # Port -> 0
          [] Seen(x) = Port /\ x[3] < x[1] -> -d
          [] OTHER -> d

uniqAddrStrs(ss) ==
    LET first == {i \in DOMAIN ss : \A j \in 1..(i - 1) : ss[j] # ss[i]}
    IN  [k \in 1..Cardinality(first) |->
            ss[CHOOSE i \in first : Cardinality({j \in first : j < i}) = k - 1]]

IfSeen(a) == IF a = 0 THEN <<>> ELSE <<a>>
exactTargets(x) == IfSeen(x[3]) \o IfSeen(x[2]) \o IfSeen(x[1])

\* An interval other than 0 means that all three are known.
buildPredictedPeerAddrs(x) ==
    LET d == getAddrInterval(x)
    IN  IF d = 0 THEN <<>>
        ELSE <<x[3] + d, x[3] - d, x[2] + d, x[2] - d, x[1] + d, x[1] - d>>

aggressive(n) == getAddrInterval(n.peer) # 0 /\ getAddrInterval(n.self) # 0
conservative(n) == getAddrInterval(n.peer) # 0

pickPrimaryPunchTarget(n) ==
    IF aggressive(n) THEN buildPredictedPeerAddrs(n.peer)[1]
    ELSE exactTargets(n.peer)[1]

buildSmallContiguousPorts(p) == [i \in 1..13 |-> IF i <= 7 THEN p + (i - 1) ELSE p - (i - 7)]

punchTargets(n) ==
    LET exact == exactTargets(n.peer)
        pred == buildPredictedPeerAddrs(n.peer)
    IN  CASE aggressive(n) -> pred \o exact
          [] ~aggressive(n) /\ conservative(n) ->
                exact \o <<pred[1]>> \o buildSmallContiguousPorts(exact[1])
          [] OTHER -> exact

forceHard(n) == ~n.probe \/ Cardinality(Seen(n.peer)) = 1

\* Strategy A, or an end whose own NAT is hard: more listeners than localConn.
opensExtra(n) ==
    \/ getAddrInterval(n.self) # 0
    \/ forceHard(n)

-----------------------------------------------------------------------------
(* The exchange through nps.                                               *)

NoAddr == [i \in Port |-> 0]

Fresh == [phase |-> "ask", peer |-> NoAddr, self |-> NoAddr,
          plocal |-> 0, probe |-> FALSE, seed |-> 0, warm |-> FALSE,
          base |-> 0, targets |-> <<>>, socks |-> {0}, win |-> 0, rem |-> 0]

NoSession == [visitor |-> 0, provider |-> 0]

PunchInit ==
    /\ network \in Networks
    /\ nat = [e \in End |-> [p \in {} |-> 0]]
    /\ net = {}
    /\ sessions = [i \in Port |->
                      IF network.stale THEN [NoSession EXCEPT !.visitor = Stale] ELSE NoSession]
    /\ end = [e \in End |-> Fresh]
    /\ sent = {}
    /\ lost = 0
    /\ tunnel = "none"

\* HandleUDP announces itself to the three ports in turn, and only then reads.
getRemoteAddressFromServer(e) ==
    /\ end[e].phase = "ask"
    /\ LET map == NewMappings(e, [i \in Port |-> <<0, i>>])
       IN  /\ nat' = [nat EXCEPT ![e] = map]
           /\ net' = net \cup
                 {[k |-> "ask", e |-> e, i |-> i, from |-> From(e, 0, i, map)] : i \in Port}
    /\ end' = [end EXCEPT ![e].phase = "collect"]
    /\ UNCHANGED <<network, sessions, sent, lost, tunnel>>

\* Later the handshake ignores what nps says.
Listens(e) == end[e].phase \in {"ask", "collect"}
Ignored(e) == {p \in net : p.k \in {"reply", "probe"} /\ p.e = e}

\* The probe comes from a port of nps the end has not sent to.
Probes(sess) ==
    {[k |-> "probe", e |-> e] : e \in {d \in End : network.nat[d] = "full" /\ sess[d] # Stale}}

Replies(i, sess) ==
    {[k |-> "reply", e |-> e, i |-> i, peer |-> sess[Peer(e)], self |-> sess[e],
      plocal |-> IF sess[Peer(e)] = Stale THEN -Stale ELSE Local(Peer(e), 0)] :
        e \in {d \in End : sess[d] # Stale}}

handleP2P(pk) ==
    /\ pk \in net /\ pk.k = "ask"
    /\ LET sess == [sessions[pk.i] EXCEPT ![pk.e] = pk.from]
           both == \A e \in End : sess[e] # 0
       IN  /\ sessions' = [sessions EXCEPT ![pk.i] = IF both THEN NoSession ELSE sess]
           /\ net' = (net \ {pk}) \cup
                 (IF both THEN {p \in Probes(sess) \cup Replies(pk.i, sess) : Listens(p.e)} ELSE {})
    /\ UNCHANGED <<network, nat, end, sent, lost, tunnel>>

\* A session that waits for its other side for 20 s is dropped.
SessionTimer(i) ==
    /\ "nps" \in network.timeout
    /\ sessions[i] # NoSession
    /\ sessions' = [sessions EXCEPT ![i] = NoSession]
    /\ UNCHANGED <<network, nat, net, end, sent, lost, tunnel>>

\* The end of HandleUDP's loop: what sendP2PTestMsg will do.
Collect(e, n) ==
    /\ LET norm(x) == IF Cardinality(Seen(n.peer)) = 2 THEN fillTripletByPortDiff(x) ELSE x
       IN  \E m \in {[n EXCEPT !.peer = norm(n.peer), !.self = norm(n.self)]} :
           \E ts \in {punchTargets(m)} :
              end' = [end EXCEPT ![e] =
                         [Fresh EXCEPT !.phase = "punch",
                                       !.plocal = n.plocal,
                                       !.socks = IF opensExtra(m) THEN Sock ELSE {0},
                                       !.warm = ~forceHard(m),
                                       !.base = pickPrimaryPunchTarget(m),
                                       !.targets = uniqAddrStrs(ts)]]
    /\ net' = net \ Ignored(e)

ReadReply(e, pk) ==
    /\ pk \in net /\ pk.k = "reply" /\ pk.e = e /\ end[e].phase = "collect"
    /\ LET n == [end[e] EXCEPT !.peer[pk.i] = pk.peer, !.self[pk.i] = pk.self,
                               !.plocal = IF end[e].plocal = 0 THEN pk.plocal ELSE @]
       IN  \/ /\ Seen(n.peer) = Port
              /\ Collect(e, n)
           \/ /\ Seen(n.peer) # Port
              /\ end' = [end EXCEPT ![e] = n]
              /\ net' = net \ {pk}
    /\ UNCHANGED <<network, nat, sessions, sent, lost, tunnel>>

ReadProbe(e, pk) ==
    /\ pk \in net /\ pk.k = "probe" /\ pk.e = e /\ end[e].phase = "collect"
    /\ end' = [end EXCEPT ![e].probe = TRUE]
    /\ net' = net \ {pk}
    /\ UNCHANGED <<network, nat, sessions, sent, lost, tunnel>>

\* collectUntil, 8 s after the first reply: whatever nps still had to say to
\* this end has arrived or is lost.
CollectOver(e) ==
    /\ end[e].phase = "collect" /\ Seen(end[e].peer) # {}
    /\ end[Peer(e)].phase # "ask"
    /\ \A pk \in net : pk.k = "ask" \/ (pk.k = "reply" /\ pk.e = e) => FALSE
    /\ Collect(e, end[e])
    /\ UNCHANGED <<network, nat, sessions, sent, lost, tunnel>>

-----------------------------------------------------------------------------
(* Punching: what sendP2PTestMsg sends, until a handshake is over.         *)

Punching(e) == end[e].phase = "punch" /\ end[e].seed = 0

Repeat(e, tos) ==
    /\ Send(e, {"CONNECT"}, tos, net)
    /\ UNCHANGED <<network, sessions, sent, lost, tunnel>>

\* Low-TTL packets to the primary target: they open the own NAT first.
startPortRestrictedWarmup(e) ==
    /\ Punching(e) /\ ~end[e].warm
    /\ end' = [end EXCEPT ![e].warm = TRUE]
    /\ Repeat(e, <<<<0, end[e].base>>>>)

\* The bursts and tickers from localConn to every target.
SendTargets(e) ==
    /\ Punching(e) /\ end[e].warm
    /\ Repeat(e, [i \in DOMAIN end[e].targets |-> <<0, end[e].targets[i]>>])
    /\ UNCHANGED end

\* The extra listeners, and localConn, to the primary target.
SendFromAll(e) ==
    /\ Punching(e) /\ end[e].warm /\ end[e].socks = Sock
    /\ Repeat(e, [i \in 1..2 |-> <<i - 1, end[e].base>>])
    /\ UNCHANGED end

SendLocal(e) ==
    /\ Punching(e) /\ end[e].plocal # 0
    /\ Repeat(e, <<<<0, end[e].plocal>>>>)
    /\ UNCHANGED end

-----------------------------------------------------------------------------
(* waitP2PHandshakeWithSeed, on every socket.                              *)

Bursts(e, s, a, k) == {n \in 1..MaxBurst : <<e, s, a, k, n>> \in sent}

\* Those of the messages ks whose budget for this peer is not used up are sent.
trySend(e, s, a, ks, after) ==
    LET go == {k \in ks : Cardinality(Bursts(e, s, a, k)) < MaxBurst}
    IN  /\ sent' = sent \cup {<<e, s, a, k, Cardinality(Bursts(e, s, a, k)) + 1>> : k \in go}
        /\ Send(e, go, <<<<s, a>>>>, after)

Reads(e, pk, k) ==
    /\ pk \in net /\ pk.k = k /\ pk.e = e
    /\ end[e].phase \in {"punch", "won"} /\ Matters(e, pk.s)

\* HandleUDP has returned: its locals are dead but for the pair it has chosen.
Over(n, phase) == [Fresh EXCEPT !.phase = phase, !.socks = n.socks, !.win = n.win, !.rem = n.rem]

\* The handshake of socket s succeeded with the peer at a.  With one socket
\* that is the result; with several, the first result wins (resultChan).
Success(n, s, a) ==
    CASE n.phase = "won" -> n
      [] n.phase # "won" /\ n.socks = {0} -> [Over(n, "done") EXCEPT !.rem = a]
      [] OTHER -> [Over(n, "won") EXCEPT !.win = s, !.rem = a]

\* What is left to read after pk gave e its result.
Unread(e, pk) ==
    {p \in net \ {pk} : \/ p.k = "ask"
                        \/ p.e # e /\ end[p.e].phase # "won"
                        \/ p.e = e /\ end[e].socks = Sock /\ p.s # pk.s /\ ~HasResult(Peer(e))}

\* A CONNECT that comes in while HandleUDP still collects replies: the fast
\* path answers it and handshakes with this peer only.
Punched(e, pk) ==
    /\ pk \in net /\ pk.k = "CONNECT" /\ pk.e = e /\ end[e].phase = "collect"
    /\ end' = [end EXCEPT ![e] = [Fresh EXCEPT !.phase = "punch", !.seed = pk.from]]
    /\ trySend(e, 0, pk.from, {"SUCCESS"}, net \ (Ignored(e) \cup {pk}))
    /\ UNCHANGED <<network, sessions, lost, tunnel>>

OnConnect(e, pk) ==
    /\ Reads(e, pk, "CONNECT")
    /\ trySend(e, pk.s, pk.from, {"SUCCESS"}, net \ {pk})
    /\ UNCHANGED <<network, sessions, end, lost, tunnel>>

\* Fault: the visitor, too, is done as soon as it reads SUCCESS.
VisitorDoneOnSuccess(e, pk) ==
    /\ Reads(e, pk, "SUCCESS")
    /\ end' = [end EXCEPT ![e] = Success(@, pk.s, pk.from)]
    /\ trySend(e, pk.s, pk.from, {"SUCCESS", "END"}, Unread(e, pk))
    /\ UNCHANGED <<network, sessions, lost, tunnel>>

OnSuccess(e, pk) ==
    /\ Reads(e, pk, "SUCCESS")
    /\ \/ /\ e = "visitor"
          /\ trySend(e, pk.s, pk.from, {"END"}, net \ {pk})
          /\ UNCHANGED end
       \/ /\ e = "provider"
          /\ end' = [end EXCEPT ![e] = Success(@, pk.s, pk.from)]
          /\ trySend(e, pk.s, pk.from, {"SUCCESS", "END"}, Unread(e, pk))
    /\ UNCHANGED <<network, sessions, lost, tunnel>>

OnEnd(e, pk) ==
    /\ Reads(e, pk, "END")
    /\ end' = [end EXCEPT ![e] = Success(@, pk.s, pk.from)]
    /\ trySend(e, pk.s, pk.from, {"END"}, Unread(e, pk))
    /\ UNCHANGED <<network, sessions, lost, tunnel>>

\* The first result is taken and the other sockets are closed.
Winner(e) ==
    /\ end[e].phase = "won"
    /\ end' = [end EXCEPT ![e] = Over(@, "done")]
    /\ net' = {p \in net : p.k = "ask" \/ p.e # e}
    /\ UNCHANGED <<network, nat, sessions, sent, lost, tunnel>>

\* The 30 s of HandleUDP, or the provider's watchdog while it waits for the
\* visitor's session.
Timeout(e) ==
    /\ e \in network.timeout
    /\ \/ end[e].phase \in {"ask", "collect", "punch"}
       \/ e = "provider" /\ end[e].phase = "done" /\ tunnel = "none"
    /\ end' = [end EXCEPT ![e] = Over(@, "failed")]
    /\ net' = {p \in net : p.k = "ask" \/ p.e # e}
    /\ UNCHANGED <<network, nat, sessions, sent, lost, tunnel>>

-----------------------------------------------------------------------------

\* Where the visitor's packets come from, and which of the provider's sockets
\* they reach.
VisitorFrom == From("visitor", end["visitor"].win, end["visitor"].rem, nat["visitor"])
Pair == /\ VisitorFrom = end["provider"].rem
        /\ end["provider"].win \in Reaches("provider", VisitorFrom, end["visitor"].rem)

\* The provider's newUdpConn takes the session of exactly the peer it shook
\* hands with.
newUdpConn ==
    /\ \A e \in End : end[e].phase = "done"
    /\ tunnel = "none" /\ Pair
    /\ tunnel' = "open"
    /\ UNCHANGED <<network, nat, net, sessions, end, sent, lost>>

\* UDP: up to network.loss packets are lost, of the repeated bursts only where
\* an end may time out.
Lose(pk) ==
    /\ pk \in net /\ lost < network.loss
    /\ pk.k \in {"ask", "reply", "probe"} \/ network.timeout # {}
    /\ net' = net \ {pk}
    /\ lost' = lost + 1
    /\ UNCHANGED <<network, nat, sessions, end, sent, tunnel>>

EndStep(e) ==
    \/ getRemoteAddressFromServer(e) \/ CollectOver(e)
    \/ startPortRestrictedWarmup(e) \/ Winner(e)
    \/ \E pk \in net : ReadReply(e, pk) \/ ReadProbe(e, pk) \/ Punched(e, pk)

\* The steps of a behaviour that are finitely many: all but the repeated CONNECT.
Progress ==
    \/ \E e \in End : EndStep(e) \/ \E pk \in net : OnSuccess(e, pk) \/ OnEnd(e, pk)
    \/ \E pk \in net : handleP2P(pk)
    \/ newUdpConn

PunchNext ==
    \/ Progress
    \/ \E e \in End : \/ SendTargets(e) \/ SendFromAll(e) \/ SendLocal(e) \/ Timeout(e)
                     \/ \E pk \in net : OnConnect(e, pk)
    \/ \E pk \in net : Lose(pk)
    \/ \E i \in Port : SessionTimer(i)

PunchFairness ==
    /\ WF_punchVars(Progress)
    /\ \A e \in End : /\ WF_punchVars(SendTargets(e)) /\ WF_punchVars(SendFromAll(e))
                      /\ WF_punchVars(SendLocal(e)) /\ WF_punchVars(\E pk \in net : OnConnect(e, pk))

PunchSpec == PunchInit /\ [][PunchNext]_punchVars /\ PunchFairness

-----------------------------------------------------------------------------

\* Types: a network names the two NATs, whether the ends are in the same LAN, whether
\* nps still holds the visitor's earlier attempt, how many packets of the
\* exchange may be lost and who may time out (then anything may be lost).
PunchTypeOK ==
    /\ network \in [nat : [End -> {"full", "port", "sym"}], lan : BOOLEAN, stale : BOOLEAN,
                    loss : 0..3, timeout : SUBSET (End \cup {"nps"})]
    /\ \A e \in End : end[e].phase \in {"ask", "collect", "punch", "won", "done", "failed"}
    /\ \A e \in End : \A p \in DOMAIN nat[e] : p[1] \in Sock /\ nat[e][p] \in Nat
    /\ tunnel \in {"none", "open"}

\* waitP2PHandshakeWithSeed: only a provider that has accepted sends END, so a
\* visitor that is done has a provider that is done, and where the provider
\* listens on one socket the two agree on the pair of addresses: the visitor's
\* packets come from the address the provider waits for and reach its socket.
AgreedPair ==
    end["visitor"].phase \in {"won", "done"} =>
        /\ end["provider"].rem # 0
        /\ end["provider"].socks = {0} => Pair

\* HandleUDP for both: whatever the two NATs, and although packets of the
\* exchange are lost, both ends finish the handshake; where the provider has one
\* socket the tunnel opens.
PunchSucceeds ==
    network.timeout = {} =>
        <>(/\ \A e \in End : end[e].phase = "done"
           /\ end["provider"].socks = {0} => tunnel = "open")
=============================================================================
