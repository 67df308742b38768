----------------------------- MODULE BridgeClient -----------------------------
(***************************************************************************)
(* The registry of a client in the bridge: Client and Node                 *)
(* (bridge/client.go) with the goroutines that work on them: typeDeal for  *)
(* a tunnel (WORK_CHAN) and for its signal (WORK_MAIN), the goroutine each *)
(* of them leaves behind, ping, SendLinkInfo and DelClient.                *)
(*                                                                         *)
(* An npc process connects in sessions.  Session k has a tunnel and, on    *)
(* it, a signal; the server may learn late that a session is gone.  The    *)
(* nodes and clients a handler allocates are named after the handler.  The *)
(* protocol is version 6 or later.  Windows of grace end at any moment,    *)
(* and a pool hands out any of its members.                                *)
(***************************************************************************)
EXTENDS Naturals, FiniteSets

CONSTANTS Sessions,    \* 1..n, in the order in which they connect
          Uuid,        \* Sessions -> the UUID of the npc process
          retryTimeMax,
          PingRetries, \* 3: failed checks after which ping deletes a client
          Setups,      \* the sessions that are up and past their grace at the
                       \* start, which of ping and link run, and the sessions
                       \* that npc may lose
          Prompt       \* npc brings its signal before the grace of a node ends

ping == <<0, "ping">>
link == <<0, "link">>    \* SendLinkInfo
Users == {ping, link}

UUIDs == {Uuid[k] : k \in Sessions}
Deals == Sessions \X {"chan", "main"}
Procs == Deals \cup Users

None == <<0, "none">>
uuid(n) == Uuid[n[1]]

VARIABLES live,   \* per session: npc uses it
          fail,   \* the sessions that npc may lose, chosen at the start
          tun,    \* per session: the tunnel, as the server sees it
          sig,    \* per session: the signal
          node,   \* the Nodes: [tunnel, signal, retry, grace], 0 for nil
          client, \* the Clients: [nodes, last, grace, retry, closed]
          reg,    \* Bridge.Client[id]
          proc    \* the goroutines: [pc, c, n, u, todo, left, ret]

vars == <<live, fail, tun, sig, node, client, reg, proc>>
conns == <<live, fail, tun, sig>>

NewNode == [tunnel |-> 0, signal |-> 0, retry |-> 0, grace |-> TRUE]
NewClient == [nodes |-> [u \in UUIDs |-> None], last |-> "", grace |-> TRUE,
              retry |-> 0, closed |-> FALSE]
Idle == [pc |-> "idle", c |-> None, n |-> None, u |-> "", todo |-> {}, left |-> 0,
         ret |-> ""]

\* Established sessions E share the client that the first of them created.
First(E) == <<CHOOSE k \in E : \A j \in E : k <= j, "chan">>
InitNode(E, n) == IF n[1] \in E /\ n[2] = "chan"
                  THEN [tunnel |-> n[1], signal |-> n[1], retry |-> 0, grace |-> FALSE]
                  ELSE NewNode
InitClient(E, u0) ==
    [nodes |-> [u \in UUIDs |-> IF \E k \in E : Uuid[k] = u
                                THEN <<CHOOSE k \in E : Uuid[k] = u, "chan">>
                                ELSE None],
     last |-> u0, grace |-> FALSE, retry |-> 0, closed |-> FALSE]
InitProc(s, r, p) ==
    IF p[1] \in s.established
    THEN [Idle EXCEPT !.pc = "watch", !.c = r, !.n = <<p[1], "chan">>]
    ELSE [Idle EXCEPT !.pc = IF p \in Users \ s.users THEN "off" ELSE "idle"]

Init ==
    \E s \in Setups :
       LET E == s.established IN
       /\ live = [k \in Sessions |-> k \in E] /\ fail = s.fail
       /\ tun = [k \in Sessions |-> IF live[k] THEN "up" ELSE "none"] /\ sig = tun
       /\ node = [n \in Deals |-> InitNode(E, n)]
       /\ reg = IF E = {} THEN None ELSE First(E)
       /\ \E u0 \in IF E = {} THEN {""} ELSE {Uuid[k] : k \in E} :
             client = [c \in Deals |-> IF c = reg THEN InitClient(E, u0) ELSE NewClient]
       /\ proc = [p \in Procs |-> InitProc(s, reg, p)]

IsOnline(n) == /\ node[n].tunnel # 0 /\ tun[node[n].tunnel] = "up"
               /\ node[n].signal # 0 /\ sig[node[n].signal] = "up"
NodesOf(c) == {client[c].nodes[u] : u \in UUIDs} \ {None}
Registered(c, u) == client[c].nodes[u] # None

Goto(p, label) == proc' = [proc EXCEPT ![p].pc = label]
Leave(p, label) == proc' = [proc EXCEPT ![p] = [Idle EXCEPT !.pc = label]]
At(p, label) == proc[p].pc = label
-------------------------------------------------------------------------------
(* npc and the network *)

\* Closing tunnels K and signals S; a signal is a connection of its tunnel.
Closing(K, S) ==
    /\ tun' = [k \in Sessions |-> IF k \in K THEN "down" ELSE tun[k]]
    /\ sig' = [k \in Sessions |-> IF k \in K \cup S /\ sig[k] = "up" THEN "down" ELSE sig[k]]

\* npc connects again only when it has given up the session before.
Connect(k) ==
    /\ tun[k] = "none"
    /\ \A j \in Sessions : j < k => tun[j] # "none"
    /\ \A j \in Sessions : Uuid[j] = Uuid[k] => ~live[j]
    /\ live' = [live EXCEPT ![k] = TRUE] /\ tun' = [tun EXCEPT ![k] = "up"]
    /\ Goto(<<k, "chan">>, "load")
    /\ UNCHANGED <<fail, sig, node, client, reg>>

\* The signal comes over the tunnel once the server accepts connections on it.
ConnectMain(k) ==
    /\ live[k] /\ tun[k] = "up" /\ sig[k] = "none" /\ At(<<k, "chan">>, "watch")
    /\ sig' = [sig EXCEPT ![k] = "up"]
    /\ Goto(<<k, "main">>, "load")
    /\ UNCHANGED <<live, fail, tun, node, client, reg>>

\* npc loses a session, or learns that the server has closed it.
Lose(k) ==
    /\ live[k] /\ (k \in fail \/ tun[k] = "down" \/ sig[k] = "down")
    /\ live' = [live EXCEPT ![k] = FALSE]
    /\ UNCHANGED <<fail, tun, sig, node, client, reg, proc>>

\* The server notices: a read error or the ping timeout of the mux.
Notice(k) ==
    /\ ~live[k] /\ tun[k] = "up" /\ Closing({k}, {})
    /\ UNCHANGED <<live, fail, node, client, reg, proc>>

\* A window of grace ends.  The two have the same length, and every change to
\* a node is followed by MarkConnectedNow: a client outlasts its nodes.
Joining(n) == \E k \in Sessions : /\ live[k] /\ Uuid[k] = uuid(n) /\ tun[k] = "up"
                                  /\ ~At(<<k, "main">>, "watch")
GraceEnds ==
    /\ \/ \E c \in Deals :
             /\ client[c].grace /\ c = reg
             /\ \A n \in NodesOf(c) : ~node[n].grace
             /\ client' = [client EXCEPT ![c].grace = FALSE] /\ UNCHANGED node
       \/ \E n \in Deals :
             /\ node[n].grace /\ reg # None /\ n \in NodesOf(reg)
             /\ Prompt => ~Joining(n)
             /\ node' = [node EXCEPT ![n].grace = FALSE] /\ UNCHANGED client
    /\ UNCHANGED <<conns, reg, proc>>
-------------------------------------------------------------------------------
(* Node *)

\* addTunnel and addSignal: what was there before is closed.
Joined(n, k, kind) ==
    IF kind = "chan" THEN [node[n] EXCEPT !.tunnel = k, !.grace = TRUE]
    ELSE [node[n] EXCEPT !.signal = k, !.grace = TRUE]
Override(n, k, kind) ==
    IF kind = "chan" THEN Closing({node[n].tunnel} \ {0, k}, {})
    ELSE Closing({}, {node[n].signal} \ {0, k})

\* Node.Close.
CloseNodes(N) ==
    /\ Closing({node[n].tunnel : n \in N} \ {0}, {node[n].signal : n \in N} \ {0})
    /\ node' = [n \in Deals |-> IF n \in N THEN [node[n] EXCEPT !.tunnel = 0, !.signal = 0,
                                                                !.retry = retryTimeMax]
                                ELSE node[n]]
-------------------------------------------------------------------------------
(* typeDeal for WORK_CHAN and WORK_MAIN *)

kind(p) == p[2]
Own(p) == [NewNode EXCEPT !.tunnel = IF kind(p) = "chan" THEN p[1] ELSE 0,
                          !.signal = IF kind(p) = "main" THEN p[1] ELSE 0]

Watch(p, n) == proc' = [proc EXCEPT ![p] = [Idle EXCEPT !.pc = "watch", !.c = proc[p].c, !.n = n]]

\* LoadOrStore of a new client with a new node.
LoadOrStore(p) ==
    /\ At(p, "load")
    /\ node' = [node EXCEPT ![p] = Own(p)]
    /\ IF reg = None
       THEN /\ reg' = p
            /\ client' = [client EXCEPT ![p].nodes[uuid(p)] = p, ![p].last = uuid(p)]
            /\ proc' = [proc EXCEPT ![p] = [Idle EXCEPT !.pc = "watch", !.c = p, !.n = p]]
       ELSE /\ UNCHANGED reg
            /\ client' = [client EXCEPT ![reg].grace = TRUE]
            /\ proc' = [proc EXCEPT ![p] = [@ EXCEPT !.pc = "range", !.c = reg, !.n = p,
                                                           !.ret = "lookup"]]
    /\ UNCHANGED <<conns>>

GetNodeByUUID(p) ==
    LET e == client[proc[p].c].nodes[uuid(p)] IN
    /\ At(p, "lookup")
    /\ proc' = [proc EXCEPT ![p] = IF e # None THEN [@ EXCEPT !.pc = "join", !.n = e]
                                   ELSE [@ EXCEPT !.pc = "add"]]
    /\ UNCHANGED <<conns, node, client, reg>>

\* node.AddTunnel or node.AddSignal, and MarkConnectedNow.
JoinNode(p) ==
    LET n == proc[p].n IN
    /\ At(p, "join") /\ Watch(p, n)
    /\ node' = [node EXCEPT ![n] = Joined(n, p[1], kind(p))]
    /\ Override(n, p[1], kind(p))
    /\ client' = [client EXCEPT ![proc[p].c].grace = TRUE]
    /\ UNCHANGED <<live, fail, reg>>

\* Client.AddNode: if the UUID is there by now, its node takes the connection
\* over, but the goroutine goes on with its own node.
AddNode(p) ==
    LET c == proc[p].c
        e == client[c].nodes[uuid(p)] IN
    /\ At(p, "add") /\ Watch(p, p)
    /\ IF e # None
       THEN /\ node' = [node EXCEPT ![e] = Joined(e, p[1], kind(p))]
            /\ Override(e, p[1], kind(p))
            /\ client' = [client EXCEPT ![c].last = uuid(p), ![c].grace = TRUE]
       ELSE /\ client' = [client EXCEPT ![c].nodes[uuid(p)] = p, ![c].last = uuid(p),
                                        ![c].grace = TRUE]
            /\ UNCHANGED <<tun, sig, node>>
    /\ UNCHANGED <<live, fail, reg>>

\* The accept loop of the tunnel ends, or GetHealthFromClient fails on the
\* signal: the node is closed, whatever it holds by now.
WatchEnds(p) ==
    /\ At(p, "watch") /\ p \in Deals
    /\ IF kind(p) = "chan" THEN tun[p[1]] = "down" ELSE sig[p[1]] = "down"
    /\ CloseNodes({proc[p].n})
    /\ proc' = [proc EXCEPT ![p] = [Idle EXCEPT !.pc = "range", !.c = proc[p].c, !.ret = "end"]]
    /\ UNCHANGED <<live, fail, client, reg>>
-------------------------------------------------------------------------------
(* removeOfflineNodes; it goes on at label ret *)

\* A handler that enters spares its own UUID and ignores the grace of the client.
Entering(p) == proc[p].ret = "lookup"

Pruned(p) ==
    proc' = [proc EXCEPT ![p] = IF proc[p].ret = "end" THEN [Idle EXCEPT !.pc = "end"]
                                ELSE [Idle EXCEPT !.pc = proc[p].ret, !.c = proc[p].c]]

Offline(p) == {n \in NodesOf(proc[p].c) : ~IsOnline(n) /\ (Entering(p) => uuid(n) # uuid(p))}

\* One Range over the nodes: those of off that have no retry left are pruned.
RangeBy(p, off, max) ==
    LET over == {n \in off : node[n].retry >= max} IN
    /\ At(p, "range")
    /\ IF client[proc[p].c].grace /\ ~Entering(p)
       THEN Pruned(p) /\ UNCHANGED node
       ELSE /\ node' = [n \in Deals |-> IF n \in off \ over
                                        THEN [node[n] EXCEPT !.retry = @ + 1] ELSE node[n]]
            /\ IF over = {} THEN Pruned(p)
               ELSE proc' = [proc EXCEPT ![p].pc = "prune", ![p].todo = over]
    /\ UNCHANGED <<conns, client, reg>>

\* Faults: no grace for a node that joins, and no limit at all.
RangeNoGrace(p) == RangeBy(p, Offline(p), retryTimeMax)
RangeEndless(p) == RangeBy(p, {n \in Offline(p) : ~node[n].grace /\ node[n].retry < retryTimeMax},
                           retryTimeMax)

Range(p) == RangeBy(p, {n \in Offline(p) : ~node[n].grace}, retryTimeMax)

PruneClose(p) ==
    /\ At(p, "prune") /\ Goto(p, "remove")
    /\ CloseNodes(proc[p].todo)
    /\ UNCHANGED <<live, fail, client, reg>>

\* removeNode, for the UUIDs U: another node of the pool replaces LastUUID.
removeNode(c, U) ==
    LET rest == {v \in UUIDs \ U : Registered(c, v)} IN
    \E v \in IF client[c].last \notin U THEN {client[c].last}
             ELSE IF rest = {} THEN {""} ELSE rest :
       client' = [client EXCEPT ![c].last = v,
                                ![c].nodes = [w \in UUIDs |-> IF w \in U THEN None ELSE @[w]]]

PruneRemove(p) ==
    LET c == proc[p].c IN
    /\ At(p, "remove")
    /\ removeNode(c, {uuid(n) : n \in {m \in proc[p].todo : /\ client[c].nodes[uuid(m)] = m
                                                            /\ ~IsOnline(m)}})
    /\ Pruned(p)
    /\ UNCHANGED <<conns, node, reg>>
-------------------------------------------------------------------------------
(* CheckNode, called by ping and by SendLinkInfo (mode Primary) *)

Begin(p) ==
    /\ At(p, "idle") /\ reg # None
    /\ proc' = [proc EXCEPT ![p] = [Idle EXCEPT !.pc = IF p = ping THEN "range" ELSE "check",
                                                !.c = reg, !.ret = IF p = ping THEN "check" ELSE ""]]
    /\ UNCHANGED <<conns, node, client, reg>>

Answer(p, n) == proc' = [proc EXCEPT ![p] = [Idle EXCEPT !.pc = "answer", !.c = proc[p].c, !.n = n]]

Check(p) ==
    LET size == Cardinality(NodesOf(proc[p].c)) IN
    /\ At(p, "check")
    /\ IF size = 0 THEN Answer(p, None)
       ELSE proc' = [proc EXCEPT ![p].pc = "read", ![p].left = size]
    /\ UNCHANGED <<conns, node, client, reg>>

Again(p) == proc' = [proc EXCEPT ![p].pc = "read", ![p].u = "", ![p].n = None]

CheckRead(p) ==
    LET c == proc[p].c IN
    /\ At(p, "read")
    /\ \/ /\ client[c].last # ""
          /\ proc' = [proc EXCEPT ![p].pc = "load", ![p].u = client[c].last]
       \/ /\ client[c].last = "" /\ NodesOf(c) = {}
          /\ Answer(p, None)
       \/ /\ client[c].last = ""
          /\ \E u \in UUIDs : /\ Registered(c, u)
                              /\ proc' = [proc EXCEPT ![p].pc = "store", ![p].u = u]
    /\ UNCHANGED <<conns, node, client, reg>>

CheckStore(p) ==
    /\ At(p, "store") /\ Goto(p, "load")
    /\ client' = [client EXCEPT ![proc[p].c].last = proc[p].u]
    /\ UNCHANGED <<conns, node, reg>>

CheckLoad(p) ==
    LET c == proc[p].c
        n == client[c].nodes[proc[p].u] IN
    /\ At(p, "load")
    /\ \/ /\ n = None /\ Goto(p, "drop")
       \/ /\ n # None /\ IsOnline(n)
          /\ Answer(p, n)
       \/ /\ n # None /\ ~IsOnline(n) /\ (client[c].grace \/ node[n].grace)
          /\ IF proc[p].left <= 1 THEN Answer(p, None)
             ELSE proc' = [proc EXCEPT ![p].pc = "skip", ![p].left = @ - 1]
       \/ /\ n # None /\ ~IsOnline(n) /\ ~client[c].grace /\ ~node[n].grace
          /\ proc' = [proc EXCEPT ![p].pc = "close", ![p].n = n]
    /\ UNCHANGED <<conns, node, client, reg>>

CheckClose(p) ==
    /\ At(p, "close") /\ Goto(p, "drop")
    /\ CloseNodes({proc[p].n})
    /\ UNCHANGED <<live, fail, client, reg>>

CheckSkip(p) ==
    /\ At(p, "skip") /\ Again(p)
    /\ client' = [client EXCEPT ![proc[p].c].last = ""]
    /\ UNCHANGED <<conns, node, reg>>

\* removeNode(c.LastUUID), read again.
CheckDrop(p) ==
    /\ At(p, "drop") /\ Again(p)
    /\ removeNode(proc[p].c, {client[proc[p].c].last})
    /\ UNCHANGED <<conns, node, reg>>
-------------------------------------------------------------------------------
(* What ping and SendLinkInfo make of the answer *)

PingDone(p) ==
    LET c == proc[p].c
        bad == proc[p].n = None \/ ~IsOnline(proc[p].n)
        retry == IF bad THEN client[c].retry + 1 ELSE 0 IN
    /\ p = ping /\ At(p, "answer")
    /\ client' = [client EXCEPT ![c].retry = retry]
    /\ Leave(p, IF retry >= PingRetries THEN "del" ELSE "idle")
    /\ UNCHANGED <<conns, node, reg>>

\* Without a node or a tunnel the client is deleted, except in its grace.  A
\* node that does not acknowledge the link is closed.
LinkDone(p) ==
    LET n == proc[p].n
        lost == n = None \/ node[n].tunnel = 0 IN
    /\ p = link /\ At(p, "answer")
    /\ \/ /\ Leave(p, IF lost /\ ~client[proc[p].c].grace THEN "del" ELSE "idle")
          /\ UNCHANGED <<tun, sig, node>>
       \/ /\ ~lost /\ ~live[node[n].tunnel]
          /\ CloseNodes({n}) /\ Leave(p, "idle")
    /\ UNCHANGED <<live, fail, client, reg>>

\* DelClient: Client.Close, then the entry is deleted, whichever it is by then.
DelClose(p) ==
    /\ At(p, "del")
    /\ IF reg = None \/ client[reg].closed
       THEN UNCHANGED <<tun, sig, node, client>>
       ELSE /\ CloseNodes(NodesOf(reg))
            /\ client' = [client EXCEPT ![reg].closed = TRUE,
                                        ![reg].nodes = [u \in UUIDs |-> None]]
    /\ Leave(p, IF reg = None THEN "idle" ELSE "delete")
    /\ UNCHANGED <<live, fail, reg>>

DelDelete(p) ==
    /\ At(p, "delete") /\ Leave(p, "idle") /\ reg' = None
    /\ UNCHANGED <<conns, node, client>>
-------------------------------------------------------------------------------
Pruning(p) == Range(p) \/ PruneClose(p) \/ PruneRemove(p)
DealStep(p) == \/ LoadOrStore(p) \/ GetNodeByUUID(p) \/ JoinNode(p) \/ AddNode(p)
               \/ WatchEnds(p) \/ Pruning(p)
UserStep(p) == \/ Pruning(p) \/ Check(p) \/ CheckRead(p) \/ CheckStore(p) \/ CheckLoad(p)
               \/ CheckClose(p) \/ CheckSkip(p) \/ CheckDrop(p) \/ PingDone(p) \/ LinkDone(p)
               \/ DelClose(p) \/ DelDelete(p)

Next ==
    \/ \E k \in Sessions : Connect(k) \/ ConnectMain(k) \/ Lose(k) \/ Notice(k)
    \/ GraceEnds
    \/ \E p \in Deals : DealStep(p)
    \/ \E p \in Users : Begin(p) \/ UserStep(p)

Spec == Init /\ [][Next]_vars

\* Goroutines go on, npc finishes its handshake, and either side notices in the
\* end that the other has closed or lost a session.
Environment == GraceEnds \/ \E k \in Sessions : ConnectMain(k) \/ Lose(k) \/ Notice(k)
FairSpec ==
    /\ Spec
    /\ WF_vars(Environment)
    /\ WF_vars(\E p \in Deals : DealStep(p))
    /\ \A p \in Users : WF_vars(Begin(p) \/ UserStep(p))
-------------------------------------------------------------------------------
\* Retry counts stop at their maxima, and a client knows its nodes by the UUIDs
\* of npc processes: Node.Retry, ping and removeNode keep them there.
TypeOK ==
    /\ live \in [Sessions -> BOOLEAN]
    /\ tun \in [Sessions -> {"none", "up", "down"}] /\ sig \in [Sessions -> {"none", "up", "down"}]
    /\ reg \in Deals \cup {None}
    /\ \A n \in Deals : /\ {node[n].tunnel, node[n].signal} \subseteq Sessions \cup {0}
                        /\ node[n].retry \in 0..retryTimeMax
    /\ \A c \in Deals : /\ client[c].nodes \in [UUIDs -> Deals \cup {None}]
                        /\ client[c].last \in UUIDs \cup {""}
                        /\ client[c].retry \in 0..PingRetries

Later(k) == \E j \in Sessions : j > k /\ Uuid[j] = Uuid[k]

\* The server closes the tunnel of a session that npc uses only if the session
\* is not the newest of its UUID: a connection closes "the client of before"
\* (typeDeal), never itself or that of another npc.  DelClient closes all.
NewestSurvives ==
    [][\A k \in Sessions : live[k] /\ tun[k] = "up" /\ tun'[k] = "down"
          => Later(k) \/ \E p \in Users : DelClose(p)]_vars

\* While ping runs, there is always a time to come at which every registered
\* node is online: one that is offline is removed or comes back, it is not tried
\* again and again.  And GetConn, which a visitor waits for, is not held in
\* the loop of CheckNode, although the loop reads LastUUID and the nodes anew in
\* every turn while others change them.
NodeReclaimed ==
    /\ ~At(ping, "off") ~> (reg = None \/ \A n \in NodesOf(reg) : IsOnline(n))
    /\ At(link, "read") ~> At(link, "idle")
===============================================================================
