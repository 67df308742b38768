-------------------------------- MODULE Proxy --------------------------------
(***************************************************************************)
(* One user connection through nps and npc to its target: TunnelModeServer *)
(* with its processes (server/proxy/tcp.go, socks5.go, base.go), the       *)
(* SecretServer, npc's handleChan, and the pairs of copying goroutines     *)
(* (CopyWaitGroup, lib/goroutine) at nps and at npc, with the connection   *)
(* and flow counters of the task and of its client.                        *)
(*                                                                         *)
(* A connection has three pipes in a row: U (user - nps), L (nps - npc, a  *)
(* mux connection) and T (npc - target).  The user's side of a pipe is its *)
(* near end.  Data are counted in chunks, one Read or Write each.          *)
(***************************************************************************)
EXTENDS Integers, FiniteSets

CONSTANTS
    Visitor,    \* the user connections
    Setups,     \* see SetupType
    Cap,        \* chunks a pipe holds in each direction
    Pool        \* size of CopyConnsPool; 100000 in the code

VARIABLES
    setup,      \* the member of Setups this behaviour is about
    srv,        \* the TunnelModeServer: "up", "closing", "closed"
    task,       \* Mode and the Socks5Proxy flag ProcessMix derives from it
    active,     \* activeConnections
    now,        \* NowConn of the client and of the task
    flow,       \* Flow of the client and of the task
    h,          \* visitor -> where its handler at nps is
    pipe,       \* visitor -> pipe -> its two ends and what is on its way
    cp,         \* visitor -> joint -> direction -> a copying goroutine
    npc,        \* visitor -> where handleChan is
    user,       \* visitor -> what it asked for, was told, has sent and got
    tgt,        \* visitor -> chunks the target has received and sent
    carried     \* chunks nps has written towards the targets and the users

vars == <<setup, srv, task, active, now, flow, h, pipe, cp, npc, user, tgt, carried>>

Pipe == {"U", "L", "T"}
Dir == {"fwd", "bwd"}
Joint == {"nps", "npc"}
Ask == {"data", "connect", "denied", "bind", "badauth", "other"}

\* A setup names the mode of the task, who connects and what for, the limits (0
\* for none), how much is sent each way, and which of refusals, sudden closes
\* and the stop of the task may happen.
SetupType ==
    [mode : {"tcp", "secret", "socks5", "httpProxy"}, visitors : SUBSET Visitor,
     asks : SUBSET Ask, acl : BOOLEAN, max : Nat, tlimit : Nat, climit : Nat,
     req : Nat, resp : Nat, refuse : BOOLEAN, abort : BOOLEAN, close : BOOLEAN]

ASSUME ProxyAssumption == IsFiniteSet(Visitor) /\ Cap \in Nat \ {0} /\ Pool \in Nat \ {0} /\ Setups \subseteq SetupType

\* Where the copy d of joint j reads and writes: a pipe, and its end there.
Src(j, d) == CASE j = "nps" /\ d = "fwd" -> <<"U", "far">>  [] j = "nps" /\ d = "bwd" -> <<"L", "near">>
               [] j = "npc" /\ d = "fwd" -> <<"L", "far">>  [] j = "npc" /\ d = "bwd" -> <<"T", "near">>
Other(d) == IF d = "fwd" THEN "bwd" ELSE "fwd"
Dst(j, d) == Src(j, Other(d))

-----------------------------------------------------------------------------
(* Pipes.  What an end wrote stays readable after it closed, and is lost   *)
(* when the reader closes.                                                 *)

Peer(e) == IF e = "near" THEN "far" ELSE "near"
To(e) == IF e = "far" THEN "fwd" ELSE "bwd"

NoPipe == [near |-> "none", far |-> "none", fwd |-> 0, bwd |-> 0]
NewPipe == [near |-> "open", far |-> "open", fwd |-> 0, bwd |-> 0]

CloseEnd(p, e) ==
    IF p[e] = "open" THEN [p EXCEPT ![e] = "closed", ![To(e)] = 0] ELSE p

\* The pipes ps after both ends that joint j holds are closed.
CloseBoth(ps, j) ==
    LET in == Src(j, "fwd")
        out == Dst(j, "fwd")
    IN  [ps EXCEPT ![in[1]] = CloseEnd(@, in[2]), ![out[1]] = CloseEnd(@, out[2])]

HasData(p, e) == p[e] = "open" /\ p[To(e)] > 0
ReadFails(p, e) == p[e] # "open" \/ (p[To(e)] = 0 /\ p[Peer(e)] # "open")
WriteFails(p, e) == p[e] # "open" \/ p[Peer(e)] # "open"
HasRoom(p, e) == ~WriteFails(p, e) /\ p[To(Peer(e))] < Cap

-----------------------------------------------------------------------------

Ready == [pc |-> "idle", n |-> 0, eof |-> FALSE]
Queued == [d \in Dir |-> [Ready EXCEPT !.pc = "queued"]]
NoCopies == [j \in Joint |-> [d \in Dir |-> Ready]]

Init ==
    /\ setup \in Setups
    /\ srv = "up"
    /\ task = [mode |-> setup.mode, socks |-> FALSE]
    /\ active = {}
    /\ now = [client |-> 0, task |-> 0]
    /\ flow = [client |-> [in |-> 0, out |-> 0], task |-> [in |-> 0, out |-> 0]]
    /\ h = [v \in Visitor |-> "idle"]
    /\ pipe = [v \in Visitor |-> [p \in Pipe |-> NoPipe]]
    /\ cp = [v \in Visitor |-> NoCopies]
    /\ npc = [v \in Visitor |-> "none"]
    /\ user = [v \in Visitor |-> [ask |-> "none", told |-> "none", sent |-> 0, got |-> 0]]
    /\ tgt = [v \in Visitor |-> [got |-> 0, sent |-> 0]]
    /\ carried = [in |-> 0, out |-> 0]

Goto(v, pc) == h' = [h EXCEPT ![v] = pc]

\* The process of v returns: the deferred calls of its handler follow.
Return(v) ==
    /\ pipe' = [pipe EXCEPT ![v] = CloseBoth(@, "nps")]
    /\ Goto(v, "defer")

-----------------------------------------------------------------------------
(* The handler at nps.                                                     *)

\* The listener accepts and starts a goroutine.
Accept(v) ==
    /\ h[v] = "idle" /\ srv # "closed" /\ v \in setup.visitors
    /\ pipe' = [pipe EXCEPT ![v]["U"] = NewPipe]
    /\ \E a \in setup.asks : user' = [user EXCEPT ![v].ask = a]
    /\ Goto(v, IF setup.mode = "secret" THEN "secret" ELSE "handle")
    /\ UNCHANGED <<setup, srv, task, active, now, flow, cp, npc, tgt, carried>>

handleConn(v) ==
    /\ h[v] = "handle"
    /\ active' = active \cup {v}
    /\ Goto(v, "check")
    /\ UNCHANGED <<setup, srv, task, now, flow, pipe, cp, npc, user, tgt, carried>>

\* HandleSecret counts the connection of the task before it looks at limits.
HandleSecret(v) ==
    /\ h[v] = "secret"
    /\ now' = [now EXCEPT !.task = @ + 1]
    /\ Goto(v, "check")
    /\ UNCHANGED <<setup, srv, task, active, flow, pipe, cp, npc, user, tgt, carried>>

Exceeded(f, limit) == limit > 0 /\ f.in + f.out > limit

\* The limits are looked at, NowConn included, and only then is it counted.
CheckFlowAndConnNum(v) ==
    /\ h[v] = "check"
    /\ IF Exceeded(flow.client, setup.climit) \/ (setup.max # 0 /\ now.client >= setup.max)
       THEN /\ pipe' = [pipe EXCEPT ![v]["U"] = CloseEnd(@, "far")]
            /\ now' = [now EXCEPT !.task = IF setup.mode = "secret" THEN @ - 1 ELSE @]
            /\ Goto(v, "gone")
       ELSE /\ Goto(v, "add")
            /\ UNCHANGED <<pipe, now>>
    /\ UNCHANGED <<setup, srv, task, active, flow, cp, npc, user, tgt, carried>>

AddConn(v) ==
    /\ h[v] = "add"
    /\ now' = [client |-> now.client + 1,
               task |-> IF setup.mode = "secret" THEN now.task ELSE now.task + 1]
    /\ Goto(v, "process")
    /\ UNCHANGED <<setup, srv, task, active, flow, pipe, cp, npc, user, tgt, carried>>

\* ProcessTunnel asks the rotation for a target; without one it returns.
\* HandleSecret goes on, with no target or with the one its visitor names.
ProcessTunnel(v) ==
    /\ h[v] = "process" /\ setup.mode \in {"tcp", "secret"}
    /\ \/ /\ Goto(v, "deal") /\ UNCHANGED pipe
       \/ /\ setup.refuse /\ setup.mode = "tcp" /\ Return(v)
    /\ UNCHANGED <<setup, srv, task, active, now, flow, cp, npc, user, tgt, carried>>

\* A task of the old modes becomes a mixProxy the first time it is used.
MixTask == [mode |-> "mixProxy", socks |-> task.socks \/ task.mode = "socks5"]

\* What ProcessMix, the negotiation and handleConnect make of a request.
Reply(a, t) ==
    CASE a \in {"other", "badauth"} -> "closed"
      [] a = "bind" -> "refused"
      [] a = "denied" /\ t.mode = "mixProxy" /\ setup.acl -> "refused"
      [] OTHER -> "deal"

\* An HTTP CONNECT is answered before the link is tried.
ProcessMix(v) ==
    /\ h[v] = "process" /\ setup.mode \in {"socks5", "httpProxy"}
    /\ task' = MixTask
    /\ \E r \in {Reply(user[v].ask, MixTask)} :
          \/ /\ r = "deal"
             /\ Goto(v, "deal")
             /\ user' = [user EXCEPT ![v].told = IF MixTask.socks THEN @ ELSE "ok"]
             /\ UNCHANGED pipe
          \/ /\ r # "deal"
             /\ Return(v)
             /\ user' = [user EXCEPT ![v].told = r]
    /\ UNCHANGED <<setup, srv, active, now, flow, cp, npc, tgt, carried>>

\* DealClient: the black list, then the link.  A SOCKS5 user is told after that.
DealClient(v) ==
    /\ h[v] = "deal" /\ setup.mode # "secret"
    /\ \/ /\ npc' = [npc EXCEPT ![v] = "info"]
          /\ pipe' = [pipe EXCEPT ![v]["L"] = NewPipe]
          /\ user' = [user EXCEPT ![v].told = IF task.socks THEN "ok" ELSE @]
          /\ Goto(v, "invoke")
       \/ /\ setup.refuse /\ Return(v)
          /\ UNCHANGED <<npc, user>>
    /\ UNCHANGED <<setup, srv, task, active, now, flow, cp, tgt, carried>>

\* HandleSecret: the link, then the ACK its visitor may want; a visitor that is
\* gone by then ends the connection.
SecretLink(v) ==
    /\ h[v] = "deal" /\ setup.mode = "secret"
    /\ \/ /\ npc' = [npc EXCEPT ![v] = "info"]
          /\ \/ /\ pipe' = [pipe EXCEPT ![v]["L"] = NewPipe]
                /\ user' = [user EXCEPT ![v].told = "ok"]
                /\ Goto(v, "invoke")
             \/ /\ WriteFails(pipe[v]["U"], "far")
                /\ pipe' = [pipe EXCEPT ![v] = CloseBoth([@ EXCEPT !["L"] = NewPipe], "nps")]
                /\ Goto(v, "defer")
                /\ UNCHANGED user
       \/ /\ setup.refuse /\ Return(v)
          /\ UNCHANGED <<npc, user>>
    /\ UNCHANGED <<setup, srv, task, active, now, flow, cp, tgt, carried>>

\* A worker of CopyConnsPool takes the connection.
Invoke(v) ==
    /\ h[v] = "invoke"
    /\ Cardinality({u \in Visitor : h[u] = "copy"}) < Pool
    /\ Goto(v, "copy")
    /\ cp' = [cp EXCEPT ![v]["nps"] = Queued]
    /\ UNCHANGED <<setup, srv, task, active, now, flow, pipe, npc, user, tgt, carried>>

\* Fault: inbound is taken from inbound and outbound from outbound.
SubSwapped(v) ==
    /\ h[v] = "copy" /\ \A d \in Dir : cp[v]["nps"][d].pc = "done"
    /\ LET in == cp[v]["nps"]["fwd"].n
           out == cp[v]["nps"]["bwd"].n
           Pos(i) == IF i < 0 THEN 0 ELSE i
       IN  flow' = [flow EXCEPT !.task = [in |-> Pos(@.in - in), out |-> Pos(@.out - out)]]
    /\ Return(v)
    /\ cp' = [cp EXCEPT ![v]["nps"] = [d \in Dir |-> Ready]]
    /\ UNCHANGED <<setup, srv, task, active, now, npc, user, tgt, carried>>

\* copyConns: both directions are over.  Each counted its chunks as inbound and
\* as outbound; the task is given back what was counted twice.
copyConns(v) ==
    /\ h[v] = "copy" /\ \A d \in Dir : cp[v]["nps"][d].pc = "done"
    /\ LET in == cp[v]["nps"]["fwd"].n
           out == cp[v]["nps"]["bwd"].n
           Pos(i) == IF i < 0 THEN 0 ELSE i
       IN  flow' = [flow EXCEPT !.task = [in |-> Pos(@.in - out), out |-> Pos(@.out - in)]]
    /\ Return(v)
    /\ cp' = [cp EXCEPT ![v]["nps"] = [d \in Dir |-> Ready]]
    /\ UNCHANGED <<setup, srv, task, active, now, npc, user, tgt, carried>>

\* The deferred CutConn calls.
CutConn(v) ==
    /\ h[v] = "defer"
    /\ now' = [client |-> now.client - 1, task |-> now.task - 1]
    /\ Goto(v, "gone")
    /\ UNCHANGED <<setup, srv, task, active, flow, pipe, cp, npc, user, tgt, carried>>

Deleted(v) ==
    /\ h[v] = "gone"
    /\ active' = active \ {v}
    /\ Goto(v, "done")
    /\ UNCHANGED <<setup, srv, task, now, flow, pipe, cp, npc, user, tgt, carried>>

Handler(v) ==
    \/ handleConn(v) \/ HandleSecret(v) \/ CheckFlowAndConnNum(v) \/ AddConn(v) \/ ProcessTunnel(v) \/ ProcessMix(v)
    \/ DealClient(v) \/ SecretLink(v) \/ Invoke(v) \/ copyConns(v) \/ CutConn(v) \/ Deleted(v)

\* Close of the TunnelModeServer: the connections it knows, then the listener.
CloseConns ==
    /\ setup.close /\ srv = "up"
    /\ pipe' = [v \in Visitor |-> IF v \in active THEN [pipe[v] EXCEPT !["U"] = CloseEnd(@, "far")]
                                                 ELSE pipe[v]]
    /\ active' = {}
    /\ srv' = "closing"
    /\ UNCHANGED <<setup, task, now, flow, h, cp, npc, user, tgt, carried>>

CloseListener ==
    /\ srv = "closing"
    /\ srv' = "closed"
    /\ UNCHANGED <<setup, task, active, now, flow, h, pipe, cp, npc, user, tgt, carried>>

-----------------------------------------------------------------------------
(* npc.                                                                    *)

\* The link's description is read and the target dialled.
handleChan(v) ==
    /\ npc[v] = "info"
    /\ \/ /\ pipe' = [pipe EXCEPT ![v]["T"] = NewPipe]
          /\ npc' = [npc EXCEPT ![v] = "invoke"]
       \/ /\ setup.refuse
          /\ pipe' = [pipe EXCEPT ![v]["L"] = CloseEnd(@, "far")]
          /\ npc' = [npc EXCEPT ![v] = "done"]
    /\ UNCHANGED <<setup, srv, task, active, now, flow, h, cp, user, tgt, carried>>

\* npc has pools of the same sizes.
InvokeAtNpc(v) ==
    /\ npc[v] = "invoke"
    /\ Cardinality({u \in Visitor : npc[u] = "copy"}) < Pool
    /\ npc' = [npc EXCEPT ![v] = "copy"]
    /\ cp' = [cp EXCEPT ![v]["npc"] = Queued]
    /\ UNCHANGED <<setup, srv, task, active, now, flow, h, pipe, user, tgt, carried>>

CopyWaitGroup(v) ==
    /\ npc[v] = "copy" /\ \A d \in Dir : cp[v]["npc"][d].pc = "done"
    /\ pipe' = [pipe EXCEPT ![v] = CloseBoth(@, "npc")]
    /\ npc' = [npc EXCEPT ![v] = "done"]
    /\ cp' = [cp EXCEPT ![v]["npc"] = [d \in Dir |-> Ready]]
    /\ UNCHANGED <<setup, srv, task, active, now, flow, h, user, tgt, carried>>

AtNpc(v) == handleChan(v) \/ InvokeAtNpc(v) \/ CopyWaitGroup(v)

-----------------------------------------------------------------------------
(* CopyBuffer, in each direction at each joint.                            *)

CopyTo(v, j, d, pc) == cp' = [cp EXCEPT ![v][j][d].pc = pc]

\* connCopyPool: each direction needs a worker, the second one after the first.
Workers(j) ==
    Cardinality({w \in Visitor \X Dir : cp[w[1]][j][w[2]].pc \notin {"idle", "queued", "done"}})

\* Fault: the pool has one worker per connection.
StartsInOnePool(v, j, d) ==
    /\ cp[v][j][d].pc = "queued"
    /\ d = "bwd" => cp[v][j]["fwd"].pc # "queued"
    /\ Workers(j) < Pool
    /\ CopyTo(v, j, d, "read")
    /\ UNCHANGED <<setup, srv, task, active, now, flow, h, pipe, npc, user, tgt, carried>>

CopyStart(v, j, d) ==
    /\ cp[v][j][d].pc = "queued"
    /\ d = "bwd" => cp[v][j]["fwd"].pc # "queued"
    /\ Workers(j) < 2 * Pool
    /\ CopyTo(v, j, d, "read")
    /\ UNCHANGED <<setup, srv, task, active, now, flow, h, pipe, npc, user, tgt, carried>>

\* Fault: a chunk that comes together with the error is not written.
ReadDropsLast(v, j, d) ==
    LET p == pipe[v][Src(j, d)[1]]
        e == Src(j, d)[2]
        last == p[To(e)] = 1 /\ p[Peer(e)] # "open"
    IN  /\ cp[v][j][d].pc = "read"
        /\ \/ /\ HasData(p, e)
              /\ \E eof \in {FALSE, last} :
                    cp' = [cp EXCEPT ![v][j][d] = [@ EXCEPT !.pc = IF eof THEN "close" ELSE "write"]]
              /\ pipe' = [pipe EXCEPT ![v][Src(j, d)[1]][To(e)] = @ - 1]
           \/ /\ ReadFails(p, e)
              /\ CopyTo(v, j, d, "close")
              /\ UNCHANGED pipe
        /\ UNCHANGED <<setup, srv, task, active, now, flow, h, npc, user, tgt, carried>>

\* A Read: a chunk, the last one possibly together with the error; or the error.
CopyRead(v, j, d) ==
    LET p == pipe[v][Src(j, d)[1]]
        e == Src(j, d)[2]
        last == p[To(e)] = 1 /\ p[Peer(e)] # "open"
    IN  /\ cp[v][j][d].pc = "read"
        /\ \/ /\ HasData(p, e)
              /\ \E eof \in {FALSE, last} :
                    cp' = [cp EXCEPT ![v][j][d] = [@ EXCEPT !.pc = "write", !.eof = eof]]
              /\ pipe' = [pipe EXCEPT ![v][Src(j, d)[1]][To(e)] = @ - 1]
           \/ /\ ReadFails(p, e)
              /\ CopyTo(v, j, d, "close")
              /\ UNCHANGED pipe
        /\ UNCHANGED <<setup, srv, task, active, now, flow, h, npc, user, tgt, carried>>

CopyWrite(v, j, d) ==
    LET p == pipe[v][Dst(j, d)[1]]
        e == Dst(j, d)[2]
    IN  /\ cp[v][j][d].pc = "write"
        /\ \/ /\ WriteFails(p, e)
              /\ CopyTo(v, j, d, "close")
              /\ UNCHANGED <<pipe, carried>>
           \/ /\ HasRoom(p, e)
              /\ pipe' = [pipe EXCEPT ![v][Dst(j, d)[1]][To(Peer(e))] = @ + 1]
              /\ IF j = "nps"
                 THEN /\ cp' = [cp EXCEPT ![v][j][d] = [@ EXCEPT !.pc = "task", !.n = cp[v][j][d].n + 1]]
                      /\ carried' = IF d = "fwd" THEN [carried EXCEPT !.in = @ + 1]
                                                 ELSE [carried EXCEPT !.out = @ + 1]
                 ELSE /\ cp' = [cp EXCEPT ![v][j][d] =
                                   [@ EXCEPT !.pc = IF cp[v][j][d].eof THEN "close" ELSE "read"]]
                      /\ UNCHANGED carried
        /\ UNCHANGED <<setup, srv, task, active, now, flow, h, npc, user, tgt>>

Counted(f) == [in |-> f.in + 1, out |-> f.out + 1]

\* The flows are counted one after the other, each with its limit.
CopyTask(v, d) ==
    /\ cp[v]["nps"][d].pc = "task"
    /\ flow' = [flow EXCEPT !.task = Counted(@)]
    /\ CopyTo(v, "nps", d, IF Exceeded(Counted(flow.task), setup.tlimit) THEN "close" ELSE "client")
    /\ UNCHANGED <<setup, srv, task, active, now, h, pipe, npc, user, tgt, carried>>

CopyClient(v, d) ==
    /\ cp[v]["nps"][d].pc = "client"
    /\ flow' = [flow EXCEPT !.client = Counted(@)]
    /\ CopyTo(v, "nps", d,
              IF Exceeded(Counted(flow.client), setup.climit) \/ cp[v]["nps"][d].eof
              THEN "close" ELSE "read")
    /\ UNCHANGED <<setup, srv, task, active, now, h, pipe, npc, user, tgt, carried>>

\* A direction that is over closes both connections, and with them the other.
copyConnGroup(v, j, d) ==
    /\ cp[v][j][d].pc = "close"
    /\ pipe' = [pipe EXCEPT ![v] = CloseBoth(@, j)]
    /\ CopyTo(v, j, d, "done")
    /\ UNCHANGED <<setup, srv, task, active, now, flow, h, npc, user, tgt, carried>>

Copy(v, j, d) ==
    \/ CopyStart(v, j, d) \/ CopyRead(v, j, d) \/ CopyWrite(v, j, d) \/ copyConnGroup(v, j, d)
    \/ j = "nps" /\ (CopyTask(v, d) \/ CopyClient(v, d))

-----------------------------------------------------------------------------
(* The user and the target.                                                *)

UserSend(v) ==
    /\ user[v].sent < setup.req /\ HasRoom(pipe[v]["U"], "near")
    /\ pipe' = [pipe EXCEPT ![v]["U"].fwd = @ + 1]
    /\ user' = [user EXCEPT ![v].sent = @ + 1]
    /\ UNCHANGED <<setup, srv, task, active, now, flow, h, cp, npc, tgt, carried>>

UserRecv(v) ==
    /\ HasData(pipe[v]["U"], "near")
    /\ pipe' = [pipe EXCEPT ![v]["U"].bwd = @ - 1]
    /\ user' = [user EXCEPT ![v].got = @ + 1]
    /\ UNCHANGED <<setup, srv, task, active, now, flow, h, cp, npc, tgt, carried>>

\* When it has read the end, or, where the setup allows it, at any time.
UserClose(v) ==
    /\ pipe[v]["U"].near = "open"
    /\ setup.abort \/ ReadFails(pipe[v]["U"], "near")
    /\ pipe' = [pipe EXCEPT ![v]["U"] = CloseEnd(@, "near")]
    /\ UNCHANGED <<setup, srv, task, active, now, flow, h, cp, npc, user, tgt, carried>>

TargetRecv(v) ==
    /\ HasData(pipe[v]["T"], "far")
    /\ pipe' = [pipe EXCEPT ![v]["T"].fwd = @ - 1]
    /\ tgt' = [tgt EXCEPT ![v].got = @ + 1]
    /\ UNCHANGED <<setup, srv, task, active, now, flow, h, cp, npc, user, carried>>

TargetSend(v) ==
    /\ tgt[v].sent < setup.resp /\ HasRoom(pipe[v]["T"], "far")
    /\ pipe' = [pipe EXCEPT ![v]["T"].bwd = @ + 1]
    /\ tgt' = [tgt EXCEPT ![v].sent = @ + 1]
    /\ UNCHANGED <<setup, srv, task, active, now, flow, h, cp, npc, user, carried>>

\* When it has answered all it was asked, or, where the setup allows it, before.
TargetClose(v) ==
    /\ pipe[v]["T"].far = "open"
    /\ \/ setup.abort \/ ReadFails(pipe[v]["T"], "far")
       \/ tgt[v].got = setup.req /\ tgt[v].sent = setup.resp
    /\ pipe' = [pipe EXCEPT ![v]["T"] = CloseEnd(@, "far")]
    /\ UNCHANGED <<setup, srv, task, active, now, flow, h, cp, npc, user, tgt, carried>>

Ends(v) == UserRecv(v) \/ TargetRecv(v) \/ TargetSend(v) \/ UserSend(v)
Closes(v) == UserClose(v) \/ TargetClose(v)

Next ==
    \/ \E v \in Visitor :
          \/ Accept(v) \/ Handler(v) \/ AtNpc(v)
          \/ \E j \in Joint, d \in Dir : Copy(v, j, d)
          \/ Ends(v) \/ Closes(v)
    \/ CloseConns \/ CloseListener

\* Every goroutine runs; the ends read and answer, and close what has ended.
Fairness ==
    \A v \in Visitor :
       /\ WF_vars(v \in setup.visitors /\ Handler(v)) /\ WF_vars(v \in setup.visitors /\ AtNpc(v))
       /\ WF_vars(v \in setup.visitors /\ Ends(v))
       /\ WF_vars(v \in setup.visitors /\ ~setup.abort /\ Closes(v))
       /\ \A j \in Joint, d \in Dir : WF_vars(v \in setup.visitors /\ Copy(v, j, d))

Spec == Init /\ [][Next]_vars /\ Fairness

-----------------------------------------------------------------------------

\* Types.
TypeOK ==
    /\ setup \in SetupType
    /\ srv \in {"up", "closing", "closed"} /\ active \subseteq Visitor
    /\ \A v \in Visitor : \A p \in Pipe :
          pipe[v][p].fwd \in 0..Cap /\ pipe[v][p].bwd \in 0..Cap
    /\ now.client \in Nat /\ now.task \in Nat

Quiet == \A v \in Visitor : h[v] \in {"idle", "done"}

\* handleConn, HandleSecret and copyConns: however the connections ended, when
\* none is left both NowConn are back at 0 and the task's Flow is exactly what
\* was written towards the targets and towards the users.
Settles ==
    Quiet => /\ now = [client |-> 0, task |-> 0]
             /\ flow.task = carried

\* CopyBuffer and copyConnGroup at nps and npc: where nobody breaks off and no
\* limit is used up, a user reads all that the target wrote before it reads the
\* end.
ResponseArrives ==
    \A v \in Visitor :
        /\ ~setup.abort /\ ~setup.refuse /\ ~setup.close /\ setup.tlimit + setup.climit = 0
        /\ pipe[v]["U"].near = "open" /\ pipe[v]["U"].far = "closed" /\ pipe[v]["U"].bwd = 0
        => user[v].got = tgt[v].sent

\* CopyWaitGroup: once any end of a connection is closed, by the user, the
\* target, nps or npc, the handlers end and nothing they held stays open, also
\* while the worker pools are full.
EndsTogether ==
    \A v \in Visitor :
        (\E p \in Pipe, e \in {"near", "far"} : pipe[v][p][e] = "closed")
        ~> /\ h[v] = "done" /\ npc[v] \in {"none", "done"}
           /\ pipe[v]["U"].far # "open" /\ pipe[v]["L"].near # "open"
           /\ pipe[v]["L"].far # "open" /\ pipe[v]["T"].near # "open"
=============================================================================
