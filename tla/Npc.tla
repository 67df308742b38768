-------------------------------- MODULE Npc --------------------------------
(* The life of an npc client: the reconnect loops of cmd/npc/npc.go, of       *)
(* StartFromFile and of the SDK around TRPClient.Start, and inside one        *)
(* session its goroutines: Start itself (which becomes handleMain), the       *)
(* accept loop of newChan, ping, the health checker, and closing, which any   *)
(* of them may enter through Close. With a configuration file each session    *)
(* also has a manager of file servers, which starts and closes beside it.     *)
(*                                                                            *)
(* The handshake is the module Handshake; here a connection is established    *)
(* or fails.                                                                  *)
EXTENDS Naturals

CONSTANTS MaxSession,   \* bound: calls of Start
          Setups        \* [old, conf, auto, sdk, faults]: protocol before
                        \* version 5, configuration file, auto reconnection,
                        \* SDK, and a bound on the failures of the network,
                        \* the server and the calls of CloseClient

ASSUME BoundsAssumption == MaxSession \in Nat \ {0}

Session == 1 .. MaxSession

VARIABLES setup,
          npc,       \* where the goroutine of the reconnect loop is
          cur,       \* the session it is in, 0 before the first
          ses,       \* the sessions
          fsm,       \* the file server manager of each session
          NowStatus,
          up,        \* the server can be reached
          faults

vars == <<setup, npc, cur, ses, fsm, NowStatus, up, faults>>

\* A session before Start: tunnel and signal unset, nothing running.
\* tun, sig: "none" (nil), "up", "dead" (the link is gone), "closed";
\* cl: where closing is, "no" before, "done" after.
NewRPClient ==
    [tun |-> "none", sig |-> "none", ctx |-> FALSE, cl |-> "no", tick |-> FALSE,
     acc |-> "none", ping |-> "none", hc |-> "none"]

\* A manager: its map of servers ("nil" once closed), and the goroutines that
\* start and that run the server of the one file task.
NewFileServerManager == [servers |-> "open", start |-> "go", serve |-> "none"]
NoManager == [servers |-> "none", start |-> "done", serve |-> "none"]

Init ==
    /\ setup \in Setups
    /\ npc = "top" /\ cur = 0
    /\ ses = [s \in Session |-> NewRPClient]
    /\ fsm = [s \in Session |-> NoManager]
    /\ NowStatus = 0 /\ up = TRUE /\ faults = 0

-----------------------------------------------------------------------------
(* The goroutine of the loop.                                                 *)

S == ses[cur]
Goto(l) == npc' = l

\* Every call of NewConn and SendType, and every new stream: it works, or the
\* server or the link fails it.
Connects == up

\* The top of the loop: the next session. A configuration file is sent first,
\* on a connection of its own.
Top ==
    /\ npc = "top" /\ cur < MaxSession
    /\ cur' = cur + 1
    /\ Goto(IF setup.conf THEN "config" ELSE "new")
    /\ UNCHANGED <<setup, ses, fsm, NowStatus, up, faults>>

SendConfig ==
    /\ npc = "config"
    /\ IF Connects
       THEN fsm' = [fsm EXCEPT ![cur] = NewFileServerManager] /\ Goto("new")
       ELSE Goto("over") /\ UNCHANGED fsm
    /\ UNCHANGED <<setup, cur, ses, NowStatus, up, faults>>

\* Start: the context, NowStatus, and for an old protocol the signal first.
Start ==
    /\ npc = "new"
    /\ NowStatus' = 0
    /\ Goto(IF setup.old THEN "signal" ELSE "chan")
    /\ UNCHANGED <<setup, cur, ses, fsm, up, faults>>

StartSignal ==
    /\ npc = "signal"
    /\ IF Connects
       THEN ses' = [ses EXCEPT ![cur].sig = "up"] /\ Goto("chan")
       ELSE Goto("leave") /\ UNCHANGED ses
    /\ UNCHANGED <<setup, cur, fsm, NowStatus, up, faults>>

\* newChan: the tunnel and its accept loop; an error leaves the tunnel nil.
newChan ==
    /\ npc = "chan"
    /\ ses' = IF Connects THEN [ses EXCEPT ![cur].tun = "up", ![cur].acc = "run"] ELSE ses
    /\ Goto(IF setup.old THEN "ping" ELSE "main")
    /\ UNCHANGED <<setup, cur, fsm, NowStatus, up, faults>>

\* The signal of a new protocol is a stream of the tunnel. Between newChan and
\* this read of s.tunnel the accept loop may have closed the session.
StartMain ==
    /\ npc = "main"
    /\ IF S.tun = "up"
       THEN ses' = [ses EXCEPT ![cur].sig = "up"] /\ Goto("ping")
       ELSE Goto("leave") /\ UNCHANGED ses
    /\ UNCHANGED <<setup, cur, fsm, NowStatus, up, faults>>

StartPing ==
    /\ npc = "ping"
    /\ ses' = [ses EXCEPT ![cur].ping = "run", ![cur].tick = TRUE]
    /\ Goto(IF setup.conf THEN "health" ELSE "online")
    /\ UNCHANGED <<setup, cur, fsm, NowStatus, up, faults>>

StartHealth ==
    /\ npc = "health"
    /\ ses' = [ses EXCEPT ![cur].hc = "run"]
    /\ Goto("online")
    /\ UNCHANGED <<setup, cur, fsm, NowStatus, up, faults>>

Online ==
    /\ npc = "online"
    /\ NowStatus' = 1
    /\ Goto("serve")
    /\ UNCHANGED <<setup, cur, ses, fsm, up, faults>>

\* handleMain looks at the context and then blocks in ReadFlag, which only the
\* signal ends: a message of the server sends it back to the top, an error or
\* the close of the signal makes it return.
handleMain ==
    /\ npc = "serve"
    /\ Goto(IF S.ctx THEN "leave" ELSE "read")
    /\ UNCHANGED <<setup, cur, ses, fsm, NowStatus, up, faults>>

ReadFails ==
    /\ npc = "read" /\ S.sig # "up"
    /\ Goto("leave")
    /\ UNCHANGED <<setup, cur, ses, fsm, NowStatus, up, faults>>

\* The deferred Close of Start: enter closing, or wait for who did.
Leave ==
    /\ npc = "leave"
    /\ \/ S.cl = "no" /\ ses' = [ses EXCEPT ![cur].cl = "status"] /\ UNCHANGED npc
       \/ S.cl = "done" /\ Goto(IF setup.conf THEN "closeall" ELSE "over") /\ UNCHANGED ses
    /\ UNCHANGED <<setup, cur, fsm, NowStatus, up, faults>>

\* fsm.CloseAll after Start returned: it takes the map, shuts each server down
\* and closes its listener.
CloseAll ==
    /\ npc = "closeall"
    /\ fsm' = [fsm EXCEPT ![cur].servers = "nil",
                          ![cur].serve = IF @ = "run" THEN "shut" ELSE @]
    /\ Goto("drained")
    /\ UNCHANGED <<setup, cur, ses, NowStatus, up, faults>>

\* wg.Wait of CloseAll: it waits for the servers the group counts so far.
Drained ==
    /\ npc = "drained" /\ fsm[cur].serve # "shut"
    /\ Goto("over")
    /\ UNCHANGED <<setup, cur, ses, fsm, NowStatus, up, faults>>

\* After a session: five seconds and the next one, or the end of the process;
\* StartClientByVerifyKey returns to its caller, who may call it again.
Over ==
    /\ npc = "over"
    /\ Goto(IF setup.auto \/ setup.sdk THEN "top" ELSE "exit")
    /\ UNCHANGED <<setup, cur, ses, fsm, NowStatus, up, faults>>

-----------------------------------------------------------------------------
(* closing, by whoever entered it; the others wait in once.Do.                *)

CloseStatus(s) ==
    /\ ses[s].cl = "status"
    /\ NowStatus' = 0
    /\ ses' = [ses EXCEPT ![s].cl = IF ses[s].hc = "none" THEN "cancel" ELSE "health"]
    /\ UNCHANGED <<setup, npc, cur, fsm, up, faults>>

\* healthChecker.Stop cancels its loop and waits for it.
CloseHealth(s) ==
    /\ ses[s].cl = "health"
    /\ \/ ses[s].hc = "run" /\ ses' = [ses EXCEPT ![s].hc = "stop"]
       \/ ses[s].hc = "done" /\ ses' = [ses EXCEPT ![s].cl = "cancel"]
    /\ UNCHANGED <<setup, npc, cur, fsm, NowStatus, up, faults>>

CloseCancel(s) ==
    /\ ses[s].cl = "cancel"
    /\ ses' = [ses EXCEPT ![s].ctx = TRUE, ![s].cl = "tunnel"]
    /\ UNCHANGED <<setup, npc, cur, fsm, NowStatus, up, faults>>

\* closeTunnel; a signal that is a stream of it goes with it.
closeTunnel(s) ==
    /\ ses[s].cl = "tunnel"
    /\ ses' = [ses EXCEPT ![s].cl = "signal",
                          ![s].tun = IF @ = "none" THEN @ ELSE "closed",
                          ![s].sig = IF setup.old \/ @ = "none" THEN @ ELSE "dead"]
    /\ UNCHANGED <<setup, npc, cur, fsm, NowStatus, up, faults>>

\* Fault: the signal connection is left open.
CloseSignalLeft(s) ==
    /\ ses[s].cl = "signal"
    /\ ses' = [ses EXCEPT ![s].cl = "done", ![s].tick = FALSE]
    /\ UNCHANGED <<setup, npc, cur, fsm, NowStatus, up, faults>>

\* The signal and the ticker, if Start has set them by now.
CloseSignal(s) ==
    /\ ses[s].cl = "signal"
    /\ ses' = [ses EXCEPT ![s].cl = "done", ![s].tick = FALSE,
                          ![s].sig = IF @ = "none" THEN @ ELSE "closed"]
    /\ UNCHANGED <<setup, npc, cur, fsm, NowStatus, up, faults>>

closing(s) == \/ CloseStatus(s) \/ CloseHealth(s) \/ CloseCancel(s)
              \/ closeTunnel(s) \/ CloseSignal(s)

-----------------------------------------------------------------------------
(* The other goroutines of a session.                                         *)

\* A goroutine g of session s calls Close and ends when closing is done.
ClosesAndEnds(s, g) ==
    \/ ses[s].cl = "no" /\ ses' = [ses EXCEPT ![s].cl = "status"]
    \/ ses[s].cl = "done" /\ ses' = [ses EXCEPT ![s][g] = "done"]

\* The accept loop looks at the context and then blocks in Accept while the
\* tunnel is up; a stream sends it back to the top. When it ends, its deferred
\* Close takes the connection under the tunnel down.
AcceptTop(s) ==
    /\ ses[s].acc = "run"
    /\ ses' = IF ses[s].ctx
              THEN [ses EXCEPT ![s].acc = "done",
                               ![s].tun = IF @ = "up" THEN "dead" ELSE @,
                               ![s].sig = IF setup.old \/ @ = "none" THEN @ ELSE "dead"]
              ELSE [ses EXCEPT ![s].acc = "wait"]
    /\ UNCHANGED <<setup, npc, cur, fsm, NowStatus, up, faults>>

AcceptEnds(s) ==
    /\ ses[s].acc = "wait" /\ ses[s].tun # "up"
    /\ ClosesAndEnds(s, "acc")
    /\ UNCHANGED <<setup, npc, cur, fsm, NowStatus, up, faults>>

isTunnelClosed(s) == ses[s].tun # "up"

Ping(s) ==
    /\ ses[s].ping = "run"
    /\ \/ ses[s].tick /\ isTunnelClosed(s) /\ ClosesAndEnds(s, "ping")
       \/ ses[s].ctx /\ ses' = [ses EXCEPT ![s].ping = "done"]
    /\ UNCHANGED <<setup, npc, cur, fsm, NowStatus, up, faults>>

\* The loop of the health checker ends between two checks.
HealthLoop(s) ==
    /\ ses[s].hc \in {"run", "stop"}
    /\ ses[s].hc = "stop" \/ ses[s].ctx
    /\ ses' = [ses EXCEPT ![s].hc = "done"]
    /\ UNCHANGED <<setup, npc, cur, fsm, NowStatus, up, faults>>

\* Fault: a manager that was closed takes new servers.
StartFileServerAnyway(s) ==
    /\ fsm[s].start = "go"
    /\ fsm' = [fsm EXCEPT ![s].start = "done", ![s].serve = "run"]
    /\ UNCHANGED <<setup, npc, cur, ses, NowStatus, up, faults>>

\* StartFileServer registers the server unless the map is gone.
StartFileServer(s) ==
    /\ fsm[s].start = "go"
    /\ fsm' = IF fsm[s].servers = "open"
              THEN [fsm EXCEPT ![s].start = "add"]
              ELSE [fsm EXCEPT ![s].start = "done"]
    /\ UNCHANGED <<setup, npc, cur, ses, NowStatus, up, faults>>

\* The group and the serving goroutine, after the lock was released: CloseAll
\* may have shut the server down before, and then Serve returns at once.
ServeFiles(s) ==
    /\ fsm[s].start = "add"
    /\ fsm' = [fsm EXCEPT ![s].start = "done",
                          ![s].serve = IF fsm[s].servers = "open" THEN "run" ELSE "shut"]
    /\ UNCHANGED <<setup, npc, cur, ses, NowStatus, up, faults>>

ServeEnds(s) ==
    /\ fsm[s].serve = "shut"
    /\ fsm' = [fsm EXCEPT ![s].serve = "done"]
    /\ UNCHANGED <<setup, npc, cur, ses, NowStatus, up, faults>>

-----------------------------------------------------------------------------
(* The environment.                                                           *)

\* The link of the current session fails, with both connections of an old
\* protocol or with only one of them.
LinkLost ==
    /\ faults < setup.faults /\ cur > 0
    /\ \E lost \in {{"tun"}, {"sig"}, {"tun", "sig"}} :
          /\ \A f \in lost : S[f] = "up"
          /\ setup.old \/ (S.sig = "up" => lost = {"tun", "sig"})
          /\ ses' = [ses EXCEPT ![cur].tun = IF "tun" \in lost THEN "dead" ELSE @,
                                ![cur].sig = IF "sig" \in lost THEN "dead" ELSE @]
    /\ faults' = faults + 1
    /\ UNCHANGED <<setup, npc, cur, fsm, NowStatus, up>>

\* The server stops, taking every connection with it, and comes back.
ServerDown ==
    /\ faults < setup.faults /\ up
    /\ up' = FALSE /\ faults' = faults + 1
    /\ ses' = [s \in Session |->
                 [ses[s] EXCEPT !.tun = IF @ = "up" THEN "dead" ELSE @,
                                !.sig = IF @ = "up" THEN "dead" ELSE @]]
    /\ UNCHANGED <<setup, npc, cur, fsm, NowStatus>>

ServerUp ==
    /\ ~up /\ up' = TRUE
    /\ UNCHANGED <<setup, npc, cur, ses, fsm, NowStatus, faults>>

\* The server opens a stream; handleChan serves it apart.
Accept(s) ==
    /\ ses[s].acc = "wait" /\ ses[s].tun = "up"
    /\ ses' = [ses EXCEPT ![s].acc = "run"]
    /\ UNCHANGED <<setup, npc, cur, fsm, NowStatus, up, faults>>

\* The server asks for a p2p connection (NEW_UDP_CONN), made apart.
NewUdpConn ==
    /\ npc = "read" /\ S.sig = "up"
    /\ Goto("serve")
    /\ UNCHANGED <<setup, cur, ses, fsm, NowStatus, up, faults>>

\* CloseClient of the SDK, from another thread. Between the assignment of cl
\* and the first line of Start the client has no cancel to call.
CloseClient ==
    /\ setup.sdk /\ cur > 0 /\ faults < setup.faults /\ faults' = faults + 1
    /\ npc \notin {"top", "crash"}
    /\ IF npc = "new" THEN Goto("crash") /\ UNCHANGED ses
       ELSE S.cl = "no" /\ ses' = [ses EXCEPT ![cur].cl = "status"] /\ UNCHANGED npc
    /\ UNCHANGED <<setup, cur, fsm, NowStatus, up>>

Loop == \/ Top \/ SendConfig \/ Start \/ StartSignal \/ newChan \/ StartMain
        \/ StartPing \/ StartHealth \/ Online \/ ReadFails \/ Leave
        \/ CloseAll \/ Drained \/ Over

Goroutine(s) == \/ closing(s) \/ AcceptEnds(s) \/ Ping(s) \/ HealthLoop(s)
                \/ StartFileServer(s) \/ ServeFiles(s) \/ ServeEnds(s)

Runs == Loop \/ \E s \in Session : Goroutine(s)

Next == \/ Runs \/ (\E s \in Session : AcceptTop(s) \/ Accept(s))
        \/ handleMain \/ NewUdpConn \/ LinkLost \/ ServerDown \/ ServerUp \/ CloseClient

\* The Go scheduler runs every goroutine, and the server comes back. Each step
\* of Loop and Goroutine is taken finitely often in a session, so that one
\* condition is fair to all of them; the accept loop and handleMain may turn
\* forever.
Spec == /\ Init /\ [][Next]_vars
        /\ WF_vars(Runs) /\ WF_vars(ServerUp) /\ WF_vars(handleMain)
        /\ \A s \in Session : WF_vars(AcceptTop(s))

-----------------------------------------------------------------------------
(* Properties.                                                                *)

TypeOK ==
    /\ setup \in Setups /\ cur \in 0 .. MaxSession /\ NowStatus \in 0 .. 1
    /\ \A s \in Session : ses[s].tun \in {"none", "up", "dead", "closed"}
                       /\ ses[s].sig \in {"none", "up", "dead", "closed"}
                       /\ ses[s].acc \in {"none", "run", "wait", "done"}
    /\ up \in BOOLEAN /\ faults \in 0 .. setup.faults

Connected == npc \in {"serve", "read"} /\ S.sig = "up" /\ S.tun = "up" /\ ~S.ctx

\* With auto reconnection the client is connected for good once the network
\* and the server stop failing: no interleaving of the goroutines of a broken
\* session leaves the loop waiting in it.
Reconnects == setup.auto /\ ~setup.sdk => <>[](Connected \/ (cur = MaxSession /\ npc = "top"))

\* What a session started ends with it and stays so: once closing is done, its
\* goroutines return, its tunnel is gone and its file server is shut down.
SessionEnds ==
    <>[](\A s \in Session : ses[s].cl = "done" =>
            /\ ses[s].acc \notin {"run", "wait"} /\ ses[s].ping # "run" /\ ses[s].hc \notin {"run", "stop"}
            /\ ses[s].tun # "up" /\ fsm[s].serve \notin {"run", "shut"})
=============================================================================
