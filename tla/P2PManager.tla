----------------------------- MODULE P2PManager -----------------------------
(***************************************************************************)
(* The visitor's P2PManager (client/local.go): the tunnel to the provider  *)
(* that every local connection shares.  A monitor punches a hole and       *)
(* publishes the tunnel (a QUIC connection, or a KCP session with a mux),  *)
(* the callers of SendLinkInfo open streams on what they find published    *)
(* and report how it went through resetStatus, and the control connection  *)
(* to nps (secretConn) is shared by the callers, who fall back to it, and  *)
(* the monitor.  Everything shared is guarded by mu, one access at a time: *)
(* what a caller has read may be replaced before it uses it.               *)
(***************************************************************************)
EXTENDS Integers, FiniteSets

CONSTANTS
    Req,        \* calls of SendLinkInfo
    MaxTun,     \* tunnels punched in a behaviour
    MaxSec,     \* control connections dialled in a behaviour
    MaxTick,    \* turns of SendLinkInfo's loop, a turn every 10 ms for 1 s
    Tries,      \* attempts of the monitor in a row; 3 in the code
    NatLimit,   \* natHardFailLimit; 6 in the code
    ManagerSetups      \* what a behaviour is about, see ManagerTypeOK

VARIABLES
    mSetup,      \* the member of ManagerSetups this behaviour is about
    mgr,        \* the fields of P2PManager under mu; 0 stands for nil
    tun,        \* tunnel -> "none", "live", "silent" (not noticed yet), "dead", "closed"
    sec,        \* control connection -> "none", "live", "dead", "closed"
    mon,        \* handleUdpMonitor and the newUdpConn it calls
    req,        \* the calls of SendLinkInfo
    srv,        \* the local server: "none", "starting", "up", "closed"
    closing,    \* "no", "closing" (ctx cancelled), "snap" (fields read), "closed"
    faults      \* tunnels that broke, punches that failed, connections that broke

managerVars == <<mSetup, mgr, tun, sec, mon, req, srv, closing, faults>>

Tun == 1..MaxTun
Sec == 1..MaxSec

Open(t) == tun[t] \in {"live", "silent"}
Works(x) == x # 0 /\ sec[x] = "live"
NewTun == CHOOSE t \in Tun : tun[t] = "none"
NewSec == CHOOSE x \in Sec : sec[x] = "none"

Idle == [pc |-> "idle", n |-> 0, q |-> 0, m |-> 0, x |-> 0, next |-> "tick"]

ManagerInit ==
    /\ mSetup \in ManagerSetups
    /\ mgr = [status |-> FALSE, ch |-> FALSE, udp |-> 0, mux |-> 0, quic |-> 0, secret |-> 0]
    /\ tun = [t \in Tun |-> "none"]
    /\ sec = [x \in Sec |-> "none"]
    /\ srv = "none"
    /\ mon = [pc |-> "end", i |-> 0, x |-> 0, t |-> 0,
              kind |-> "quic", nat |-> 0, disabled |-> FALSE]
    /\ req = [r \in Req |-> Idle]
    /\ closing = "no"
    /\ faults = 0

Fault == faults < mSetup.faults /\ faults' = faults + 1

-----------------------------------------------------------------------------
(* resetStatus, as the field update that its callers make.                 *)

resetStatus(m, ok) == [m EXCEPT !.status = ok, !.ch = m.ch \/ (~ok /\ m.status)]

\* Closing a tunnel that is closed does nothing.
CloseTun(f, ts) == [t \in Tun |-> IF t \in ts /\ f[t] # "none" THEN "closed" ELSE f[t]]

-----------------------------------------------------------------------------
(* StartLocalServer: ctx is looked at first; then the monitor, if the local *)
(* server wants one, and the server are started.                           *)

StartLocalServer ==
    /\ srv = "none" /\ closing = "no"
    /\ srv' = "starting"
    /\ UNCHANGED <<mSetup, mgr, tun, sec, mon, req, closing, faults>>

RunLocalServer ==
    /\ srv = "starting"
    /\ srv' = "up"
    /\ mon' = [mon EXCEPT !.pc = IF mSetup.p2p THEN "wait" ELSE "end"]
    /\ UNCHANGED <<mSetup, mgr, tun, sec, req, closing, faults>>

-----------------------------------------------------------------------------
(* SendLinkInfo                                                            *)

\* Between turns, and at the end, what the last turn has read is dead.
Goto(r, pc) ==
    [req EXCEPT ![r] =
        IF pc \in {"tick", "ok", "failed"}
        THEN [Idle EXCEPT !.pc = pc, !.n = IF pc = "tick" THEN req[r].n ELSE 0]
        ELSE [req[r] EXCEPT !.pc = pc]]

\* Where a turn goes after the step `after'.
NextVia(c, after) ==
    CASE after = "tick" /\ mSetup.p2p /\ c.q # 0 -> "quic"
      [] after \in {"tick", "quic"} /\ mSetup.p2p /\ c.m # 0 -> "kcp"
      [] mSetup.secret -> "secret"
      [] OTHER -> "tick"

SendLinkInfo(r) ==
    /\ r \in mSetup.reqs /\ req[r].pc = "idle" /\ srv = "up" /\ closing = "no"
    /\ req' = Goto(r, "tick")
    /\ UNCHANGED <<mSetup, mgr, tun, sec, mon, srv, closing, faults>>

\* The tick: quicConn and muxSession are read under mu.
Tick(r) ==
    /\ req[r].pc = "tick" /\ req[r].n < MaxTick
    /\ LET c == [req[r] EXCEPT !.n = @ + 1, !.q = mgr.quic, !.m = mgr.mux]
       IN  req' = [req EXCEPT ![r] = [c EXCEPT !.pc = NextVia(c, "tick")]]
    /\ UNCHANGED <<mSetup, mgr, tun, sec, mon, srv, closing, faults>>

\* The 1 s are over, or the manager is closed: statusOK is cleared and the
\* monitor is not signalled.
TimedOut(r) ==
    /\ req[r].pc = "tick" /\ (req[r].n > 0 \/ closing # "no")
    /\ mgr' = [mgr EXCEPT !.status = FALSE]
    /\ req' = Goto(r, "failed")
    /\ UNCHANGED <<mSetup, tun, sec, mon, srv, closing, faults>>

\* A stream on the tunnel this turn has read.  A tunnel that broke unnoticed
\* takes a QUIC stream unless an ACK is asked for; a KCP mux waits for its peer.
sendVia(r) ==
    /\ req[r].pc \in {"quic", "kcp"}
    /\ LET via == req[r].pc
           t == IF via = "quic" THEN req[r].q ELSE req[r].m
       IN  \/ /\ tun[t] = "live" \/ (tun[t] = "silent" /\ via = "quic")
              /\ req' = [req EXCEPT ![r].pc = "report", ![r].next = "ok", ![r].q = 0, ![r].m = 0]
           \/ /\ tun[t] # "live" \/ closing # "no"
              /\ req' = [req EXCEPT ![r].pc = "report", ![r].next = NextVia(req[r], via), ![r].q = 0]
    /\ UNCHANGED <<mSetup, mgr, tun, sec, mon, srv, closing, faults>>

Report(r) ==
    /\ req[r].pc = "report"
    /\ mgr' = resetStatus(mgr, req[r].next = "ok")
    /\ req' = Goto(r, req[r].next)
    /\ UNCHANGED <<mSetup, tun, sec, mon, srv, closing, faults>>

\* sendViaSecret, getSecretConn: the shared control connection is read under mu,
\* then used.
getSecretConn(r) ==
    /\ req[r].pc = "secret"
    /\ req' = [req EXCEPT ![r].x = mgr.secret, ![r].pc = IF mgr.secret = 0 THEN "dial" ELSE "use"]
    /\ UNCHANGED <<mSetup, mgr, tun, sec, mon, srv, closing, faults>>

\* A stream on it; one that does not work is closed.
UseSecret(r) ==
    /\ req[r].pc = "use"
    /\ \/ /\ Works(req[r].x)
          /\ req' = Goto(r, "hello")
          /\ UNCHANGED sec
       \/ /\ ~Works(req[r].x)
          /\ req' = Goto(r, "forget")
          /\ sec' = [sec EXCEPT ![req[r].x] = "closed"]
    /\ UNCHANGED <<mSetup, mgr, tun, mon, srv, closing, faults>>

\* secretConn is cleared, whatever it is by now.
ForgetSecret(r) ==
    /\ req[r].pc = "forget"
    /\ mgr' = [mgr EXCEPT !.secret = 0]
    /\ req' = Goto(r, "dial")
    /\ UNCHANGED <<mSetup, tun, sec, mon, srv, closing, faults>>

DialSecret(r) ==
    /\ req[r].pc = "dial"
    /\ \/ /\ \E x \in Sec : sec[x] = "none"
          /\ sec' = [sec EXCEPT ![NewSec] = "live"]
          /\ req' = [req EXCEPT ![r].x = NewSec, ![r].pc = "publish"]
          /\ UNCHANGED faults
       \/ Fault /\ req' = Goto(r, "tick") /\ UNCHANGED sec
    /\ UNCHANGED <<mSetup, mgr, tun, mon, srv, closing>>

PublishSecret(r) ==
    /\ req[r].pc = "publish"
    /\ mgr' = [mgr EXCEPT !.secret = req[r].x]
    /\ req' = Goto(r, "hello")
    /\ UNCHANGED <<mSetup, tun, sec, mon, srv, closing, faults>>

\* WORK_SECRET, the password, the link: on the stream the call holds.
SecretLink(r) ==
    /\ req[r].pc = "hello"
    /\ req' = Goto(r, IF Works(req[r].x) THEN "ok" ELSE "tick")
    /\ UNCHANGED <<mSetup, mgr, tun, sec, mon, srv, closing, faults>>

SendStep(r) ==
    \/ Tick(r) \/ sendVia(r) \/ Report(r)
    \/ getSecretConn(r) \/ UseSecret(r) \/ ForgetSecret(r) \/ DialSecret(r)
    \/ PublishSecret(r) \/ SecretLink(r)

-----------------------------------------------------------------------------
(* handleUdpMonitor                                                        *)

\* Fault: a connection is taken for a working one whatever its callers report.
HealthyByConn == mgr.udp # 0 \/ (mgr.quic # 0 /\ Open(mgr.quic))

Healthy == mgr.status /\ (mgr.udp # 0 \/ (mgr.quic # 0 /\ Open(mgr.quic)))

\* A tick of 1 s, or a signal of resetStatus.
CheckStatus ==
    /\ mon.pc = "wait" /\ closing = "no"
    /\ \/ /\ Healthy
          /\ mgr' = [mgr EXCEPT !.ch = FALSE]
          /\ mon' = [mon EXCEPT !.nat = 0, !.disabled = FALSE]
          /\ UNCHANGED tun
       \/ /\ ~Healthy
          /\ mgr' = [mgr EXCEPT !.ch = FALSE, !.udp = 0, !.quic = 0]
          /\ tun' = CloseTun(tun, {mgr.udp, mgr.quic})
          /\ mon' = [mon EXCEPT !.pc = IF mon.disabled THEN "wait" ELSE "try",
                                !.i = IF mon.disabled THEN 0 ELSE 1]
    /\ UNCHANGED <<mSetup, sec, req, srv, closing, faults>>

\* An attempt: newUdpConn reads secretConn for a stream to nps.
TrySnapshot ==
    /\ mon.pc = "try"
    /\ mon' = [mon EXCEPT !.x = mgr.secret,
                          !.pc = CASE closing # "no" -> "end"
                                   [] closing = "no" /\ mgr.secret = 0 -> "ask"
                                   [] OTHER -> "use"]
    /\ UNCHANGED <<mSetup, mgr, tun, sec, req, srv, closing, faults>>

\* The stream; secretConn is read once more, without mu.
TryUse ==
    /\ mon.pc = "use"
    /\ \/ /\ Works(mgr.secret)
          /\ mon' = [mon EXCEPT !.pc = "ask"]
          /\ UNCHANGED sec
       \/ /\ ~Works(mgr.secret)
          /\ mon' = [mon EXCEPT !.pc = "forget"]
          /\ sec' = IF mgr.secret = 0 THEN sec ELSE [sec EXCEPT ![mgr.secret] = "closed"]
    /\ UNCHANGED <<mSetup, mgr, tun, req, srv, closing, faults>>

TryForget ==
    /\ mon.pc = "forget"
    /\ mgr' = [mgr EXCEPT !.secret = 0]
    /\ mon' = [mon EXCEPT !.pc = "ask"]
    /\ UNCHANGED <<mSetup, tun, sec, req, srv, closing, faults>>

\* The request to nps and HandleUDP, on the stream or on a connection of its
\* own: a hole and a session through it, a NAT that does not allow it, or any
\* other failure.
TryPunch ==
    /\ mon.pc = "ask"
    /\ \/ /\ \E t \in Tun : tun[t] = "none"
          /\ tun' = [tun EXCEPT ![NewTun] = "live"]
          /\ \E k \in mSetup.modes :
                mon' = [mon EXCEPT !.pc = "publish", !.t = NewTun, !.kind = k]
          /\ UNCHANGED faults
       \/ /\ Fault /\ UNCHANGED tun
          /\ \E hard \in {0, 1} : mon' = [mon EXCEPT !.pc = "tried", !.nat = @ + hard]
       \/ /\ closing # "no" /\ UNCHANGED <<tun, faults>>
          /\ mon' = [mon EXCEPT !.pc = "tried"]
    /\ UNCHANGED <<mSetup, mgr, sec, req, srv, closing>>

\* Fault: the QUIC connection that the new tunnel replaces stays open.
PublishKeepsQuic ==
    /\ mon.pc = "publish"
    /\ tun' = CloseTun(tun, {mgr.udp, mgr.mux})
    /\ mgr' = IF mon.kind = "quic"
              THEN [mgr EXCEPT !.quic = mon.t, !.udp = 0, !.mux = 0, !.status = TRUE]
              ELSE [mgr EXCEPT !.udp = mon.t, !.mux = mon.t, !.status = TRUE]
    /\ mon' = [mon EXCEPT !.pc = "tried", !.t = 0]
    /\ UNCHANGED <<mSetup, sec, req, srv, closing, faults>>

\* The end of newUdpConn, under mu.
Publish ==
    /\ mon.pc = "publish"
    /\ tun' = CloseTun(tun, {mgr.udp, mgr.mux, mgr.quic})
    /\ mgr' = IF mon.kind = "quic"
              THEN [mgr EXCEPT !.quic = mon.t, !.udp = 0, !.mux = 0, !.status = TRUE]
              ELSE [mgr EXCEPT !.udp = mon.t, !.mux = mon.t, !.status = TRUE]
    /\ mon' = [mon EXCEPT !.pc = "tried", !.t = 0]
    /\ UNCHANGED <<mSetup, sec, req, srv, closing, faults>>

\* The attempt is over: the next one, unless statusOK says it worked.
Tried ==
    /\ mon.pc = "tried"
    /\ mon' = [mon EXCEPT !.x = 0, !.kind = "quic",
                          !.i = IF mgr.status \/ mon.i = Tries THEN 0 ELSE @ + 1,
                          !.pc = IF mgr.status \/ mon.i = Tries THEN "verdict" ELSE "try"]
    /\ UNCHANGED <<mSetup, mgr, tun, sec, req, srv, closing, faults>>

\* After NatLimit failures of that kind no more holes are punched.
Verdict ==
    /\ mon.pc = "verdict"
    /\ mon' = [mon EXCEPT !.pc = "wait",
                          !.disabled = @ \/ (~mgr.status /\ mon.nat >= NatLimit)]
    /\ UNCHANGED <<mSetup, mgr, tun, sec, req, srv, closing, faults>>

MonitorEnds ==
    /\ mon.pc = "wait" /\ closing # "no"
    /\ mon' = [mon EXCEPT !.pc = "end"]
    /\ UNCHANGED <<mSetup, mgr, tun, sec, req, srv, closing, faults>>

MonitorTries ==
    \/ TrySnapshot \/ TryUse \/ TryForget \/ TryPunch \/ Publish \/ Tried \/ Verdict
    \/ MonitorEnds

-----------------------------------------------------------------------------
(* Close, and what breaks by itself.                                       *)

Cancel ==
    /\ closing = "no" /\ mSetup.close
    /\ closing' = "closing"
    /\ UNCHANGED <<mSetup, mgr, tun, sec, mon, req, srv, faults>>

CloseAll ==
    /\ closing = "closing"
    /\ tun' = CloseTun(tun, {mgr.udp, mgr.mux, mgr.quic})
    /\ sec' = [x \in Sec |-> IF x = mgr.secret THEN "closed" ELSE sec[x]]
    /\ srv' = IF srv = "up" THEN "closed" ELSE srv
    /\ closing' = "snap"
    /\ UNCHANGED <<mSetup, mgr, mon, req, faults>>

\* wg.Wait: the monitor and the local servers.
Closed ==
    /\ closing = "snap" /\ mon.pc = "end" /\ srv # "up"
    /\ \A r \in Req : req[r].pc \in {"idle", "ok", "failed"}
    /\ closing' = "closed"
    /\ UNCHANGED <<mSetup, mgr, tun, sec, mon, req, srv, faults>>

TunnelBreaks(t) ==
    /\ Fault /\ tun[t] = "live"
    /\ tun' = [tun EXCEPT ![t] = "silent"]
    /\ UNCHANGED <<mSetup, mgr, sec, mon, req, srv, closing>>

\* The idle timeout of the QUIC connection, the ping of the mux.
BreakNoticed(t) ==
    /\ tun[t] = "silent"
    /\ tun' = [tun EXCEPT ![t] = "dead"]
    /\ UNCHANGED <<mSetup, mgr, sec, mon, req, srv, closing, faults>>

SecretBreaks(x) ==
    /\ Fault /\ sec[x] = "live"
    /\ sec' = [sec EXCEPT ![x] = "dead"]
    /\ UNCHANGED <<mSetup, mgr, tun, mon, req, srv, closing>>

\* What happens a finite number of times: the server starts, Close is carried
\* out, a broken tunnel is noticed.
Once == StartLocalServer \/ RunLocalServer \/ CloseAll \/ Closed \/ \E t \in Tun : BreakNoticed(t)

ManagerNext ==
    \/ \E r \in Req : SendLinkInfo(r) \/ SendStep(r) \/ TimedOut(r)
    \/ Once \/ CheckStatus \/ MonitorTries \/ Cancel
    \/ \E t \in Tun : TunnelBreaks(t)
    \/ \E x \in Sec : SecretBreaks(x)

\* Go schedules every goroutine, the ticker keeps ticking and a broken tunnel is
\* noticed.
ManagerFairness ==
    /\ \A r \in Req : WF_managerVars(SendStep(r) \/ TimedOut(r))
    /\ WF_managerVars(CheckStatus) /\ WF_managerVars(MonitorTries)
    /\ WF_managerVars(Once)

ManagerSpec == ManagerInit /\ [][ManagerNext]_managerVars /\ ManagerFairness

-----------------------------------------------------------------------------

\* Types: a mSetup says whether the local server uses P2P, whether it falls back
\* to the control connection, the kinds of tunnel the provider offers, the calls
\* made, how much breaks and whether the manager is closed.
ManagerTypeOK ==
    /\ mSetup \in [p2p : BOOLEAN, secret : BOOLEAN, modes : SUBSET {"quic", "kcp"},
                  reqs : SUBSET Req, faults : Nat, close : BOOLEAN]
    /\ mgr \in [status : BOOLEAN, ch : BOOLEAN, udp : Tun \cup {0}, mux : Tun \cup {0},
                quic : Tun \cup {0}, secret : Sec \cup {0}]
    /\ tun \in [Tun -> {"none", "live", "silent", "dead", "closed"}]
    /\ sec \in [Sec -> {"none", "live", "dead", "closed"}]

\* newUdpConn and handleUdpMonitor: whoever replaces or clears a published
\* tunnel closes it, so every open tunnel is the published one or the one about
\* to be published, however reports about older tunnels interleave.
OneTunnel ==
    \A t \in Tun : Open(t) => t \in {mgr.udp, mgr.quic, mon.t}

\* handleUdpMonitor: after a reported failure a tunnel nobody has closed is
\* published again with statusOK, unless the NATs have been found too hard or the
\* manager is closed; a late report about an older tunnel only delays this.
Recovers ==
    (mSetup.p2p /\ ~mgr.status) ~>
        \/ mgr.status /\ \E t \in Tun : t \in {mgr.udp, mgr.quic} /\ tun[t] # "closed"
        \/ mon.disabled \/ closing # "no"
        \/ \A t \in Tun : tun[t] # "none"
=============================================================================
