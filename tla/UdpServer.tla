------------------------------ MODULE UdpServer ------------------------------
(***************************************************************************)
(* The UDP task of nps (server/proxy/udp.go).  One goroutine reads the     *)
(* listener and keeps an entry per user address; each entry has a worker   *)
(* that opens a link to npc and forwards its packets, and a goroutine that *)
(* brings the answers back.  An entry ends by itself when it is idle, when *)
(* its link fails or when the task is stopped.                             *)
(***************************************************************************)
EXTENDS Integers, FiniteSets

CONSTANTS
    Addr,       \* user addresses
    MaxEnt,     \* entries a behaviour may make
    ChanCap,    \* packets an entry's channel holds; 1024 in the code
    UdpSetups   \* see UdpTypeOK

ASSUME BoundsAssumption == {MaxEnt, ChanCap} \subseteq Nat \ {0}

VARIABLES
    udpSetup,   \* the member of UdpSetups this behaviour is about
    udpSrv,     \* "up", "closing": the listener is closed, "closed": so are the entries
    rd,         \* the reading goroutine: what Start is doing, for which entry
    entries,    \* address -> the entry in the map, 0 for none
    ent,        \* entry -> its address, worker, back channel, context, link, packets
    udpNow,     \* NowConn of the client and of the task
    pkts        \* packets received so far

udpVars == <<udpSetup, udpSrv, rd, entries, ent, udpNow, pkts>>

Ent == 1..MaxEnt
NoEnt == [addr |-> "none", pc |-> "none", back |-> "none", done |-> FALSE, conn |-> "none", ch |-> 0]

UdpInit ==
    /\ udpSetup \in UdpSetups
    /\ udpSrv = "up"
    /\ rd = [pc |-> "read", a |-> "none", e |-> 0]
    /\ entries = [a \in Addr |-> 0]
    /\ ent = [e \in Ent |-> NoEnt]
    /\ udpNow = [client |-> 0, task |-> 0]
    /\ pkts = 0

-----------------------------------------------------------------------------
(* Start: the reading loop.                                                *)

ReadFromUDP(a) ==
    /\ rd.pc = "read" /\ udpSrv = "up" /\ pkts < udpSetup.pkts /\ a \in udpSetup.addrs
    /\ pkts' = pkts + 1
    /\ rd' = [rd EXCEPT !.pc = "load", !.a = a]
    /\ UNCHANGED <<udpSetup, udpSrv, entries, ent, udpNow>>

NewEnt == {e \in Ent : ent[e].pc = "none" /\ \A f \in Ent : ent[f].pc = "none" => e <= f}

Offering(e) == rd' = [pc |-> "offer", a |-> "none", e |-> e]

\* Fault: an entry that is done is replaced at once.
ReplacesDone ==
    /\ rd.pc = "load"
    /\ \/ /\ entries[rd.a] # 0 /\ ~ent[entries[rd.a]].done
          /\ Offering(entries[rd.a])
          /\ UNCHANGED <<entries, ent>>
       \/ /\ IF entries[rd.a] = 0 THEN TRUE ELSE ent[entries[rd.a]].done
          /\ \E e \in NewEnt :
                /\ entries' = [entries EXCEPT ![rd.a] = e]
                /\ ent' = [ent EXCEPT ![e] = [NoEnt EXCEPT !.addr = rd.a, !.pc = "check"]]
                /\ Offering(e)
    /\ UNCHANGED <<udpSetup, udpSrv, udpNow, pkts>>

\* The entry of the address is looked up; without one, an entry is made, stored
\* and given a worker.
LoadEntry ==
    /\ rd.pc = "load"
    /\ \/ /\ entries[rd.a] # 0
          /\ Offering(entries[rd.a])
          /\ UNCHANGED <<entries, ent>>
       \/ /\ entries[rd.a] = 0
          /\ \E e \in NewEnt :
                /\ entries' = [entries EXCEPT ![rd.a] = e]
                /\ ent' = [ent EXCEPT ![e] = [NoEnt EXCEPT !.addr = rd.a, !.pc = "check"]]
                /\ Offering(e)
    /\ UNCHANGED <<udpSetup, udpSrv, udpNow, pkts>>

\* The select: by now the entry may be done and its channel full.
Offer ==
    /\ rd.pc = "offer"
    /\ \/ /\ ent[rd.e].done \/ ent[rd.e].ch = ChanCap
          /\ UNCHANGED ent
       \/ /\ ent[rd.e].ch < ChanCap
          /\ ent' = [ent EXCEPT ![rd.e].ch = @ + 1]
    /\ rd' = [pc |-> "read", a |-> "none", e |-> 0]
    /\ UNCHANGED <<udpSetup, udpSrv, entries, udpNow, pkts>>

ReaderEnds ==
    /\ rd.pc = "read" /\ udpSrv # "up"
    /\ rd' = [pc |-> "end", a |-> "none", e |-> 0]
    /\ UNCHANGED <<udpSetup, udpSrv, entries, ent, udpNow, pkts>>

-----------------------------------------------------------------------------
(* clientWorker.                                                           *)

WorkerGoto(e, pc) == ent' = [ent EXCEPT ![e].pc = pc]

\* The flow of the client and NowConn are looked at before it is counted.
WorkerCheckFlow(e) ==
    /\ ent[e].pc = "check"
    /\ WorkerGoto(e, IF udpSetup.max # 0 /\ udpNow.client >= udpSetup.max THEN "cancel" ELSE "add")
    /\ UNCHANGED <<udpSetup, udpSrv, rd, entries, udpNow, pkts>>

WorkerAddConn(e) ==
    /\ ent[e].pc = "add"
    /\ udpNow' = [udpNow EXCEPT !.client = @ + 1]
    /\ WorkerGoto(e, "limits")
    /\ UNCHANGED <<udpSetup, udpSrv, rd, entries, pkts>>

\* The limits of the task: a worker that stops here has not yet deferred the
\* CutConn of the client.
CheckFlowLimits(e) ==
    /\ ent[e].pc = "limits"
    /\ \/ /\ udpSetup.exhausted
          /\ WorkerGoto(e, "cancel")
          /\ UNCHANGED udpNow
       \/ /\ ~udpSetup.exhausted
          /\ udpNow' = [udpNow EXCEPT !.task = @ + 1]
          /\ WorkerGoto(e, "link")
    /\ UNCHANGED <<udpSetup, udpSrv, rd, entries, pkts>>

\* The link to npc is opened and the back channel started.
SendLinkInfo(e) ==
    /\ ent[e].pc = "link"
    /\ \/ ent' = [ent EXCEPT ![e] = [@ EXCEPT !.pc = "loop", !.back = "loop", !.conn = "open"]]
       \/ WorkerGoto(e, "cut")
    /\ UNCHANGED <<udpSetup, udpSrv, rd, entries, udpNow, pkts>>

Forward(e) ==
    /\ ent[e].pc = "loop"
    /\ \/ /\ ent[e].done
          /\ WorkerGoto(e, "cut")
       \/ /\ ent[e].ch > 0
          /\ \/ ent' = [ent EXCEPT ![e].ch = @ - 1]
             \/ /\ ent[e].conn # "open"
                /\ ent' = [ent EXCEPT ![e] = [@ EXCEPT !.ch = ent[e].ch - 1, !.done = TRUE, !.pc = "cut"]]
    /\ UNCHANGED <<udpSetup, udpSrv, rd, entries, udpNow, pkts>>

\* The deferred calls: CutConn of both, cancel, Delete, Close, and the channel
\* is emptied.
WorkerCutConn(e) ==
    /\ ent[e].pc = "cut"
    /\ udpNow' = [client |-> udpNow.client - 1, task |-> udpNow.task - 1]
    /\ WorkerGoto(e, "cancel")
    /\ UNCHANGED <<udpSetup, udpSrv, rd, entries, pkts>>

CancelCtx(e) ==
    /\ ent[e].pc = "cancel"
    /\ ent' = [ent EXCEPT ![e] = [@ EXCEPT !.pc = "delete", !.done = TRUE]]
    /\ UNCHANGED <<udpSetup, udpSrv, rd, entries, udpNow, pkts>>

Delete(e) ==
    /\ ent[e].pc = "delete"
    /\ entries' = [entries EXCEPT ![ent[e].addr] = 0]
    /\ WorkerGoto(e, "close")
    /\ UNCHANGED <<udpSetup, udpSrv, rd, udpNow, pkts>>

CloseConn(e) ==
    /\ ent[e].pc = "close"
    /\ ent' = [ent EXCEPT ![e] = [@ EXCEPT !.pc = "end", !.ch = 0,
                                           !.conn = IF ent[e].conn = "none" THEN "none" ELSE "closed"]]
    /\ UNCHANGED <<udpSetup, udpSrv, rd, entries, udpNow, pkts>>

clientWorker(e) ==
    \/ WorkerCheckFlow(e) \/ WorkerAddConn(e) \/ CheckFlowLimits(e) \/ SendLinkInfo(e) \/ Forward(e)
    \/ WorkerCutConn(e) \/ CancelCtx(e) \/ Delete(e) \/ CloseConn(e)

\* Fault: the back channel is read without a deadline.
NeverTimesOut(e) ==
    /\ ent[e].back = "loop" /\ (ent[e].conn # "open" \/ ent[e].done)
    /\ ent' = [ent EXCEPT ![e] = [@ EXCEPT !.back = "end", !.done = TRUE]]
    /\ UNCHANGED <<udpSetup, udpSrv, rd, entries, udpNow, pkts>>

\* The back channel: an error, of its link or of the write to a closed listener,
\* or nothing for readTimeout.  An answer it passes on changes nothing here.
BackEnds(e) ==
    /\ ent[e].back = "loop"
    /\ ent' = [ent EXCEPT ![e] = [@ EXCEPT !.back = "end", !.done = TRUE]]
    /\ UNCHANGED <<udpSetup, udpSrv, rd, entries, udpNow, pkts>>

LinkLost(e) ==
    /\ ent[e].conn = "open" /\ udpSetup.lossy
    /\ ent' = [ent EXCEPT ![e].conn = "lost"]
    /\ UNCHANGED <<udpSetup, udpSrv, rd, entries, udpNow, pkts>>

-----------------------------------------------------------------------------
(* Close: the listener, then the entries that are in the map.              *)

CloseUdpListener ==
    /\ udpSetup.close /\ udpSrv = "up"
    /\ udpSrv' = "closing"
    /\ UNCHANGED <<udpSetup, rd, entries, ent, udpNow, pkts>>

CloseEntries ==
    /\ udpSrv = "closing"
    /\ ent' = [e \in Ent |-> IF \E a \in Addr : entries[a] = e THEN [ent[e] EXCEPT !.done = TRUE]
                                                              ELSE ent[e]]
    /\ udpSrv' = "closed"
    /\ UNCHANGED <<udpSetup, rd, entries, udpNow, pkts>>

Reader == LoadEntry \/ Offer \/ ReaderEnds

UdpNext ==
    \/ \E a \in Addr : ReadFromUDP(a)
    \/ Reader
    \/ \E e \in Ent : clientWorker(e) \/ BackEnds(e) \/ LinkLost(e)
    \/ CloseUdpListener \/ CloseEntries

\* Goroutines run, and a back channel without answers times out.
UdpFairness ==
    /\ WF_udpVars(udpSetup.addrs # {} /\ Reader) /\ WF_udpVars(CloseEntries)
    /\ \A e \in Ent : WF_udpVars(ent[e].addr # "none" /\ (clientWorker(e))) /\ WF_udpVars(BackEnds(e))

UdpSpec == UdpInit /\ [][UdpNext]_udpVars /\ UdpFairness

-----------------------------------------------------------------------------

\* Types: a setup says who sends, how many packets, how many connections the
\* client may have (0 for any number), whether the task's own limits are used up, whether links may be
\* lost and whether the task may be stopped.
UdpTypeOK ==
    /\ udpSetup \in [addrs : SUBSET Addr, pkts : 0..MaxEnt, max : Nat, exhausted : BOOLEAN, lossy : BOOLEAN, close : BOOLEAN]
    /\ entries \in [Addr -> 0..MaxEnt]
    /\ \A e \in Ent : ent[e].ch \in 0..ChanCap

\* clientWorker: when no worker is left, NowConn is back at 0.
LiveCount ==
    (\A e \in Ent : ent[e].pc \in {"none", "end"}) => udpNow = [client |-> 0, task |-> 0]

\* Start and clientWorker: an entry that takes packets is the one the map has
\* for its address, so an address never has two workers that both forward.
OneWorker ==
    \A e \in Ent :
        ent[e].pc \notin {"none", "close", "end"} => entries[ent[e].addr] = e

\* Close: every worker and back channel ends and every link is closed, those
\* of an entry that Close's walk through the map did not see included.
StopEndsAll ==
    udpSrv = "closing" ~> \A e \in Ent :
        ent[e].pc \in {"none", "end"} /\ ent[e].back # "loop" /\ ent[e].conn \notin {"open", "lost"}
=============================================================================
