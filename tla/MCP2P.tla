------------------------------- MODULE MCP2P -------------------------------
(***************************************************************************)
(* Small instances of the peer-to-peer tunnel: how the two ends find a     *)
(* path (P2PPunch) and how the visitor's manager keeps one (P2PManager).   *)
(* A behaviour is about one of them, and the other stays as it is.         *)
(***************************************************************************)
EXTENDS P2PPunch, P2PManager

CONSTANTS r1, r2

VARIABLE part       \* "punch" or "manager"

-----------------------------------------------------------------------------
(* The hole: every kind of NAT with the exchange losing up to one packet,  *)
(* nps forgetting what it heard, and an earlier attempt that nps remembers *)
(* while both ends may time out.                                           *)

Nats(v, p) == [visitor |-> v, provider |-> p]
Network(n, lan, stale, loss, timeout) ==
    [nat |-> n, lan |-> lan, stale |-> stale, loss |-> loss, timeout |-> timeout]
Remembered == Network(Nats("port", "port"), FALSE, TRUE, 0, End)

MCNetworks ==
    {Network(Nats("full", "full"), FALSE, FALSE, 0, {}),
     Network(Nats("port", "port"), FALSE, FALSE, 1, {}),
     Network(Nats("port", "port"), TRUE, FALSE, 0, {}),
     Network(Nats("full", "port"), FALSE, FALSE, 0, {}),
     Network(Nats("sym", "port"), FALSE, FALSE, 0, {}),
     Network(Nats("port", "sym"), FALSE, FALSE, 0, {}),
     Network(Nats("sym", "sym"), FALSE, FALSE, 1, {}),
     Network(Nats("port", "port"), FALSE, FALSE, 1, {"nps"}),
     Remembered}

-----------------------------------------------------------------------------
(* The manager: QUIC breaking twice, KCP, both kinds, one caller with      *)
(* everything else, and two callers with the control connection alone.     *)

Calls == {r1, r2}
Manager(p2p, secret, modes, reqs, n, close) ==
    [p2p |-> p2p, secret |-> secret, modes |-> modes, reqs |-> reqs, faults |-> n, close |-> close]
Fallback == Manager(FALSE, TRUE, {}, Calls, 1, TRUE)

MCManagerSetups ==
    {Manager(TRUE, FALSE, {"quic"}, {r1}, 2, FALSE),
     Manager(TRUE, FALSE, {"kcp"}, Calls, 1, FALSE),
     Manager(TRUE, FALSE, {"quic", "kcp"}, Calls, 1, FALSE),
     Manager(TRUE, TRUE, {"quic"}, {r1}, 1, TRUE),
     Fallback}

-----------------------------------------------------------------------------

MCInit ==
    /\ part \in {"punch", "manager"}
    /\ IF part = "punch" THEN TRUE ELSE network = Remembered
    /\ IF part = "manager" THEN TRUE ELSE mSetup = Fallback
    /\ PunchInit /\ ManagerInit

MCNext ==
    /\ UNCHANGED part
    /\ \/ part = "punch" /\ PunchNext /\ UNCHANGED managerVars
       \/ part = "manager" /\ ManagerNext /\ UNCHANGED punchVars

\* The fairness of each module, for the one the behaviour is about.
MCSpec ==
    /\ MCInit /\ [][MCNext]_<<part, punchVars, managerVars>>
    /\ WF_punchVars(part = "punch" /\ Progress)
    /\ \A e \in End : /\ WF_punchVars(part = "punch" /\ SendTargets(e))
                      /\ WF_punchVars(part = "punch" /\ SendFromAll(e))
                      /\ WF_punchVars(part = "punch" /\ SendLocal(e))
                      /\ WF_punchVars(part = "punch" /\ \E pk \in net : OnConnect(e, pk))
    /\ \A r \in Calls : WF_managerVars(part = "manager" /\ (SendStep(r) \/ TimedOut(r)))
    /\ WF_managerVars(part = "manager" /\ CheckStatus) /\ WF_managerVars(part = "manager" /\ MonitorTries)
    /\ WF_managerVars(part = "manager" /\ Once)
=============================================================================
