------------------------------- MODULE MCNpc -------------------------------
(***************************************************************************)
(* Small instances of npc and of what it does with the bridge: its life    *)
(* cycle (Npc), the handshake of a connection (Handshake) and the health   *)
(* of its targets (HealthTargets).  A behaviour is about one of them, and  *)
(* the other two stay as they are.                                         *)
(***************************************************************************)
EXTENDS Npc, Handshake, TLC

CONSTANTS HealthCheckTarget, Tunnel, Tcp, Visitor, Within, MaxMsgs

VARIABLES
    part,       \* "npc", "handshake" or "health"
    tSetup, turn, alive, hm, link, sig, tSrv, tun, vis, crash, flips, losses, missed

tVars == <<tSetup, turn, alive, hm, link, sig, tSrv, tun, vis, crash, flips, losses, missed>>

-----------------------------------------------------------------------------
(* npc: the command line, the configuration file and the SDK, with an old  *)
(* and a new protocol.                                                     *)

Sdk == [old |-> FALSE, conf |-> FALSE, auto |-> FALSE, sdk |-> TRUE, faults |-> 1]

MCSetups ==
    {[old |-> o, conf |-> c, auto |-> TRUE, sdk |-> FALSE, faults |-> IF c THEN 1 ELSE 2] : o, c \in BOOLEAN}
    \cup {[old |-> FALSE, conf |-> TRUE, auto |-> FALSE, sdk |-> FALSE, faults |-> 1], Sdk}

-----------------------------------------------------------------------------
(* The handshake: every version with every request, each refusal, and      *)
(* configuration files of a host and two tasks.                            *)

Base == [ver |-> 8, known |-> TRUE, on |-> TRUE, secure |-> FALSE, fresh |-> TRUE,
         tp |-> "tls", cert |-> "pinned", skip |-> FALSE, pub |-> FALSE, allow |-> TRUE,
         peer |-> TRUE, want |-> "main", items |-> <<>>, faults |-> FALSE]

Item(m, n) == [mode |-> m, ports |-> n]

Versions == {[Base EXCEPT !.ver = v, !.want = w, !.secure = sec]
                : v \in 0 .. Latest + 1, w \in Wants, sec \in BOOLEAN}

Refusals == {[Base EXCEPT !.ver = v, !.known = k, !.on = o, !.secure = sec, !.fresh = f,
                          !.cert = c, !.tp = tp, !.faults = TRUE]
                : v \in {0, 1, 2, 8}, k \in BOOLEAN, o \in BOOLEAN, sec \in BOOLEAN,
                  f \in BOOLEAN, c \in {"verified", "pinned", "other"}, tp \in {"tcp", "quic"}}

Grants == {[Base EXCEPT !.want = w, !.pub = p, !.allow = a, !.peer = q, !.faults = f]
                : w \in Wants, p \in BOOLEAN, a \in BOOLEAN, q \in BOOLEAN, f \in BOOLEAN}

Configs == {[Base EXCEPT !.ver = v, !.want = "conf", !.pub = p, !.faults = f,
                         !.items = <<Item("host", 1), Item("task", 1), Item("task", 1)>>]
                : v \in {0, 8}, p \in BOOLEAN, f \in BOOLEAN}

HandshakeSetups == Versions \cup Refusals \cup Grants \cup Configs

-----------------------------------------------------------------------------
(* Health: a tunnel with two targets and a host that shares one of them.   *)

Checks == <<"a", "b">>
MCTunnel == {"tun", "host"}
MCVisitor == {"v1", "v2"}
Same == {<<t, t>> : t \in {"a", "b"}}
NoEdit == [u \in {} |-> <<>>]

Lines(tunnel, host) == ("tun" :> tunnel) @@ ("host" :> host)
Watched == [lines |-> Lines(<<"a", "b">>, <<"b">>), edit |-> NoEdit, visits |-> {},
            maxFail |-> 2, flips |-> 2, losses |-> 1]

HealthSetups == {
    Watched,
    [Watched EXCEPT !.visits = {"v1"} \X {"tun"}, !.maxFail = 1, !.losses = 0],
    [Watched EXCEPT !.visits = {"v1"} \X {"tun"}, !.maxFail = 1, !.losses = 0, !.flips = 1,
                    !.edit = "tun" :> <<"b">>],
    [Watched EXCEPT !.visits = MCVisitor \X {"tun"}, !.maxFail = 1, !.losses = 0, !.flips = 1,
                    !.lines = Lines(<<"b">>, <<>>)] }

T == INSTANCE HealthTargets WITH Setups <- HealthSetups, setup <- tSetup, srv <- tSrv

-----------------------------------------------------------------------------

MCInit ==
    /\ part \in {"npc", "handshake", "health"}
    /\ IF part = "npc" THEN TRUE ELSE setup = Sdk
    /\ IF part = "handshake" THEN TRUE ELSE pair = [Base EXCEPT !.faults = TRUE]
    /\ IF part = "health" THEN TRUE ELSE tSetup = Watched
    /\ Init /\ HandshakeInit /\ T!Init

MCNext ==
    /\ UNCHANGED part
    /\ \/ part = "npc" /\ Next /\ UNCHANGED <<hVars, tVars>>
       \/ part = "handshake" /\ HandshakeNext /\ UNCHANGED <<vars, tVars>>
       \/ part = "health" /\ T!Next /\ UNCHANGED <<vars, hVars>>

\* The fairness of each module, for the one the behaviour is about.
MCSpec ==
    /\ MCInit /\ [][MCNext]_<<part, vars, hVars, tVars>>
    /\ WF_vars(part = "npc" /\ Runs) /\ WF_vars(part = "npc" /\ ServerUp)
    /\ WF_vars(part = "npc" /\ handleMain)
    /\ \A s \in Session : WF_vars(part = "npc" /\ AcceptTop(s))
    /\ WF_hVars(part = "handshake" /\ ClientRuns) /\ WF_hVars(part = "handshake" /\ ServerRuns)
    /\ WF_tVars(part = "health" /\ T!doCheck) /\ WF_tVars(part = "health" /\ T!NewHealthChecker)
    /\ WF_tVars(part = "health" /\ T!GetHealthFromClient)
    /\ \A v \in Visitor : WF_tVars(part = "health" /\ T!GetRandomTarget(v))

\* GetHealthFromClient, doCheck and GetRandomTarget: once the targets stop
\* changing, a rotation is made of its living targets.
RotationFollows == T!RotationFollows
=============================================================================
