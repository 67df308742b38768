------------------------------ MODULE MCBridge ------------------------------
(***************************************************************************)
(* Small instances of what nps keeps about a client: its tasks and the     *)
(* servers that run them (TaskManager) and its connections in the bridge   *)
(* (BridgeClient).  A behaviour is about one of them, and the other stays  *)
(* as it is.                                                               *)
(***************************************************************************)
EXTENDS TaskManager, TLC

CONSTANTS
    Parts,                      \* what the behaviours are about
    Sessions, Uuid, retryTimeMax, PingRetries, Prompt, BridgeSetups

VARIABLES part, live, fail, tun, sig, node, bClient, reg, bProc

bVars == <<live, fail, tun, sig, node, bClient, reg, bProc>>

-----------------------------------------------------------------------------
(* Tasks 1 and 2 are made in the web interface, 3 and 4 by npc, 5 is       *)
(* secret.                                                                 *)

MCTask == 1..5
MCConfTask == {3, 4}
MCSecretTask == {5}
MCPort == {10, 11}
Ports(p) == [t \in MCTask |-> IF t \in DOMAIN p THEN p[t] ELSE 10]

Tasks(running, stopped, p, ops, cnfPorts, go, noStore) ==
    [running |-> running, stopped |-> stopped, port |-> Ports(p), ops |-> ops,
     conf |-> cnfPorts, go |-> go, noStore |-> noStore, inOrder |-> FALSE]

NoTasks == Tasks(<<>>, {}, <<10>>, <<{}, {}, {}>>, <<>>, FALSE, FALSE)

\* A running and a secret task under requests; a new task and a stopped one that want
\* the same port; npc's tasks beside a request to their own port, and brought twice;
\* a client that is deleted while a task is created, or while npc brings one.
MCSetups ==
    LET any == {"start", "stop", "update", "delete"} IN
    { NoTasks,
      Tasks(<<1>>, {}, <<10>>, <<any, any, {}>>, <<>>, FALSE, FALSE),
      Tasks(<<1>>, {}, <<10>>, <<{"start", "stop"}, any, {"start", "stop"}>>, <<>>, FALSE, FALSE),
      Tasks(<<>>, {5}, <<10>>, <<any, any, {}>>, <<>>, FALSE, FALSE),
      Tasks(<<>>, {2}, <<10, 10>>, <<{"create"}, {"start"}, any>>, <<>>, FALSE, FALSE),
      Tasks(<<>>, {2}, <<10, 11>>, <<any, {}, {}>>, <<10>>, TRUE, FALSE),
      Tasks(<<>>, {}, <<10, 11>>, <<{}, {}, {}>>, <<11, 11>>, TRUE, TRUE),
      Tasks(<<1>>, {}, <<10, 11>>, <<{"create"}, {"purge"}, {}>>, <<>>, FALSE, FALSE),
      Tasks(<<>>, {2}, <<10, 11>>, <<{"purge"}, {}, {}>>, <<11>>, TRUE, TRUE) }

\* A stopped task is started and, when that is answered, stopped.
MCStopSetups ==
    { NoTasks, [Tasks(<<>>, {1}, <<10>>, <<{"start"}, {"stop"}, {}>>, <<>>, FALSE, FALSE)
                  EXCEPT !.inOrder = TRUE] }

-----------------------------------------------------------------------------
(* Sessions of a process that connects twice, or of two with one key.      *)

MCSame == <<"a", "a">>
MCTwo == <<"a", "b">>

B == INSTANCE BridgeClient WITH Setups <- BridgeSetups, client <- bClient, proc <- bProc

Clients(E, U, F) == [established |-> E, users |-> U, fail |-> F]
NoClients == Clients({}, {}, {})
PingGoroutine == <<0, "ping">>
LinkGoroutine == <<0, "link">>

\* Two npc connect and the first fails, both are up when ping and a link find it
\* failing, or the second connects while a link is made.
MCJoinOrFailover ==
    {NoClients, Clients({}, {}, {1}), Clients({1, 2}, {PingGoroutine, LinkGoroutine}, {1}),
     Clients({1}, {LinkGoroutine}, {})}

\* One process is up and connects again.
MCReconnect == {NoClients, Clients({1}, {}, {1})}

-----------------------------------------------------------------------------

MCInit ==
    /\ part \in Parts
    /\ Init /\ B!Init
    /\ part = "tasks" \/ (tasks = {} /\ cnf.todo = <<>>)
    /\ part = "clients" \/ (reg = B!None /\ fail = {})

MCNext ==
    /\ UNCHANGED part
    /\ \/ part = "tasks" /\ Next /\ UNCHANGED bVars
       \/ part = "clients" /\ B!Next /\ UNCHANGED vars

\* The fairness of each module, for the one the behaviour is about.
MCSpec ==
    /\ MCInit /\ [][MCNext]_<<part, vars, bVars>>
    /\ WF_vars(part = "tasks" /\ Goroutines)
    /\ WF_bVars(part = "clients" /\ B!Environment)
    /\ WF_bVars(part = "clients" /\ \E p \in B!Deals : B!DealStep(p))
    /\ \A p \in B!Users : WF_bVars(part = "clients" /\ (B!Begin(p) \/ B!UserStep(p)))

\* typeDeal, delNode and ping: nobody but DelClient closes the newest session of an
\* npc process.
NewestSurvives == B!NewestSurvives

\* CheckNode, with ping: an offline node is removed or comes back, and the loop ends.
NodeReclaimed == B!NodeReclaimed
=============================================================================
