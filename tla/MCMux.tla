------------------------------- MODULE MCMux -------------------------------
(***************************************************************************)
(* Small instances of lib/mux: the write queue (PriorityQueue), the chain  *)
(* of rings under every queue (BufChain), the receive queue of a           *)
(* connection (ReceiveQueue), the ids (MuxIds) and the two ends of a mux   *)
(* (MuxSession).  A behaviour is about one of them, and the others stay as *)
(* they are.                                                               *)
(***************************************************************************)
EXTENDS PriorityQueue, ReceiveQueue, MuxIds, MuxSession, TLC

CONSTANTS
    Parts,                                  \* what the behaviours are about
    s1, s2,
    p1, p2, Loads, InitSizes, SizeLimit, IndexMod

VARIABLES
    part,
    elts, chainHead, chainTail, newChain, prod, cons, popped

cVars == <<elts, chainHead, chainTail, newChain, prod, cons, popped>>

-----------------------------------------------------------------------------
(* The write queue at its high water mark: two senders push, or one does   *)
(* and the mux is closed.                                                  *)

Nothing == [prefill |-> [high |-> 0, mid |-> 0, low |-> 0],
            load |-> (s1 :> 0) @@ (s2 :> 0), closes |-> FALSE]

MCSetups ==
    {Nothing,
     [Nothing EXCEPT !.prefill.mid = 3, !.prefill.low = 1, !.load = (s1 :> 1) @@ (s2 :> 1)],
     [Nothing EXCEPT !.prefill.low = 4, !.load[s1] = 1, !.closes = TRUE]}

-----------------------------------------------------------------------------
(* The chain: one producer that wraps the index of the largest ring, or    *)
(* two that push to the same ring.                                         *)

MCLoads == {(p1 :> 9) @@ (p2 :> 0), (p1 :> 2) @@ (p2 :> 2)}
MCTwoLoads == {(p1 :> 2) @@ (p2 :> 2)}

C == INSTANCE BufChain WITH Producers <- {p1, p2}, Consumers <- {"c1"}

(* The connection of the session is opened by the client.                  *)

MCOpener == [c \in Conns |-> "client"]

-----------------------------------------------------------------------------

MCInit ==
    /\ part \in Parts
    /\ Init /\ C!Init /\ ReceiveInit /\ IdsInit /\ SessionInit
    /\ part = "priority" \/ length = 0
    /\ part = "chain" \/ (elts[1].size = 1 /\ prod[p2].todo = 2)
    /\ part = "receive" \/ deadline = "none"

MCNext ==
    /\ UNCHANGED part
    /\ \/ part = "priority" /\ Next /\ UNCHANGED <<cVars, receiveVars, idsVars, sessionVars>>
       \/ part = "chain" /\ C!Next /\ UNCHANGED <<vars, receiveVars, idsVars, sessionVars>>
       \/ part = "receive" /\ ReceiveNext /\ UNCHANGED <<vars, cVars, idsVars, sessionVars>>
       \/ part = "ids" /\ IdsNext /\ UNCHANGED <<vars, cVars, receiveVars, sessionVars>>
       \/ part = "session" /\ SessionNext /\ UNCHANGED <<vars, cVars, receiveVars, idsVars>>

\* The fairness of each module, for the one the behaviour is about.
MCSpec ==
    /\ MCInit /\ [][MCNext]_<<part, vars, cVars, receiveVars, idsVars, sessionVars>>
    /\ WF_vars(part = "priority" /\ WriterStep)
    /\ SF_vars(part = "priority" /\ (PopLock \/ afterPopBroadcast))
    /\ WF_vars(part = "priority" /\ CloserStep)
    /\ SF_vars(part = "priority" /\ (StopBroadcast \/ releaseBroadcast))
    /\ \A s \in Senders : /\ WF_vars(part = "priority" /\ SenderStep(s))
                          /\ SF_vars(part = "priority" /\ (BackpressureLock(s) \/ PushSignal(s)))
    /\ \A p \in {p1, p2} : WF_cVars(part = "chain" /\ C!Push(p))
    /\ WF_cVars(part = "chain" /\ C!Pop("c1"))
    /\ WF_receiveVars(part = "receive" /\ SessionStep)
    /\ WF_receiveVars(part = "receive" /\ ReaderStep)
    /\ WF_receiveVars(part = "receive" /\ readOp)
    /\ WF_receiveVars(part = "receive" /\ waitPushTimeout)
    /\ \A g \in Closers : WF_receiveVars(part = "receive" /\ CloseConnection(g))
    /\ \A c \in Conns : WF_sessionVars(part = "session" /\ CallStep(c))
    /\ \A p \in Peers : /\ WF_sessionVars(part = "session" /\ AccStep(p))
                        /\ WF_sessionVars(part = "session" /\ RecvMid(p))
                        /\ WF_sessionVars(part = "session" /\ RecvLow(p))
                        /\ WF_sessionVars(part = "session" /\ CloseStep(p))
                        /\ WF_sessionVars(part = "session" /\ IsClosed(Other(p)) /\ CloseMux(p))

-----------------------------------------------------------------------------

\* pushHead and popTail implement a first-in first-out queue, unless producers
\* race to grow the chain.
ImplementsFifo == C!ImplementsFifo

\* pushHead and popTail: every value whose push has been started is popped in the
\* end, unless producers race to grow the chain.
EveryPushIsPopped == C!EveryPushIsPopped

\* popTail, queue.go: "if next is non-nil before the TryPop and the TryPop fails,
\* then d is permanently empty".
DroppedIsPermanentlyEmpty == C!DroppedIsPermanentlyEmpty
=============================================================================
