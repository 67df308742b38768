------------------------------ MODULE MuxSession ------------------------------
(***************************************************************************)
(* The two ends of a mux (lib/mux/mux.go): opening a connection (NewConn,  *)
(* the accept goroutine of readSession, Accept), dispatch of the packets   *)
(* of the peer, closing a connection and closing the mux.                  *)
(*                                                                         *)
(* A connection is named by its id; that ids are unique is the subject of  *)
(* MuxIds.tla.  The packets of a direction travel through two chains of    *)
(* the write queue (PriorityQueue.tla), each of them FIFO, and either may  *)
(* overtake the other.  muxNewConnFail is never sent and is left out.      *)
(***************************************************************************)
EXTENDS Naturals, Sequences, FiniteSets

CONSTANTS Conns,     \* the connections that may be opened (a bound)
          Opener,    \* Conns -> Peers: the end that opens it
          MayClose   \* the ends whose mux may be closed

Peers == {"client", "server"}

ASSUME SessionAssumption == Opener \in [Conns -> Peers]

VARIABLES call,    \* per connection: its NewConn call
          conn,    \* per end and connection: a Conn and who has it
          connMap, \* per end: the connections in connMap
          queue,   \* per end: newConnQueue
          acc,     \* per end: the accept goroutine, [pc, c]
          net,     \* per end and class: packets on their way to it
          mux,     \* per end: [pc, todo], todo the copy made by ConnMap.Close
          sent,    \* per end: connections on which it has sent its data
          rcvd     \* per end: connections whose data is in the receive window

sessionVars == <<call, conn, connMap, queue, acc, net, mux, sent, rcvd>>

Other(p) == CHOOSE q \in Peers : q # p
Remote(c) == Other(Opener[c])

\* NewConn: isClose, closingFlag and the two channels; app: the caller has it.
NewConnObj == [isClose |-> FALSE, closing |-> FALSE, ok |-> FALSE, app |-> FALSE]

\* closeChan is closed.
IsClosed(p) == mux[p].pc # "open"

SessionInit ==
    /\ call = [c \in Conns |-> "idle"]
    /\ conn = [p \in Peers |-> [c \in Conns |-> NewConnObj]]
    /\ connMap = [p \in Peers |-> {}]
    /\ queue = [p \in Peers |-> <<>>]
    /\ acc = [p \in Peers |-> [pc |-> "pop", c |-> "none"]]
    /\ net = [p \in Peers |-> [mid |-> <<>>, low |-> <<>>]]
    /\ mux = [p \in Peers |-> [pc |-> "open", todo |-> {}]]
    /\ sent = [p \in Peers |-> {}] /\ rcvd = [p \in Peers |-> {}]

\* Fault: a close has the priority of the other control packets.
ClassControl(flag) == IF flag = "data" THEN "low" ELSE "mid"

\* The chain of the write queue for a packet.
PackClass(flag) == IF flag \in {"new", "ok"} THEN "mid" ELSE "low"

\* sendInfo from end p: nothing is sent once the mux is closed.
SendInfo(p, flag, c) ==
    net' = IF IsClosed(p) THEN net
           ELSE [net EXCEPT ![Other(p)][PackClass(flag)] = Append(@, [flag |-> flag, c |-> c])]
-------------------------------------------------------------------------------
(* Closing a connection *)

\* closeProcess; the windows are in ReceiveQueue.tla.  Runs once.
closeProcess(p, c, notifyRemote) ==
    IF conn[p][c].isClose THEN UNCHANGED <<conn, connMap, net>>
    ELSE /\ conn' = [conn EXCEPT ![p][c].isClose = TRUE]
         /\ connMap' = [connMap EXCEPT ![p] = @ \ {c}]
         /\ IF notifyRemote THEN SendInfo(p, "close", c) ELSE UNCHANGED net

AppClose(p, c) ==
    /\ conn[p][c].app /\ ~conn[p][c].isClose
    /\ closeProcess(p, c, TRUE)
    /\ UNCHANGED <<call, queue, acc, mux, sent, rcvd>>

\* Conn.Write, once per end.
Write(p, c) ==
    /\ conn[p][c].app /\ ~conn[p][c].isClose /\ ~conn[p][c].closing
    /\ c \notin sent[p] /\ ~IsClosed(p)
    /\ SendInfo(p, "data", c) /\ sent' = [sent EXCEPT ![p] = @ \cup {c}]
    /\ UNCHANGED <<call, conn, connMap, queue, acc, mux, rcvd>>
-------------------------------------------------------------------------------
(* Mux.NewConn *)

NewConn(c) ==
    /\ call[c] = "idle" /\ ~IsClosed(Opener[c])
    /\ call' = [call EXCEPT ![c] = "set"]
    /\ UNCHANGED <<conn, connMap, queue, acc, net, mux, sent, rcvd>>

\* Fault: the request is sent before the connection is in the map.
NewConnSetLate(c) ==
    LET p == Opener[c] IN
    \/ /\ call[c] = "set"
       /\ call' = [call EXCEPT ![c] = "late"]
       /\ SendInfo(p, "new", c)
       /\ UNCHANGED <<conn, connMap, queue, acc, mux, sent, rcvd>>
    \/ /\ call[c] = "late"
       /\ call' = [call EXCEPT ![c] = "wait"]
       /\ connMap' = [connMap EXCEPT ![p] = @ \cup {c}]
       /\ UNCHANGED <<conn, queue, acc, net, mux, sent, rcvd>>

\* "it must be Set before send".
NewConnSet(c) ==
    LET p == Opener[c] IN
    /\ call[c] = "set"
    /\ call' = [call EXCEPT ![c] = "wait"]
    /\ connMap' = [connMap EXCEPT ![p] = @ \cup {c}]
    /\ SendInfo(p, "new", c)
    /\ UNCHANGED <<conn, queue, acc, mux, sent, rcvd>>

NewConnOk(c) ==
    LET p == Opener[c] IN
    /\ call[c] = "wait" /\ conn[p][c].ok
    /\ call' = [call EXCEPT ![c] = "ok"]
    /\ conn' = [conn EXCEPT ![p][c].ok = FALSE, ![p][c].app = TRUE]
    /\ UNCHANGED <<connMap, queue, acc, net, mux, sent, rcvd>>

\* The timer fires, or the mux is closed: closeLocal tells the peer nothing.
NewConnFails(c) ==
    /\ call[c] = "wait"
    /\ call' = [call EXCEPT ![c] = "failed"]
    /\ closeProcess(Opener[c], c, FALSE)
    /\ UNCHANGED <<queue, acc, mux, sent, rcvd>>
-------------------------------------------------------------------------------
(* readSession: the accept goroutine *)

AccGoto(p, label) == acc' = [acc EXCEPT ![p].pc = label]

\* newConnQueue.Pop up to the point where it decides to wait.
AccPop(p) ==
    /\ acc[p].pc = "pop"
    /\ UNCHANGED <<call, conn, connMap, net, mux, sent, rcvd>>
    /\ IF queue[p] # <<>>
       THEN /\ acc' = [acc EXCEPT ![p] = [pc |-> "set", c |-> Head(queue[p])]]
            /\ queue' = [queue EXCEPT ![p] = Tail(@)]
       ELSE /\ UNCHANGED queue
            /\ AccGoto(p, IF mux[p].pc = "done" THEN "exit" ELSE "checked")

\* cond.Wait.
AccWait(p) ==
    /\ acc[p].pc = "checked" /\ AccGoto(p, "asleep")
    /\ UNCHANGED <<call, conn, connMap, queue, net, mux, sent, rcvd>>

\* Fault: the ok goes out before the connection is handed over.
AccSetOk(p) ==
    /\ acc[p].pc = "set" /\ AccGoto(p, "offer")
    /\ connMap' = [connMap EXCEPT ![p] = @ \cup {acc[p].c}]
    /\ SendInfo(p, "ok", acc[p].c)
    /\ UNCHANGED <<call, conn, queue, mux, sent, rcvd>>

AccSet(p) ==
    /\ acc[p].pc = "set" /\ AccGoto(p, "offer")
    /\ connMap' = [connMap EXCEPT ![p] = @ \cup {acc[p].c}]
    /\ UNCHANGED <<call, conn, queue, net, mux, sent, rcvd>>

\* The connection goes to a caller of Accept ...
Accept(p) ==
    /\ acc[p].pc = "offer" /\ AccGoto(p, "ok")
    /\ conn' = [conn EXCEPT ![p][acc[p].c].app = TRUE]
    /\ UNCHANGED <<call, connMap, queue, net, mux, sent, rcvd>>

\* ... or the mux is closed; with both ready, select takes either.
AccClosed(p) ==
    /\ acc[p].pc = "offer" /\ IsClosed(p) /\ AccGoto(p, "exit")
    /\ UNCHANGED <<call, conn, connMap, queue, net, mux, sent, rcvd>>

AccOk(p) ==
    /\ acc[p].pc = "ok"
    /\ AccGoto(p, IF IsClosed(p) THEN "exit" ELSE "pop")
    /\ SendInfo(p, "ok", acc[p].c)
    /\ UNCHANGED <<call, conn, connMap, queue, mux, sent, rcvd>>
-------------------------------------------------------------------------------
(* readSession: the packets of the peer *)

Receive(p, class, flag) ==
    /\ ~IsClosed(p)
    /\ net[p][class] # <<>> /\ Head(net[p][class]).flag = flag
    /\ net' = [net EXCEPT ![p][class] = Tail(@)]

\* A packet for a connection that is not in the map, or is closed, is dropped.
Known(p, c) == c \in connMap[p] /\ ~conn[p][c].isClose

\* Push, then a broadcast without the lock.
RecvNewConn(p) ==
    LET c == Head(net[p].mid).c IN
    /\ Receive(p, "mid", "new")
    /\ queue' = [queue EXCEPT ![p] = Append(@, c)]
    /\ acc' = [acc EXCEPT ![p].pc = IF @ = "asleep" THEN "pop" ELSE @]
    /\ UNCHANGED <<call, conn, connMap, mux, sent, rcvd>>

RecvNewConnOk(p) ==
    LET c == Head(net[p].mid).c IN
    /\ Receive(p, "mid", "ok")
    /\ conn' = [conn EXCEPT ![p][c].ok = @ \/ Known(p, c)]
    /\ UNCHANGED <<call, connMap, queue, acc, mux, sent, rcvd>>

RecvMsg(p) ==
    LET c == Head(net[p].low).c IN
    /\ Receive(p, "low", "data")
    /\ rcvd' = [rcvd EXCEPT ![p] = IF Known(p, c) THEN @ \cup {c} ELSE @]
    /\ UNCHANGED <<call, conn, connMap, queue, acc, mux, sent>>

RecvConnClose(p) ==
    LET c == Head(net[p][PackClass("close")]).c IN
    /\ Receive(p, PackClass("close"), "close")
    /\ conn' = [conn EXCEPT ![p][c].closing = @ \/ Known(p, c)]
    /\ UNCHANGED <<call, connMap, queue, acc, mux, sent, rcvd>>
-------------------------------------------------------------------------------
(* Mux.Close *)

Step(p, label) == mux' = [mux EXCEPT ![p].pc = label]

\* By its owner or the ping timeout, or because the peer closed the transport.
CloseMux(p) ==
    /\ ~IsClosed(p) /\ (p \in MayClose \/ IsClosed(Other(p)))
    /\ Step(p, "copy")
    /\ UNCHANGED <<call, conn, connMap, queue, acc, net, sent, rcvd>>

CloseCopy(p) ==
    /\ mux[p].pc = "copy"
    /\ mux' = [mux EXCEPT ![p] = [pc |-> "conns", todo |-> connMap[p]]]
    /\ UNCHANGED <<call, conn, connMap, queue, acc, net, sent, rcvd>>

CloseConn(p) ==
    \E c \in mux[p].todo :
       /\ mux[p].pc = "conns"
       /\ mux' = [mux EXCEPT ![p].todo = @ \ {c}]
       /\ closeProcess(p, c, TRUE)
       /\ UNCHANGED <<call, queue, acc, sent, rcvd>>

\* release pops what writeQueue still holds.  A prefix of each chain has gone
\* out by then; the write session may take one more packet from among those
\* that release pops.
WrittenOut(s) == {SubSeq(s, 1, k) : k \in 0..Len(s)}
OneMore(s) == {Append(SubSeq(s, 1, kj[1] - 1), s[kj[2]]) :
                  kj \in {ab \in (1..Len(s)) \X (1..Len(s)) : ab[1] <= ab[2]}}
TryPopAll(p) ==
    LET out == net[Other(p)] IN
    \E m \in WrittenOut(out.mid) \cup OneMore(out.mid),
      l \in WrittenOut(out.low) \cup OneMore(out.low) :
       /\ m \in WrittenOut(out.mid) \/ l \in WrittenOut(out.low)
       /\ net' = [net EXCEPT ![Other(p)] = [mid |-> m, low |-> l]]

\* release empties both queues; Stop, and a broadcast without the lock.
release(p) ==
    /\ mux[p].pc = "conns" /\ mux[p].todo = {}
    /\ Step(p, "done") /\ TryPopAll(p)
    /\ queue' = [queue EXCEPT ![p] = <<>>]
    /\ acc' = [acc EXCEPT ![p].pc = IF @ = "asleep" THEN "pop" ELSE @]
    /\ UNCHANGED <<call, conn, connMap, sent, rcvd>>
-------------------------------------------------------------------------------
CallStep(c) == NewConnSet(c) \/ NewConnOk(c) \/ NewConnFails(c)
AccStep(p) == AccPop(p) \/ AccWait(p) \/ AccSet(p) \/ Accept(p) \/ AccClosed(p) \/ AccOk(p)
RecvMid(p) == RecvNewConn(p) \/ RecvNewConnOk(p)
RecvLow(p) == RecvMsg(p) \/ RecvConnClose(p)
CloseStep(p) == CloseCopy(p) \/ CloseConn(p) \/ release(p)

SessionNext ==
    \/ \E c \in Conns : NewConn(c) \/ CallStep(c)
    \/ \E p \in Peers : \/ \E c \in Conns : AppClose(p, c) \/ Write(p, c)
                        \/ AccStep(p) \/ RecvMid(p) \/ RecvLow(p)
                        \/ CloseMux(p) \/ CloseStep(p)

SessionSpec == SessionInit /\ [][SessionNext]_sessionVars

\* The goroutines run, timers fire, and a closed transport is noticed.
SessionFairSpec ==
    /\ SessionSpec
    /\ \A c \in Conns : WF_sessionVars(CallStep(c))
    /\ \A p \in Peers : /\ WF_sessionVars(AccStep(p))
                        /\ WF_sessionVars(RecvMid(p)) /\ WF_sessionVars(RecvLow(p))
                        /\ WF_sessionVars(CloseStep(p))
                        /\ WF_sessionVars(IsClosed(Other(p)) /\ CloseMux(p))
-------------------------------------------------------------------------------
(* Properties *)

Flag == {"new", "ok", "data", "close"}
Pack == [flag : Flag, c : Conns]

\* The accept goroutine never takes the nil of a stopped queue for a connection,
\* and the chains carry only packets of their connections.
SessionTypeOK ==
    /\ call \in [Conns -> {"idle", "set", "wait", "ok", "failed"}]
    /\ conn \in [Peers -> [Conns -> [isClose : BOOLEAN, closing : BOOLEAN,
                                     ok : BOOLEAN, app : BOOLEAN]]]
    /\ connMap \in [Peers -> SUBSET Conns]
    /\ queue \in [Peers -> Seq(Conns)]
    /\ acc \in [Peers -> [pc : {"pop", "checked", "asleep", "set", "offer", "ok", "exit"},
                          c : Conns \cup {"none"}]]
    /\ net \in [Peers -> [mid : Seq(Pack), low : Seq(Pack)]]
    /\ mux \in [Peers -> [pc : {"open", "copy", "conns", "done"}, todo : SUBSET Conns]]
    /\ sent \in [Peers -> SUBSET Conns] /\ rcvd \in [Peers -> SUBSET Conns]

\* NewConn only returns a connection that an Accept of the peer has returned:
\* muxNewConnOk goes out after the connection is handed over.
OkMeansAccepted == \A c \in Conns : call[c] = "ok" => conn[Remote(c)][c].app

\* An end sees the close of a connection only when the other end has closed it,
\* and by then it has received what that end wrote before, unless release has
\* thrown it away.
EOFAfterData ==
    \A p \in Peers, c \in Conns :
       conn[p][c].closing =>
          /\ conn[Other(p)][c].isClose
          /\ c \in sent[Other(p)] => c \in rcvd[p] \/ IsClosed(Other(p))

\* NewConn returns whatever becomes of its request.  Data written on a connection
\* reaches the other end, unless that end closes the connection or a mux is closed;
\* a connection closed at one end is closed, or seen closing, at the other; and
\* when the mux of an end is closed so is the other one.
SessionSettles ==
    <>[](/\ \A c \in Conns : call[c] \in {"idle", "ok", "failed"}
         /\ \A p \in Peers : IsClosed(p) => mux[Other(p)].pc = "done"
         /\ (\E p \in Peers : IsClosed(p))
            \/ \A p \in Peers, c \in Conns :
                  /\ c \in sent[p] => c \in rcvd[Other(p)] \/ conn[Other(p)][c].isClose
                  /\ conn[p][c].isClose /\ conn[p][c].app
                        => conn[Other(p)][c].isClose \/ conn[Other(p)][c].closing)
===============================================================================
