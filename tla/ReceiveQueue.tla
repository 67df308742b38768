----------------------------- MODULE ReceiveQueue -----------------------------
(***************************************************************************)
(* receiveWindowQueue (lib/mux/queue.go) with the ways a connection ends   *)
(* (Conn.Close, CloseWindow, Stop, release in lib/mux/conn.go).            *)
(*                                                                         *)
(* Three goroutines meet here: the session goroutine of the mux, which     *)
(* pushes the segments that arrive and handles the close of the peer; the  *)
(* reader; and the goroutine of the application that closes the            *)
(* connection.  Each step is one access to shared state.  Segments count   *)
(* as one byte and segs is the bufChain of BufChain.tla, used as a FIFO.   *)
(***************************************************************************)
EXTENDS Naturals, Sequences, FiniteSets

CONSTANTS Segments,    \* how many segments the peer sends (a bound)
          Deadlines,   \* the read deadlines: "none", "future" or "past"
          AppCloses    \* may the application close the connection?

VARIABLES len,       \* lengthWait: bytes pushed and not popped
          waitBit,   \* lengthWait: a reader is about to wait
          segs,      \* bufChain
          stopOp,    \* tokens in stopOp (capacity 2)
          stopped,   \* receiveWindow.once has run bufQueue.Stop
          closeOp,   \* window.closeOp
          closeOpCh, \* tokens in closeOpCh (capacity 2); nobody receives them
          closing,   \* Conn.once: "no", the goroutine that runs it, or "done"
          isClose,   \* Conn.isClose; the connection also leaves connMap
          deadline,  \* receiveWindowQueue.timeout
          peerClosed,\* muxConnClose was handled
          session,   \* [pc, n, wait]: n segments taken so far
          reader,    \* [pc, n, result]: n segments returned by Read
          app        \* pc of the goroutine that calls Conn.Close

receiveVars == <<len, waitBit, segs, stopOp, stopped, closeOp, closeOpCh, closing,
                 isClose, deadline, peerClosed, session, reader, app>>
windowVars == <<len, waitBit, segs>>
closeVars == <<stopOp, stopped, closeOp, closeOpCh, closing, isClose>>

ReceiveInit ==
    /\ len = 0 /\ waitBit = 0 /\ segs = <<>>
    /\ stopOp = 0 /\ stopped = FALSE
    /\ closeOp = FALSE /\ closeOpCh = 0 /\ closing = "no" /\ isClose = FALSE
    /\ deadline \in Deadlines /\ peerClosed = FALSE
    /\ session = [pc |-> "idle", n |-> 0, wait |-> 0]
    /\ reader = [pc |-> "idle", n |-> 0, result |-> "none"]
    /\ app = "idle"
-------------------------------------------------------------------------------
(* The session goroutine *)

\* A segment arrives.  receiveWindow.Write refuses it on a closed window and
\* the session closes the connection; a connection no longer in the map is
\* not found and the segment is dropped.
Arrive ==
    /\ session.pc = "idle" /\ session.n < Segments /\ ~peerClosed
    /\ session' = [session EXCEPT !.n = @ + 1,
                      !.pc = IF isClose THEN "idle"
                             ELSE IF closeOp THEN "once" ELSE "length"]
    /\ UNCHANGED <<windowVars, closeVars, deadline, peerClosed, reader, app>>

\* Push: count the bytes and clear the wait bit in one swap, ...
PushLength ==
    /\ session.pc = "length"
    /\ len' = len + 1 /\ waitBit' = 0
    /\ session' = [session EXCEPT !.pc = "chain", !.wait = waitBit]
    /\ UNCHANGED <<segs, closeVars, deadline, peerClosed, reader, app>>

\* Fault: the reader is not woken.
PushChainQuiet ==
    /\ session.pc = "chain"
    /\ segs' = Append(segs, session.n)
    /\ session' = [session EXCEPT !.pc = "idle"]
    /\ UNCHANGED <<len, waitBit, closeVars, deadline, peerClosed, reader, app>>

\* ... push, and wake the reader if the bit was set.
PushChain ==
    /\ session.pc = "chain"
    /\ segs' = Append(segs, session.n)
    /\ session' = [session EXCEPT !.pc = IF session.wait = 1 THEN "allow" ELSE "idle"]
    /\ UNCHANGED <<len, waitBit, closeVars, deadline, peerClosed, reader, app>>

\* allowPop takes a stop token instead of meeting the reader.
allowPopStopped ==
    /\ session.pc = "allow" /\ stopOp > 0
    /\ stopOp' = stopOp - 1
    /\ session' = [session EXCEPT !.pc = "idle"]
    /\ UNCHANGED <<windowVars, stopped, closeOp, closeOpCh, closing, isClose,
                   deadline, peerClosed, reader, app>>

\* Stop under the once: both tokens fit, the channel was empty.
StopOnce ==
    /\ stopped' = TRUE
    /\ stopOp' = IF stopped THEN stopOp ELSE stopOp + 2

\* muxConnClose from the peer.
PeerClose ==
    /\ session.pc = "idle" /\ ~peerClosed
    /\ peerClosed' = TRUE
    /\ IF isClose THEN UNCHANGED <<stopped, stopOp>> ELSE StopOnce
    /\ UNCHANGED <<windowVars, closeOp, closeOpCh, closing, isClose, deadline,
                   session, reader, app>>
-------------------------------------------------------------------------------
(* The reader: Conn.Read, receiveWindow.Read, Pop, waitPush *)

Read ==
    /\ reader.pc = "idle"
    /\ reader' = IF isClose \/ closeOp
                 THEN [reader EXCEPT !.pc = "done", !.result = "closed"]
                 ELSE [reader EXCEPT !.pc = "pop"]
    /\ UNCHANGED <<windowVars, closeVars, deadline, peerClosed, session, app>>

\* Fault: the chain is looked at instead of the length.
PopLoadChain ==
    /\ reader.pc = "pop"
    /\ IF segs = <<>>
       THEN waitBit' = 1 /\ reader' = [reader EXCEPT !.pc = "wait"]
       ELSE UNCHANGED waitBit /\ reader' = [reader EXCEPT !.pc = "trypop"]
    /\ UNCHANGED <<len, segs, closeVars, deadline, peerClosed, session, app>>

\* Pop: an empty queue is marked with the wait bit.
PopLoad ==
    /\ reader.pc = "pop"
    /\ IF len = 0
       THEN waitBit' = 1 /\ reader' = [reader EXCEPT !.pc = "wait"]
       ELSE UNCHANGED waitBit /\ reader' = [reader EXCEPT !.pc = "trypop"]
    /\ UNCHANGED <<len, segs, closeVars, deadline, peerClosed, session, app>>

\* The channel readOp has no buffer: both sides go on together.
readOp ==
    /\ reader.pc = "wait" /\ session.pc = "allow"
    /\ reader' = [reader EXCEPT !.pc = "pop"]
    /\ session' = [session EXCEPT !.pc = "idle"]
    /\ UNCHANGED <<windowVars, closeVars, deadline, peerClosed, app>>

waitPushStopped ==
    /\ reader.pc = "wait" /\ stopOp > 0
    /\ stopOp' = stopOp - 1
    /\ reader' = [reader EXCEPT !.pc = "check", !.result = "eof"]
    /\ UNCHANGED <<windowVars, stopped, closeOp, closeOpCh, closing, isClose,
                   deadline, peerClosed, session, app>>

\* Only a deadline in the future starts a timer.
waitPushTimeout ==
    /\ reader.pc = "wait" /\ deadline = "future"
    /\ reader' = [reader EXCEPT !.pc = "check", !.result = "timeout"]
    /\ UNCHANGED <<windowVars, closeVars, deadline, peerClosed, session, app>>

\* TryPop in the loop of Pop, which spins while the chain is empty.
TryPop ==
    /\ reader.pc = "trypop" /\ segs # <<>>
    /\ segs' = Tail(segs) /\ len' = len - 1
    /\ reader' = [reader EXCEPT !.pc = "idle", !.n = @ + 1]
    /\ UNCHANGED <<waitBit, closeVars, deadline, peerClosed, session, app>>
-------------------------------------------------------------------------------
(* Conn.Close and receiveWindow.CloseWindow, by goroutine g *)

Closers == {"session", "reader", "app"}
pc(g) == CASE g = "session" -> session.pc [] g = "reader" -> reader.pc
           [] g = "app" -> app

CloserGoto(g, label) ==
    /\ session' = IF g = "session" THEN [session EXCEPT !.pc = label] ELSE session
    /\ reader' = IF g = "reader" THEN [reader EXCEPT !.pc = label] ELSE reader
    /\ app' = IF g = "app" THEN label ELSE app

\* Where CloseWindow returns to: closeProcess ends the once, Read returns.
Return(g) == CASE g = "session" -> "idle" [] g = "reader" -> "done"
               [] g = "app" -> "done"

ConnClose ==
    /\ AppCloses /\ app = "idle"
    /\ app' = "once"
    /\ UNCHANGED <<windowVars, closeVars, deadline, peerClosed, session, reader>>

\* once.Do: the first goroutine runs closeProcess, the others wait for it.
CloseOnce(g) ==
    /\ pc(g) = "once" /\ closing \in {"no", "done"}
    /\ IF closing = "no"
       THEN closing' = g /\ isClose' = TRUE /\ CloserGoto(g, "check")
       ELSE UNCHANGED <<closing, isClose>> /\ CloserGoto(g, Return(g))
    /\ UNCHANGED <<windowVars, stopOp, stopped, closeOp, closeOpCh, deadline,
                   peerClosed>>

\* CloseWindow reads closeOp without synchronization, ...
CloseCheck(g) ==
    /\ pc(g) = "check"
    /\ CloserGoto(g, IF closeOp THEN "stop" ELSE "set")
    /\ UNCHANGED <<windowVars, closeVars, deadline, peerClosed>>

CloseSet(g) ==
    /\ pc(g) = "set"
    /\ closeOp' = TRUE
    /\ CloserGoto(g, "token1")
    /\ UNCHANGED <<windowVars, stopOp, stopped, closeOpCh, closing, isClose,
                   deadline, peerClosed>>

\* ... sends two tokens, ...
CloseToken(g) ==
    /\ pc(g) \in {"token1", "token2"} /\ closeOpCh < 2
    /\ closeOpCh' = closeOpCh + 1
    /\ CloserGoto(g, IF pc(g) = "token1" THEN "token2" ELSE "stop")
    /\ UNCHANGED <<windowVars, stopOp, stopped, closeOp, closing, isClose,
                   deadline, peerClosed>>

\* ... stops the queue ...
CloseStop(g) ==
    /\ pc(g) = "stop"
    /\ StopOnce
    /\ CloserGoto(g, "release")
    /\ UNCHANGED <<windowVars, closeOp, closeOpCh, closing, isClose, deadline,
                   peerClosed>>

\* ... and drains it.
releaseWindow(g) ==
    /\ pc(g) = "release"
    /\ IF segs # <<>>
       THEN segs' = Tail(segs) /\ len' = len - 1 /\ CloserGoto(g, "release")
            /\ UNCHANGED closing
       ELSE CloserGoto(g, Return(g)) /\ UNCHANGED <<segs, len>>
            /\ closing' = IF closing = g THEN "done" ELSE closing
    /\ UNCHANGED <<waitBit, stopOp, stopped, closeOp, closeOpCh, isClose, deadline,
                   peerClosed>>

CloseConnection(g) == CloseOnce(g) \/ CloseCheck(g) \/ CloseSet(g) \/ CloseToken(g)
                         \/ CloseStop(g) \/ releaseWindow(g)
-------------------------------------------------------------------------------
SessionStep == PushLength \/ PushChain \/ allowPopStopped
ReaderStep == Read \/ PopLoad \/ waitPushStopped \/ TryPop

ReceiveNext == Arrive \/ PeerClose \/ SessionStep \/ ReaderStep \/ readOp
           \/ waitPushTimeout \/ ConnClose \/ (\E g \in Closers : CloseConnection(g))

ReceiveSpec == ReceiveInit /\ [][ReceiveNext]_receiveVars

\* The goroutines run and timers fire.  Nobody has to send or to close.
ReceiveFairSpec ==
    /\ ReceiveSpec
    /\ WF_receiveVars(SessionStep) /\ WF_receiveVars(ReaderStep) /\ WF_receiveVars(readOp)
    /\ WF_receiveVars(waitPushTimeout) /\ \A g \in Closers : WF_receiveVars(CloseConnection(g))
-------------------------------------------------------------------------------
(* Properties *)

ClosePcs == {"check", "set", "token1", "token2", "stop", "release"}

\* The channels stopOp and closeOpCh never hold more than their two places.
ReceiveTypeOK ==
    /\ len \in 0..Segments /\ waitBit \in {0, 1} /\ segs \in Seq(1..Segments)
    /\ stopOp \in 0..2 /\ stopped \in BOOLEAN
    /\ closeOp \in BOOLEAN /\ closeOpCh \in 0..2
    /\ closing \in Closers \cup {"no", "done"} /\ isClose \in BOOLEAN
    /\ deadline \in Deadlines /\ peerClosed \in BOOLEAN
    /\ session \in [pc : {"idle", "length", "chain", "allow", "once"} \cup ClosePcs,
                    n : 0..Segments, wait : {0, 1}]
    /\ reader \in [pc : {"idle", "pop", "wait", "trypop", "done"} \cup ClosePcs,
                   n : 0..Segments, result : {"none", "eof", "timeout", "closed"}]
    /\ app \in {"idle", "once", "done"} \cup ClosePcs

\* When the peer closes, Read returns everything that was sent before the close
\* and then EOF, unless this side closed or a read timed out first.
EOFAfterLastSegment ==
    reader.result = "eof" /\ closing = "no" => reader.n = session.n

\* Two goroutines have both found closeOp unset and share the two places of
\* closeOpCh.
CloseRace ==
    \E g, h \in Closers : g # h /\ {pc(g), pc(h)} \subseteq {"token1", "token2"}

\* A reader is woken by every push: it never waits on a queue that has data.  The
\* session goroutine, which serves every connection of the mux, never stays in
\* Push: it meets the reader or finds a token, unless two goroutines block each
\* other in CloseWindow.  "queue has no more data to push, so unblock pop method":
\* when the peer closes a Read that waits returns, unless this side closes as well
\* (a close that drains the chain after Pop has looked at the length leaves it
\* spinning).
ReceiveSettles ==
    <>[](/\ closeOp \/ segs = <<>> \/ CloseRace
         /\ session.pc = "allow" => CloseRace
         /\ peerClosed => reader.pc \notin {"pop", "wait", "trypop"} \/ app # "idle")
===============================================================================
