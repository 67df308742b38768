---------------------------- MODULE MuxProofs ----------------------------
(***************************************************************************)
(* The queues, the ids and the windows of a mux, for any number of         *)
(* senders, packets, segments, connections and bytes, any sizes and any    *)
(* width of the counters: the write queue starves no data, a reader sees   *)
(* everything before the end of the stream, no id is given out twice       *)
(* before the counter is reset, and no byte of the flow control is lost.   *)
(***************************************************************************)
EXTENDS PriorityQueue, ReceiveQueue, MuxIds, MuxWindow, TLAPS
-----------------------------------------------------------------------------
(* The write queue (PriorityQueue) *)

SenderLabels == {"idle", "lock", "check", "wait", "add", "push", "signal"}
WriterLabels == {"top", "high", "mid", "low", "again", "after", "bcast", "miss", "lock",
                 "wait", "exit"}
SenderType == [pc : SenderLabels, todo : Nat, n : Nat, class : Class]
WriteSessionType == [pc : WriterLabels, tries : Nat]

\* The types of what the argument looks at.
WriteTypes ==
    /\ chain \in [Class -> Seq(Packet)]
    /\ sender \in [Senders -> SenderType]
    /\ writer \in WriteSessionType
    /\ starving \in Nat /\ bypass \in Nat

\* While the mux is open: the counter has seen all overtakings but one, there
\* are none when no data waits, and none when the middle chain is looked at for
\* the second time, since no data was waiting just before.
Overtaken ==
    closed \/ /\ bypass <= starving + 1
              /\ bypass <= maxStarving + 1
              /\ chain["low"] = <<>> => bypass = 0
              /\ writer.pc = "again" => bypass = 0

WriteInv == WriteTypes /\ Overtaken

\* starving stays a natural number.
LEMMA StarvedType ==
    ASSUME starving \in Nat, NEW c \in Class
    PROVE  /\ Starved(c) \in Nat
           /\ c = "mid" => Starved(c) = (starving + 1) % StarvingMod
           /\ c = "low" => Starved(c) = starving \div 2
           /\ c = "high" => Starved(c) = starving
<1>1. StarvingMod \in Nat /\ 0 < StarvingMod
  BY PriorityQueueAssumption
<1>2. (starving + 1) % StarvingMod \in Nat /\ starving \div 2 \in Nat
  BY <1>1
<1> QED
  BY <1>2, Zenon DEF Starved, Class

\* The queue starts with nothing overtaken.
LEMMA WriteInitInv == Init => WriteInv
<1> SUFFICES ASSUME Init PROVE WriteInv
  BY Zenon
<1> PICK u \in Setups :
      /\ chain = [c \in Class |-> [i \in 1..u.prefill[c] |-> <<"first", i>>]]
      /\ sender = [s \in Senders |-> [pc |-> "idle", todo |-> u.load[s], n |-> 0,
                                      class |-> "low"]]
  BY Zenon DEF Init
<1>1. /\ u \in [prefill : [high : Nat, mid : Nat, low : Nat], load : [Senders -> Nat],
                closes : BOOLEAN]
      /\ maxStarving \in Nat
  BY PriorityQueueAssumption, Zenon
<1>2. ASSUME NEW c \in Class
      PROVE  [i \in 1..u.prefill[c] |-> <<"first", i>>] \in Seq(Packet)
  <2>1. u.prefill[c] \in Nat
    BY <1>1, Zenon DEF Class
  <2>2. \A i \in 1..u.prefill[c] : <<"first", i>> \in Packet
    BY <2>1 DEF Packet
  <2> QED
    BY <2>1, <2>2
<1>3. chain \in [Class -> Seq(Packet)]
  BY <1>2, Zenon
<1>4. sender \in [Senders -> SenderType]
  BY <1>1, Zenon DEF SenderType, SenderLabels, Class
<1>5. writer \in WriteSessionType /\ writer.pc = "top"
  BY Zenon DEF Init, WriteSessionType, WriterLabels
<1>6. starving = 0 /\ bypass = 0
  BY Zenon DEF Init
<1> QED
  BY <1>1, <1>3, <1>4, <1>5, <1>6 DEF WriteInv, WriteTypes, Overtaken

\* The steps of a sender only add to the chains.
LEMMA SenderInv ==
    ASSUME WriteInv, NEW s \in Senders, (\E c \in Classes : sendInfo(s, c)) \/ SenderStep(s)
    PROVE  WriteInv'
<1>1. /\ UNCHANGED <<writer, starving, bypass, closed>>
      /\ sender' \in [Senders -> SenderType]
  <2>1. Classes \subseteq Class
    BY PriorityQueueAssumption, Zenon DEF Class
  <2>2. sender \in [Senders -> SenderType]
    BY Zenon DEF WriteInv, WriteTypes
  <2>3. ASSUME NEW c \in Classes, sendInfo(s, c) PROVE <1>1
    BY <2>1, <2>2, <2>3 DEF sendInfo, SenderType, SenderLabels, queueVars
  <2>4. ASSUME NEW label \in SenderLabels, Goto(s, label) PROVE sender' \in [Senders -> SenderType]
    BY <2>2, <2>4, Zenon DEF Goto, SenderType
  <2>5. CASE BackpressureLock(s)
    BY <2>4, <2>5, Zenon DEF SenderLabels, BackpressureLock, queueVars
  <2>6. CASE BackpressureCheck(s)
    BY <2>4, <2>6, Zenon DEF SenderLabels, BackpressureCheck, queueVars
  <2>7. CASE PushAdd(s)
    BY <2>4, <2>7, Zenon DEF SenderLabels, PushAdd
  <2>8. CASE Push(s)
    BY <2>4, <2>8, Zenon DEF SenderLabels, Push
  <2>9. CASE PushSignal(s)
    BY <2>4, <2>9, Zenon DEF SenderLabels, PushSignal, queueVars
  <2> QED
    BY <2>3, <2>5, <2>6, <2>7, <2>8, <2>9, Zenon DEF SenderStep
<1>2. chain' \in [Class -> Seq(Packet)] /\ (chain'["low"] = <<>> => chain["low"] = <<>>)
  <2>1. CASE UNCHANGED chain
    BY <2>1, Zenon DEF WriteInv, WriteTypes
  <2>2. CASE Push(s)
    <3>1. sender[s] \in SenderType /\ chain \in [Class -> Seq(Packet)]
      BY Zenon DEF WriteInv, WriteTypes
    <3>2. sender[s].class \in Class /\ <<s, sender[s].n>> \in Packet
      BY <3>1, Zenon DEF SenderType, Packet
    <3>3. chain' = [chain EXCEPT ![sender[s].class] = Append(@, <<s, sender[s].n>>)]
      BY <2>2, Zenon DEF Push
    <3>4. "low" \in Class
      BY Zenon DEF Class
    <3>5. \A q \in Seq(Packet), x \in Packet : Append(q, x) \in Seq(Packet) /\ Append(q, x) # <<>>
      OBVIOUS
    <3>6. chain' \in [Class -> Seq(Packet)]
      BY <3>1, <3>2, <3>3, <3>5, Zenon
    <3>7. sender[s].class = "low" => chain'["low"] # <<>>
      BY <3>1, <3>2, <3>3, <3>4, <3>5, Zenon
    <3>8. sender[s].class # "low" => chain'["low"] = chain["low"]
      BY <3>1, <3>2, <3>3, <3>4, Zenon
    <3> QED
      BY <3>6, <3>7, <3>8, Zenon
  <2>3. UNCHANGED chain \/ Push(s)
    BY Zenon DEF sendInfo, SenderStep, BackpressureLock, BackpressureCheck, PushAdd, PushSignal,
           queueVars
  <2> QED
    BY <2>1, <2>2, <2>3, Zenon
<1> QED
  BY <1>1, <1>2, Zenon DEF WriteInv, WriteTypes, Overtaken

\* A pop of the write session.
LEMMA TakeInv ==
    ASSUME WriteInv, NEW c \in Class, chain[c] # <<>>, Take(c), UNCHANGED <<sender, closed>>,
           writer.pc = IF c = "high" THEN "high" ELSE IF c = "low" THEN "low" ELSE writer.pc,
           c = "mid" => \/ writer.pc = "mid" /\ starving < maxStarving
                        \/ writer.pc = "again"
    PROVE  WriteInv'
<1>1. /\ chain \in [Class -> Seq(Packet)] /\ writer \in WriteSessionType
      /\ starving \in Nat /\ bypass \in Nat /\ maxStarving \in Nat
      /\ StarvingMod \in Nat /\ maxStarving < StarvingMod
  BY PriorityQueueAssumption, Zenon DEF WriteInv, WriteTypes
<1>2. chain' = [chain EXCEPT ![c] = Tail(@)] /\ chain' \in [Class -> Seq(Packet)]
  <2>1. Tail(chain[c]) \in Seq(Packet)
    BY <1>1
  <2> QED
    BY <1>1, <2>1, Zenon DEF Take
<1>3. writer' \in WriteSessionType /\ writer'.pc = "after"
  BY <1>1, Zenon DEF Take, WriteSessionType, WriterLabels
<1>4. starving' = Starved(c) /\ starving' \in Nat
  BY <1>1, StarvedType, Zenon DEF Take
<1>5. c # "low" => chain'["low"] = chain["low"]
  BY <1>1, <1>2, Zenon DEF Class
<1>6. CASE c = "low"
  <2>1. bypass' = 0
    BY <1>6, Zenon DEF Take
  <2> QED
    BY <1>1, <1>2, <1>3, <1>4, <2>1 DEF WriteInv, WriteTypes, Overtaken
<1>7. CASE c = "high"
  <2>1. bypass' = bypass /\ starving' = starving
    BY <1>1, <1>4, <1>7, StarvedType, Zenon DEF Take
  <2> QED
    BY <1>1, <1>2, <1>3, <1>4, <1>5, <1>7, <2>1, Zenon DEF WriteInv, WriteTypes, Overtaken
<1>8. CASE c = "mid"
  <2>1. starving' = (starving + 1) % StarvingMod
    BY <1>1, <1>4, <1>8, StarvedType, Zenon
  <2>2. bypass' = IF chain["low"] # <<>> THEN bypass + 1 ELSE bypass
    BY <1>8, Zenon DEF Take
  <2>3. bypass' \in Nat
    BY <1>1, <2>2
  <2>4. CASE closed
    BY <1>2, <1>3, <1>4, <2>3, <2>4, Zenon DEF WriteInv, WriteTypes, Overtaken
  <2>5. CASE ~closed /\ writer.pc = "again"
    <3>1. bypass' <= 1
      BY <1>1, <2>2, <2>5 DEF WriteInv, Overtaken
    <3>2. chain'["low"] = <<>> => bypass' = 0
      BY <1>5, <1>8, <2>2, <2>5, Zenon DEF WriteInv, Overtaken
    <3> QED
      BY <1>1, <1>2, <1>3, <1>4, <2>3, <3>1, <3>2 DEF WriteInv, WriteTypes, Overtaken
  <2>6. CASE ~closed /\ starving < maxStarving
    <3>1. starving' = starving + 1
      <4>1. \A a, b \in Nat : a < b => a % b = a
        OBVIOUS
      <4>2. starving + 1 \in Nat /\ starving + 1 < StarvingMod
        BY <1>1, <2>6
      <4> QED
        BY <1>1, <2>1, <4>1, <4>2, Zenon
    <3>2. bypass' <= starving' + 1 /\ bypass' <= maxStarving + 1
      BY <1>1, <2>2, <2>6, <3>1 DEF WriteInv, Overtaken
    <3>3. chain'["low"] = <<>> => bypass' = 0
      BY <1>5, <1>8, <2>2, <2>6, Zenon DEF WriteInv, Overtaken
    <3> QED
      BY <1>2, <1>3, <1>4, <2>3, <3>2, <3>3, Zenon DEF WriteInv, WriteTypes, Overtaken
  <2> QED
    BY <1>8, <2>4, <2>5, <2>6, Zenon
<1> QED
  BY <1>6, <1>7, <1>8, Zenon DEF Class

\* A step of the write session that leaves the chains alone.
LEMMA IdleWriterInv ==
    ASSUME WriteInv, UNCHANGED <<chain, sender, starving, bypass, closed>>,
           writer' \in WriteSessionType,
           writer'.pc = "again" => chain["low"] = <<>> \/ writer.pc = "again"
    PROVE  WriteInv'
  BY Zenon DEF WriteInv, WriteTypes, Overtaken

\* Every step of the write session.
LEMMA WriteSessionInv ==
    ASSUME WriteInv, WriterStep
    PROVE  WriteInv'
<1>0. writer \in WriteSessionType
  BY Zenon DEF WriteInv, WriteTypes
<1>1. \A label \in WriterLabels : /\ [writer EXCEPT !.pc = label] \in WriteSessionType
                            /\ [writer EXCEPT !.pc = label].pc = label
  BY <1>0, Zenon DEF WriteSessionType
<1>2. CASE WriteTop
  <2>1. writer' \in WriteSessionType /\ writer'.pc # "again"
    BY <1>2, Zenon DEF WriteTop, WriteSessionType, WriterLabels
  <2> QED
    BY <1>2, <2>1, IdleWriterInv, Zenon DEF WriteTop, queueVars
<1>3. CASE TryPopHigh
  <2>1. CASE chain["high"] # <<>>
    BY <1>3, <2>1, TakeInv, Zenon DEF TryPopHigh, Class
  <2>2. CASE chain["high"] = <<>>
    BY <1>1, <1>3, <2>2, IdleWriterInv, ZenonT(30) DEF TryPopHigh, Skip, WriterLabels
  <2> QED
    BY <2>1, <2>2, Zenon
<1>4. CASE TryPopMid
  <2>1. CASE starving < maxStarving /\ chain["mid"] # <<>>
    BY <1>4, <2>1, TakeInv, Zenon DEF TryPopMid, Class
  <2>2. CASE ~(starving < maxStarving /\ chain["mid"] # <<>>)
    BY <1>1, <1>4, <2>2, IdleWriterInv, ZenonT(30) DEF TryPopMid, Skip, WriterLabels
  <2> QED
    BY <2>1, <2>2, Zenon
<1>5. CASE TryPopLow
  <2>1. CASE chain["low"] # <<>>
    BY <1>5, <2>1, TakeInv, Zenon DEF TryPopLow, Class
  <2>2. CASE chain["low"] = <<>>
    BY <1>1, <1>5, <2>2, IdleWriterInv, Zenon DEF TryPopLow, Skip, WriterLabels
  <2> QED
    BY <2>1, <2>2, Zenon
<1>6. CASE TryPopAgain
  <2>1. CASE chain["mid"] # <<>>
    BY <1>6, <2>1, TakeInv, Zenon DEF TryPopAgain, Class
  <2>2. CASE chain["mid"] = <<>>
    BY <1>1, <1>6, <2>2, IdleWriterInv, Zenon DEF TryPopAgain, Skip, WriterLabels
  <2> QED
    BY <2>1, <2>2, Zenon
<1>7. CASE afterPop
  BY <1>1, <1>7, IdleWriterInv, ZenonT(30) DEF afterPop, Returned, WriterLabels
<1>8. CASE afterPopBroadcast
  BY <1>1, <1>8, IdleWriterInv, Zenon DEF afterPopBroadcast, Returned, WriterLabels, queueVars
<1>9. CASE Missed
  <2>1. writer' \in WriteSessionType /\ writer'.pc # "again"
    <3>1. CASE lock = "writer"
      BY <1>1, <1>9, <3>1, ZenonT(30) DEF Missed, Skip, WriterLabels
    <3>2. CASE lock # "writer"
      <4>1. [pc |-> "high", tries |-> writer.tries + 1] \in WriteSessionType
        BY <1>0 DEF WriteSessionType, WriterLabels
      <4>2. writer' \in {[writer EXCEPT !.pc = "exit"], [writer EXCEPT !.pc = "lock"],
                         [pc |-> "high", tries |-> writer.tries + 1]}
        BY <1>9, <3>2, Zenon DEF Missed
      <4>3. [pc |-> "high", tries |-> writer.tries + 1].pc = "high"
        BY Zenon
      <4> QED
        BY <1>1, <4>1, <4>2, <4>3, ZenonT(30) DEF WriterLabels
    <3> QED
      BY <3>1, <3>2, Zenon
  <2>2. UNCHANGED <<chain, sender, starving, bypass, closed>>
    BY <1>9, Zenon DEF Missed, Skip
  <2> QED
    BY <2>1, <2>2, IdleWriterInv, Zenon
<1>10. CASE PopLock
  BY <1>1, <1>10, IdleWriterInv, Zenon DEF PopLock, queueVars, WriterLabels
<1> QED
  BY <1>2, <1>3, <1>4, <1>5, <1>6, <1>7, <1>8, <1>9, <1>10, Zenon DEF WriterStep

\* Close and release: the mux is closed from the first of their steps on.
LEMMA CloserInv ==
    ASSUME WriteInv, Close \/ (closed /\ CloserStep)
    PROVE  WriteInv'
<1>1. closed' /\ UNCHANGED <<sender, writer, bypass>>
  BY Zenon DEF Close, CloserStep, releaseTryPop, releaseBroadcast, Stop, StopBroadcast, queueVars
<1>2. chain' \in [Class -> Seq(Packet)] /\ starving' \in Nat
  <2>1. chain \in [Class -> Seq(Packet)] /\ starving \in Nat
    BY Zenon DEF WriteInv, WriteTypes
  <2>2. CASE UNCHANGED <<chain, starving>>
    BY <2>1, <2>2, Zenon
  <2>3. CASE \E c \in Class : /\ chain[c] # <<>> /\ chain' = [chain EXCEPT ![c] = Tail(@)]
                              /\ starving' \in {starving, Starved(c)}
    <3> PICK c \in Class : /\ chain[c] # <<>> /\ chain' = [chain EXCEPT ![c] = Tail(@)]
                           /\ starving' \in {starving, Starved(c)}
      BY <2>3, ZenonT(30)
    <3>1. Tail(chain[c]) \in Seq(Packet)
      BY <2>1
    <3>2. Starved(c) \in Nat
      BY <2>1, StarvedType, Zenon
    <3> QED
      BY <2>1, <3>1, <3>2, Zenon
  <2> QED
    BY <2>2, <2>3, Zenon DEF Close, CloserStep, releaseTryPop, releaseBroadcast, Stop,
                      StopBroadcast, queueVars
<1> QED
  BY <1>1, <1>2, Zenon DEF WriteInv, WriteTypes, Overtaken

\* The closer has closed the mux.
ClosedFirst == closed \in BOOLEAN /\ (closer \notin {"idle", "never"} => closed)

\* Close closes closeChan before it does anything else.
LEMMA ClosedFirstInv ==
    /\ Init => ClosedFirst
    /\ ClosedFirst /\ [Next]_vars => ClosedFirst'
<1>1. Init => ClosedFirst
  BY ZenonT(30) DEF Init, ClosedFirst
<1>2. ASSUME ClosedFirst, [Next]_vars PROVE ClosedFirst'
  <2>1. CASE Close
    BY <2>1, Zenon DEF Close, ClosedFirst
  <2>2. CASE CloserStep
    BY <1>2, <2>2, Zenon DEF CloserStep, releaseTryPop, releaseBroadcast, Stop, StopBroadcast,
                      queueVars, ClosedFirst
  <2>3. CASE WriterStep
    BY <1>2, <2>3, Zenon DEF WriterStep, WriteTop, TryPopHigh, TryPopMid, TryPopLow, TryPopAgain,
                      afterPop, afterPopBroadcast, Missed, PopLock, queueVars, ClosedFirst
  <2>4. ASSUME NEW s \in Senders, (\E c \in Classes : sendInfo(s, c)) \/ SenderStep(s)
        PROVE  ClosedFirst'
    BY <1>2, <2>4, Zenon DEF sendInfo, SenderStep, BackpressureLock, BackpressureCheck, PushAdd,
                      Push, PushSignal, queueVars, ClosedFirst
  <2>5. CASE UNCHANGED vars
    BY <1>2, <2>5, Zenon DEF vars, ClosedFirst
  <2> QED
    BY <1>2, <2>1, <2>2, <2>3, <2>4, <2>5, Zenon DEF Next
<1> QED
  BY <1>1, <1>2, Zenon

\* One case per goroutine.
LEMMA WriteNextInv == ClosedFirst /\ WriteInv /\ [Next]_vars => WriteInv'
<1> SUFFICES ASSUME ClosedFirst, WriteInv, [Next]_vars PROVE WriteInv'
  BY Zenon
<1>1. ASSUME NEW s \in Senders, (\E c \in Classes : sendInfo(s, c)) \/ SenderStep(s)
      PROVE  WriteInv'
  BY <1>1, SenderInv, Zenon
<1>2. CASE WriterStep
  BY <1>2, WriteSessionInv, Zenon
<1>3. CASE Close
  BY <1>3, CloserInv, Zenon
<1>4. CASE CloserStep
  <2>1. closed
    BY <1>4, Zenon DEF ClosedFirst, CloserStep, releaseTryPop, releaseBroadcast, Stop, StopBroadcast
  <2> QED
    BY <1>4, <2>1, CloserInv, Zenon
<1>5. CASE UNCHANGED vars
  BY <1>5, Zenon DEF vars, WriteInv, WriteTypes, Overtaken
<1> QED
  BY <1>1, <1>2, <1>3, <1>4, <1>5, Zenon DEF Next

\* TryPop: whatever is sent, and however its looks at the chains interleave with
\* pushes, waiting data is overtaken by maxStarving packets and one at the most.
THEOREM DataNotStarved == Spec => []LowestNotStarved
<1>1. WriteInv => LowestNotStarved
  BY Zenon DEF WriteInv, Overtaken, LowestNotStarved
<1> QED
  BY <1>1, WriteInitInv, WriteNextInv, ClosedFirstInv, PTL DEF Spec

-----------------------------------------------------------------------------
(* The receive window (ReceiveQueue) *)

SessionFields == {"pc", "n", "wait"}
ReaderFields == {"pc", "n", "result"}

\* The types of what the argument looks at.
ReceiveTypes ==
    /\ session = [f \in SessionFields |-> session[f]] /\ session.n \in Nat
    /\ reader = [f \in ReaderFields |-> reader[f]] /\ reader.n \in Nat
    /\ segs \in Seq(Nat) /\ len \in Int /\ stopOp \in Int

Reading == {"idle", "pop", "wait", "trypop"}

\* Segments that are counted in session.n, or in len, and not yet in segs.
Taken == IF session.pc \in {"length", "chain"} THEN 1 ELSE 0
Counted == IF session.pc = "chain" THEN 1 ELSE 0

\* While nobody runs Conn.Close: a reader that reads has no result; no segment is
\* lost; a reader that waits has told so, or will be woken; tokens come from the
\* close of the peer, which comes after all segments.
Unclosed ==
    /\ ~isClose /\ app \in {"idle", "once"}
    /\ session.pc \in {"idle", "length", "chain", "allow", "once"}
    /\ reader.pc \in Reading <=> reader.result = "none"
    /\ closeOp => reader.result # "none"
    /\ reader.result \in {"none", "eof", "timeout"}
    /\ reader.result # "timeout" => /\ session.n = reader.n + Len(segs) + Taken
                                    /\ len = Len(segs) + Counted
    /\ session.pc = "once" => closeOp
    /\ reader.result = "eof" => peerClosed /\ segs = <<>>
    /\ peerClosed => session.pc = "idle"
    /\ reader.pc \in Reading /\ stopOp # 0 => peerClosed
    /\ reader.pc = "wait" => \/ len = 0 /\ waitBit = 1
                             \/ session.pc \in {"chain", "allow"} /\ session.wait = 1

ReceiveInv == ReceiveTypes /\ (closing = "no" => Unclosed)

\* Nothing is there at first.
LEMMA ReceiveInitInv == ReceiveInit => ReceiveInv
<1> SUFFICES ASSUME ReceiveInit PROVE ReceiveInv
  BY Zenon
<1>1. ReceiveTypes
  BY DEF ReceiveInit, ReceiveTypes, SessionFields, ReaderFields
<1>2. Len(segs) = 0
  BY Zenon DEF ReceiveInit
<1>3. Unclosed
  BY <1>2 DEF ReceiveInit, Unclosed, Reading, Taken, Counted
<1> QED
  BY <1>1, <1>3, Zenon DEF ReceiveInv

\* The steps of the session goroutine.
LEMMA ReadSessionInv ==
    ASSUME ReceiveInv, Arrive \/ SessionStep \/ PeerClose
    PROVE  ReceiveInv'
<1>1. /\ UNCHANGED <<closing, isClose, app, reader, closeOp>>
      /\ session = [f \in SessionFields |-> session[f]] /\ session.n \in Nat
      /\ segs \in Seq(Nat)
  BY Zenon DEF ReceiveInv, ReceiveTypes, Arrive, SessionStep, PushLength, PushChain, allowPopStopped, PeerClose, closeVars
<1>2. ReceiveTypes'
  <2>1. session' = [f \in SessionFields |-> session'[f]] /\ session'.n \in Nat
    <3>1. CASE Arrive
      <4> DEFINE k == session.n + 1
                 label == IF isClose THEN "idle" ELSE IF closeOp THEN "once" ELSE "length"
      <4>1. session' = [session EXCEPT !.n = k, !.pc = label]
        BY <3>1, Zenon DEF Arrive
      <4>2. k \in Nat
        BY <1>1
      <4> HIDE DEF k, label
      <4> QED
        BY <1>1, <4>1, <4>2, ZenonT(30) DEF SessionFields
    <3>2. CASE PushLength
      BY <1>1, <3>2, ZenonT(30) DEF PushLength, SessionFields
    <3>3. CASE PushChain
      BY <1>1, <3>3, Zenon DEF PushChain, SessionFields
    <3>4. CASE allowPopStopped
      BY <1>1, <3>4, Zenon DEF allowPopStopped, SessionFields
    <3>5. CASE PeerClose
      BY <1>1, <3>5, Zenon DEF PeerClose, SessionFields
    <3> QED
      BY <3>1, <3>2, <3>3, <3>4, <3>5, Zenon DEF SessionStep
  <2>2. segs' \in Seq(Nat)
    <3>1. CASE Arrive
      BY <1>1, <3>1, Zenon DEF Arrive, windowVars
    <3>2. CASE PushLength
      BY <1>1, <3>2, Zenon DEF PushLength, windowVars
    <3>3. CASE PushChain
      BY <1>1, <3>3 DEF PushChain, windowVars
    <3>4. CASE allowPopStopped
      BY <1>1, <3>4, Zenon DEF allowPopStopped, windowVars
    <3>5. CASE PeerClose
      BY <1>1, <3>5, Zenon DEF PeerClose, windowVars
    <3> QED
      BY <3>1, <3>2, <3>3, <3>4, <3>5, Zenon DEF SessionStep
  <2>3. len' \in Int /\ stopOp' \in Int
    BY DEF ReceiveInv, ReceiveTypes, Arrive, SessionStep, PushLength, PushChain, allowPopStopped, PeerClose, StopOnce,
           windowVars, closeVars
  <2> QED
    BY <1>1, <2>1, <2>2, <2>3, Zenon DEF ReceiveInv, ReceiveTypes
<1> SUFFICES ASSUME closing = "no", Unclosed PROVE Unclosed'
  BY <1>1, <1>2, Zenon DEF ReceiveInv
<1>3. CASE Arrive
  <2>1. /\ session.pc = "idle" /\ ~peerClosed /\ session'.n = session.n + 1 /\ session'.wait = session.wait
        /\ session'.pc = IF closeOp THEN "once" ELSE "length"
        /\ UNCHANGED <<len, waitBit, segs, stopOp, peerClosed>>
    BY <1>1, <1>3, Zenon DEF Arrive, windowVars, closeVars, SessionFields, Unclosed
  <2>2. Taken = 0 /\ Counted = 0 /\ Counted' = 0 /\ (~closeOp => Taken' = 1)
    BY <2>1, Zenon DEF Taken, Counted
  <2>3. closeOp => reader.result = "timeout"
    BY <2>1, Zenon DEF Unclosed
  <2>4. Len(segs) \in Nat /\ reader.n \in Nat
    BY <1>1 DEF ReceiveInv, ReceiveTypes
  <2> QED
    BY <1>1, <2>1, <2>2, <2>3, <2>4 DEF Unclosed
<1>4. CASE PushLength
  <2>1. /\ session.pc = "length" /\ session'.n = session.n /\ session'.wait = waitBit
        /\ session'.pc = "chain" /\ len' = len + 1
        /\ UNCHANGED <<segs, stopOp, peerClosed>>
    BY <1>1, <1>4, Zenon DEF PushLength, closeVars, SessionFields
  <2>2. Taken = 1 /\ Taken' = 1 /\ Counted = 0 /\ Counted' = 1
    BY <2>1, Zenon DEF Taken, Counted
  <2>4. Len(segs) \in Nat /\ reader.n \in Nat
    BY <1>1 DEF ReceiveInv, ReceiveTypes
  <2> QED
    BY <1>1, <2>1, <2>2, <2>4 DEF Unclosed
<1>5. CASE PushChain
  <2>1. /\ session.pc = "chain" /\ session'.n = session.n /\ session'.wait = session.wait
        /\ session'.pc = IF session.wait = 1 THEN "allow" ELSE "idle"
        /\ UNCHANGED <<len, waitBit, stopOp, peerClosed>>
    BY <1>1, <1>5, Zenon DEF PushChain, closeVars, SessionFields
  <2>2. Taken = 1 /\ Taken' = 0 /\ Counted = 1 /\ Counted' = 0
    BY <2>1, Zenon DEF Taken, Counted
  <2>4. Len(segs) \in Nat /\ reader.n \in Nat /\ Len(segs') = Len(segs) + 1
    BY <1>1, <1>5 DEF ReceiveInv, ReceiveTypes, PushChain
  <2>5. ~peerClosed /\ reader.result # "eof"
    BY <2>1, Zenon DEF Unclosed
  <2>6. reader.pc = "wait" => session.wait = 1
    <3>1. reader.pc = "wait" => reader.result = "none"
      BY Zenon DEF Unclosed, Reading
    <3> QED
      BY <2>1, <2>2, <2>4, <3>1 DEF Unclosed
  <2> QED
    BY <1>1, <2>1, <2>2, <2>4, <2>5, <2>6 DEF Unclosed
<1>6. CASE allowPopStopped
  <2>1. /\ session.pc = "allow" /\ session'.n = session.n /\ stopOp > 0
        /\ session'.pc = "idle"
        /\ UNCHANGED <<len, waitBit, segs, peerClosed>>
    BY <1>1, <1>6, Zenon DEF allowPopStopped, windowVars, SessionFields
  <2>2. Taken = 0 /\ Taken' = 0 /\ Counted = 0 /\ Counted' = 0
    BY <2>1, Zenon DEF Taken, Counted
  <2>3. reader.pc \notin Reading
    BY <2>1 DEF Unclosed, ReceiveInv, ReceiveTypes
  <2>4. reader.pc # "wait"
    BY <2>3, Zenon DEF Reading
  <2> QED
    BY <1>1, <2>1, <2>2, <2>3, <2>4, Zenon DEF Unclosed
<1>7. CASE PeerClose
  <2>1. session.pc = "idle" /\ peerClosed' /\ UNCHANGED <<session, len, waitBit, segs>>
    BY <1>7, Zenon DEF PeerClose, windowVars
  <2>2. Taken' = Taken /\ Counted' = Counted
    BY <2>1, Zenon DEF Taken, Counted
  <2> QED
    BY <1>1, <2>1, <2>2, Zenon DEF Unclosed
<1> QED
  BY <1>3, <1>4, <1>5, <1>6, <1>7, Zenon DEF SessionStep

\* The steps of the reader.
LEMMA ReaderInv ==
    ASSUME ReceiveInv, ReaderStep \/ readOp \/ waitPushTimeout
    PROVE  ReceiveInv'
<1>1. /\ UNCHANGED <<closing, isClose, app, closeOp, peerClosed>>
      /\ reader = [f \in ReaderFields |-> reader[f]] /\ reader.n \in Nat
      /\ session = [f \in SessionFields |-> session[f]]
      /\ segs \in Seq(Nat) /\ Len(segs) \in Nat
  BY DEF ReceiveInv, ReceiveTypes, ReaderStep, Read, PopLoad, waitPushStopped, TryPop, readOp, waitPushTimeout, closeVars
<1>2. ReceiveTypes'
  <2>1. reader' = [f \in ReaderFields |-> reader'[f]] /\ reader'.n \in Nat
    <3>1. CASE Read
      BY <1>1, <3>1, ZenonT(30) DEF Read, ReaderFields
    <3>2. CASE PopLoad
      BY <1>1, <3>2, Zenon DEF PopLoad, ReaderFields
    <3>3. CASE waitPushStopped
      BY <1>1, <3>3, ZenonT(30) DEF waitPushStopped, ReaderFields
    <3>4. CASE TryPop
      <4> DEFINE k == reader.n + 1
      <4>1. reader' = [reader EXCEPT !.pc = "idle", !.n = k]
        BY <3>4, Zenon DEF TryPop
      <4>2. k \in Nat
        BY <1>1
      <4> HIDE DEF k
      <4> QED
        BY <1>1, <4>1, <4>2, ZenonT(30) DEF ReaderFields
    <3>5. CASE readOp
      BY <1>1, <3>5, ZenonT(30) DEF readOp, ReaderFields
    <3>6. CASE waitPushTimeout
      BY <1>1, <3>6, ZenonT(30) DEF waitPushTimeout, ReaderFields
    <3> QED
      BY <3>1, <3>2, <3>3, <3>4, <3>5, <3>6, Zenon DEF ReaderStep
  <2>2. session' = [f \in SessionFields |-> session'[f]] /\ session'.n \in Nat
    BY <1>1, Zenon DEF ReceiveInv, ReceiveTypes, ReaderStep, Read, PopLoad, waitPushStopped, TryPop, readOp, waitPushTimeout,
                SessionFields
  <2>3. segs' \in Seq(Nat)
    BY <1>1 DEF ReaderStep, Read, PopLoad, waitPushStopped, TryPop, readOp, waitPushTimeout, windowVars
  <2>4. len' \in Int /\ stopOp' \in Int
    BY DEF ReceiveInv, ReceiveTypes, ReaderStep, Read, PopLoad, waitPushStopped, TryPop, readOp, waitPushTimeout,
           windowVars, closeVars
  <2> QED
    BY <2>1, <2>2, <2>3, <2>4, Zenon DEF ReceiveTypes
<1> SUFFICES ASSUME closing = "no", Unclosed PROVE Unclosed'
  BY <1>1, <1>2, Zenon DEF ReceiveInv
<1>3. CASE Read
  <2>1. /\ reader.pc = "idle" /\ reader.result = "none" /\ ~closeOp
        /\ UNCHANGED <<session, len, waitBit, segs, stopOp>>
    BY <1>3, Zenon DEF Read, Unclosed, Reading, windowVars, closeVars
  <2>2. reader'.pc = "pop" /\ reader'.result = reader.result /\ reader'.n = reader.n
    BY <1>1, <1>3, <2>1, Zenon DEF Read, ReaderFields, Unclosed
  <2>3. Taken' = Taken /\ Counted' = Counted
    BY <2>1, Zenon DEF Taken, Counted
  <2> QED
    BY <1>1, <2>1, <2>2, <2>3, Zenon DEF Unclosed, Reading
<1>4. CASE PopLoad
  <2>1. /\ reader.pc = "pop" /\ reader.result = "none"
        /\ UNCHANGED <<session, len, segs, stopOp>>
    BY <1>4, Zenon DEF PopLoad, Unclosed, Reading, closeVars
  <2>2. /\ reader'.pc \in {"wait", "trypop"} /\ reader'.result = "none" /\ reader'.n = reader.n
        /\ reader'.pc = "wait" => len = 0 /\ waitBit' = 1
    BY <1>1, <1>4, <2>1, Zenon DEF PopLoad, ReaderFields
  <2>3. Taken' = Taken /\ Counted' = Counted
    BY <2>1, Zenon DEF Taken, Counted
  <2> QED
    BY <1>1, <2>1, <2>2, <2>3, Zenon DEF Unclosed, Reading
<1>5. CASE waitPushStopped
  <2>1. /\ reader.pc = "wait" /\ reader.result = "none" /\ stopOp # 0
        /\ UNCHANGED <<session, len, waitBit, segs>>
    BY <1>5 DEF waitPushStopped, Unclosed, Reading, windowVars, ReceiveInv, ReceiveTypes
  <2>2. reader'.pc = "check" /\ reader'.result = "eof" /\ reader'.n = reader.n
    BY <1>1, <1>5, Zenon DEF waitPushStopped, ReaderFields
  <2>3. Taken' = Taken /\ Counted' = Counted
    BY <2>1, Zenon DEF Taken, Counted
  <2>4. peerClosed /\ session.pc = "idle" /\ len = 0
    BY <2>1, Zenon DEF Unclosed, Reading
  <2>5. Len(segs) = 0
    BY <1>1, <2>1, <2>4 DEF Unclosed, Counted
  <2>6. segs = <<>>
    BY <1>1, <2>5
  <2> QED
    BY <1>1, <2>1, <2>2, <2>3, <2>4, <2>6, Zenon DEF Unclosed, Reading
<1>6. CASE TryPop
  <2>1. /\ reader.pc = "trypop" /\ reader.result = "none"
        /\ len' = len - 1 /\ UNCHANGED <<session, waitBit, stopOp>>
    BY <1>6, Zenon DEF TryPop, Unclosed, Reading, closeVars
  <2>2. reader'.pc = "idle" /\ reader'.result = "none" /\ reader'.n = reader.n + 1
    BY <1>1, <1>6, <2>1, Zenon DEF TryPop, ReaderFields
  <2>3. Taken' = Taken /\ Counted' = Counted /\ Taken \in Int /\ Counted \in Int
    BY <2>1 DEF Taken, Counted
  <2>4. Len(segs') = Len(segs) - 1 /\ session.n \in Nat /\ len \in Int
    BY <1>1, <1>6 DEF TryPop, ReceiveInv, ReceiveTypes
  <2>5. session.n = reader.n + Len(segs) + Taken /\ len = Len(segs) + Counted
    BY <2>1, Zenon DEF Unclosed
  <2>6. session'.n = reader'.n + Len(segs') + Taken' /\ len' = Len(segs') + Counted'
    <3> DEFINE l == Len(segs) k == reader.n t == Taken c == Counted
    <3>1. l \in Int /\ k \in Int /\ t \in Int /\ c \in Int
      BY <1>1, <2>3
    <3>2. session'.n = k + l + t /\ len' = (l + c) - 1
      BY <2>1, <2>5, Zenon
    <3>3. reader'.n = k + 1 /\ Len(segs') = l - 1 /\ Taken' = t /\ Counted' = c
      BY <2>2, <2>3, <2>4, Zenon
    <3> HIDE DEF l, k, t, c
    <3> QED
      BY <3>1, <3>2, <3>3
  <2> QED
    BY <1>1, <2>1, <2>2, <2>3, <2>6, Zenon DEF Unclosed, Reading
<1>7. CASE readOp
  <2>1. /\ reader.pc = "wait" /\ reader.result = "none" /\ session.pc = "allow"
        /\ UNCHANGED <<len, waitBit, segs, stopOp>>
    BY <1>7, Zenon DEF readOp, Unclosed, Reading, windowVars, closeVars
  <2>2. /\ reader'.pc = "pop" /\ reader'.result = "none" /\ reader'.n = reader.n
        /\ session'.pc = "idle" /\ session'.n = session.n
    BY <1>1, <1>7, <2>1, Zenon DEF readOp, ReaderFields, SessionFields
  <2>3. Taken' = Taken /\ Counted' = Counted
    BY <2>1, <2>2, Zenon DEF Taken, Counted
  <2> QED
    BY <1>1, <2>1, <2>2, <2>3, Zenon DEF Unclosed, Reading
<1>8. CASE waitPushTimeout
  <2>1. /\ reader.pc = "wait" /\ UNCHANGED <<session, len, waitBit, segs, stopOp>>
    BY <1>8, Zenon DEF waitPushTimeout, windowVars, closeVars
  <2>2. reader'.pc = "check" /\ reader'.result = "timeout"
    BY <1>1, <1>8, Zenon DEF waitPushTimeout, ReaderFields
  <2> QED
    BY <1>1, <2>1, <2>2, Zenon DEF Unclosed, Reading
<1> QED
  BY <1>3, <1>4, <1>5, <1>6, <1>7, <1>8, Zenon DEF ReaderStep

\* The steps of CloseConnection.  Before somebody runs Conn.Close only the reader
\* closes the window, after EOF or a timeout.
LEMMA CloseConnectionInv ==
    ASSUME ReceiveInv, NEW g \in Closers, CloseConnection(g)
    PROVE  ReceiveInv'
<1>1. /\ UNCHANGED <<peerClosed, waitBit>>
      /\ closing' = "no" => closing = "no" /\ ~CloseOnce(g) /\ UNCHANGED isClose
  BY Zenon DEF CloseConnection, CloseOnce, CloseCheck, CloseSet, CloseToken, CloseStop, releaseWindow, windowVars, closeVars, Closers
<1>2. PICK label : CloserGoto(g, label)
  BY Zenon DEF CloseConnection, CloseOnce, CloseCheck, CloseSet, CloseToken, CloseStop, releaseWindow
<1>3. ReceiveTypes'
  <2>1. session' = [f \in SessionFields |-> session'[f]] /\ session'.n \in Nat
    BY <1>2, ZenonT(30) DEF CloserGoto, ReceiveInv, ReceiveTypes, SessionFields
  <2>2. reader' = [f \in ReaderFields |-> reader'[f]] /\ reader'.n \in Nat
    BY <1>2, Zenon DEF CloserGoto, ReceiveInv, ReceiveTypes, ReaderFields
  <2>3. segs' \in Seq(Nat)
    <3>1. segs' = segs \/ (segs # <<>> /\ segs' = Tail(segs))
      BY Zenon DEF CloseConnection, CloseOnce, CloseCheck, CloseSet, CloseToken, CloseStop, releaseWindow, windowVars
    <3>2. segs \in Seq(Nat) /\ (segs # <<>> => Tail(segs) \in Seq(Nat))
      BY DEF ReceiveInv, ReceiveTypes
    <3> QED
      BY <3>1, <3>2, Zenon
  <2>4. len' \in Int
    <3>1. len' \in {len, len - 1}
      BY Zenon DEF CloseConnection, CloseOnce, CloseCheck, CloseSet, CloseToken, CloseStop, releaseWindow, windowVars
    <3> QED
      BY <3>1 DEF ReceiveInv, ReceiveTypes
  <2>5. stopOp' \in Int
    <3>1. stopOp' \in {stopOp, stopOp + 2}
      BY Zenon DEF CloseConnection, CloseOnce, CloseCheck, CloseSet, CloseToken, CloseStop, StopOnce, releaseWindow, closeVars
    <3> QED
      BY <3>1 DEF ReceiveInv, ReceiveTypes
  <2> QED
    BY <2>1, <2>2, <2>3, <2>4, <2>5, Zenon DEF ReceiveTypes
<1> SUFFICES ASSUME closing' = "no", closing = "no", Unclosed PROVE Unclosed'
  BY <1>1, <1>3, Zenon DEF ReceiveInv
<1>4. g = "reader" /\ reader.pc \in ClosePcs
  BY <1>1, Zenon DEF CloseConnection, CloseCheck, CloseSet, CloseToken, CloseStop, releaseWindow, pc, Closers, ClosePcs, Unclosed
<1>5. UNCHANGED <<session, app, isClose>>
  BY <1>1, <1>2, <1>4, Zenon DEF CloserGoto, Closers
<1>6. /\ reader'.pc \in ClosePcs \cup {"done"}
      /\ reader'.n = reader.n /\ reader'.result = reader.result
  <2>1. CASE CloseCheck(g)
    BY <1>4, <2>1, Zenon DEF CloseCheck, CloserGoto, ReceiveInv, ReceiveTypes, ReaderFields, ClosePcs
  <2>2. CASE CloseSet(g)
    BY <1>4, <2>2, Zenon DEF CloseSet, CloserGoto, ReceiveInv, ReceiveTypes, ReaderFields, ClosePcs
  <2>3. CASE CloseToken(g)
    BY <1>4, <2>3, Zenon DEF CloseToken, CloserGoto, pc, ReceiveInv, ReceiveTypes, ReaderFields, ClosePcs
  <2>4. CASE CloseStop(g)
    BY <1>4, <2>4, Zenon DEF CloseStop, CloserGoto, ReceiveInv, ReceiveTypes, ReaderFields, ClosePcs
  <2>5. CASE releaseWindow(g)
    BY <1>4, <2>5, Zenon DEF releaseWindow, CloserGoto, Return, ReceiveInv, ReceiveTypes, ReaderFields, ClosePcs
  <2> QED
    BY <1>1, <2>1, <2>2, <2>3, <2>4, <2>5, ZenonT(30) DEF CloseConnection
<1>7. reader.result \in {"eof", "timeout"}
  BY <1>4, Zenon DEF Unclosed, Reading, ClosePcs
<1>8. reader.result = "eof" => UNCHANGED <<segs, len>>
  BY <1>1, Zenon DEF Unclosed, CloseConnection, CloseCheck, CloseSet, CloseToken, CloseStop, releaseWindow, windowVars
<1>9. closeOp => closeOp'
  BY <1>1, ZenonT(30) DEF CloseConnection, CloseCheck, CloseSet, CloseToken, CloseStop, releaseWindow, closeVars
<1>10. Taken' = Taken /\ Counted' = Counted
  BY <1>5, Zenon DEF Taken, Counted
<1> QED
  BY <1>1, <1>5, <1>6, <1>7, <1>8, <1>9, <1>10, Zenon DEF Unclosed, Reading, ClosePcs

\* The application starts to close: nothing else changes.
LEMMA ConnCloseInv ==
    ASSUME ReceiveInv, ConnClose
    PROVE  ReceiveInv'
<1>1. UNCHANGED <<len, waitBit, segs, stopOp, closeOp, closing, isClose, peerClosed, session, reader>>
  BY Zenon DEF ConnClose, windowVars, closeVars
<1>2. app' = "once"
  BY Zenon DEF ConnClose
<1>3. ReceiveTypes'
  BY <1>1, Zenon DEF ReceiveInv, ReceiveTypes
<1>4. Taken' = Taken /\ Counted' = Counted
  BY <1>1, Zenon DEF Taken, Counted
<1> QED
  BY <1>1, <1>2, <1>3, <1>4, Zenon DEF ReceiveInv, Unclosed

\* When the peer closes, Read returns every segment that was sent before the close
\* and then EOF, as long as this side has not closed the connection (Pop, waitPush
\* and StopOnce of lib/mux/queue.go).
THEOREM AllBeforeEOF == ReceiveSpec => []EOFAfterLastSegment
<1>1. ReceiveInv /\ [ReceiveNext]_receiveVars => ReceiveInv'
  <2> SUFFICES ASSUME ReceiveInv, [ReceiveNext]_receiveVars PROVE ReceiveInv'
    BY Zenon
  <2>1. CASE UNCHANGED receiveVars
    <3>1. UNCHANGED <<Taken, Counted, ReceiveTypes>>
      BY <2>1, Zenon DEF receiveVars, Taken, Counted, ReceiveTypes
    <3> QED
      BY <2>1, <3>1, Zenon DEF receiveVars, ReceiveInv, Unclosed
  <2> QED
    BY <2>1, ReadSessionInv, ReaderInv, ConnCloseInv, CloseConnectionInv, Zenon DEF ReceiveNext
<1>2. ReceiveInv => EOFAfterLastSegment
  <2> SUFFICES ASSUME ReceiveInv, reader.result = "eof", closing = "no" PROVE reader.n = session.n
    BY Zenon DEF EOFAfterLastSegment
  <2>1. session.pc = "idle" /\ segs = <<>> /\ session.n = reader.n + Len(segs) + Taken
    BY Zenon DEF ReceiveInv, Unclosed
  <2> QED
    BY <2>1 DEF Taken, ReceiveInv, ReceiveTypes
<1> QED
  BY ReceiveInitInv, <1>1, <1>2, PTL DEF ReceiveSpec

-----------------------------------------------------------------------------
(* The ids (MuxIds) *)

\* The two ends start in different parities.
LEMMA IdsInitInv == IdsInit => IdsTypeOK /\ Allocated
<1> SUFFICES ASSUME IdsInit PROVE IdsTypeOK /\ Allocated
  BY Zenon
<1>1. id["initiator"] = -1 /\ id["acceptor"] = 0 /\ id \in [Ends -> Int]
  BY DEF IdsInit, startId, Ends
<1>2. \A k \in Callers : caller[k].pc = "idle"
  BY Zenon DEF IdsInit, NoConn
<1>n. NoConn \in CallerType
  BY DEF NoConn, CallerType, Labels
<1>3. IdsTypeOK
  BY <1>1, <1>n, ZenonT(30) DEF IdsInit, IdsTypeOK
<1>4. \A e \in Ends : id[e] % 2 = Parity(e)
  BY <1>1 DEF Ends, Parity
<1>5. \A k \in Callers : ~HasId(k)
  BY <1>2, Zenon DEF HasId
<1> QED
  BY <1>3, <1>4, <1>5, Zenon DEF Allocated

\* A step of a caller that moves no counter and gives it no new id preserves
\* the invariant.
LEMMA IdsKeepInv ==
    ASSUME IdsTypeOK, Allocated, NEW k \in Callers, NEW r \in CallerType,
           UNCHANGED <<id, wrapped>>, caller' = [caller EXCEPT ![k] = r],
           r.pc \in {"check", "set", "open"} => HasId(k) /\ r.id = caller[k].id
    PROVE  IdsTypeOK' /\ Allocated'
<1>1. IdsTypeOK'
  BY Zenon DEF IdsTypeOK
<1>2. \A j \in Callers : HasId(j)' => HasId(j) /\ caller'[j].id = caller[j].id
  BY Zenon DEF IdsTypeOK, HasId
<1>3. CASE wrapped
  BY <1>1, <1>3, Zenon DEF Allocated
<1>4. CASE ~wrapped
  <2>1. \A e \in Ends : id'[e] % 2 = Parity(e)
    BY <1>4, Zenon DEF Allocated
  <2>2. \A j \in Callers : HasId(j)' => /\ caller'[j].id % 2 = Parity(End(j))
                                        /\ caller'[j].id <= id'[End(j)]
    BY <1>2, <1>4, Zenon DEF Allocated
  <2>3. \A i, j \in Callers :
           i # j /\ HasId(i)' /\ HasId(j)' => caller'[i].id # caller'[j].id
    BY <1>2, <1>4 DEF Allocated
  <2> QED
    BY <1>1, <2>1, <2>2, <2>3, Zenon DEF Allocated
<1> QED
  BY <1>3, <1>4, Zenon

\* The counter moves on to an id that nobody has: it is above those of its own
\* end and in the other parity than those of the peer.
LEMMA AddIdInv ==
    ASSUME IdsTypeOK, Allocated, NEW k \in Callers, AddId(k)
    PROVE  IdsTypeOK' /\ Allocated'
<1> DEFINE e == End(k)
           new == id[e] + 2
<1>1. e \in Ends /\ id[e] \in Int /\ new \in Int
  BY DEF IdsTypeOK, End, Ends
<1>2. id' = [id EXCEPT ![e] = new]
  BY Zenon DEF AddId
<1>3. id'[e] = new
  BY <1>1, <1>2, Zenon DEF IdsTypeOK
<1>4. caller' = [caller EXCEPT ![k] = [@ EXCEPT !.pc = "check", !.id = new]]
  BY <1>3, ZenonT(30) DEF AddId, IdsTypeOK, CallerType
<1>5. IdsTypeOK'
  BY <1>1, <1>2, <1>4 DEF IdsTypeOK, CallerType, Labels, AddId
<1>6. /\ caller'[k].id = new
      /\ \A j \in Callers \ {k} : caller'[j] = caller[j]
  BY <1>4, Zenon DEF IdsTypeOK, CallerType
<1>7. \A j \in Callers \ {k} : HasId(j)' <=> HasId(j)
  BY <1>6, Zenon DEF HasId
<1>8. CASE wrapped
  BY <1>5, <1>8, Zenon DEF Allocated, AddId
<1>9. CASE ~wrapped
  <2>1. new % 2 = Parity(e)
    BY <1>1, <1>9 DEF Allocated
  <2>2. \A f \in Ends : id'[f] % 2 = Parity(f)
    BY <1>1, <1>2, <1>9, <2>1, Zenon DEF Allocated, IdsTypeOK
  <2>3. \A f \in Ends : id[f] <= id'[f] /\ id'[f] \in Int /\ id[f] \in Int
    BY <1>1, <1>2 DEF IdsTypeOK
  <2>4. \A j \in Callers : End(j) \in Ends /\ caller[j].id \in Int
    BY Zenon DEF End, Ends, IdsTypeOK, CallerType
  <2>5. \A j \in Callers \ {k} : HasId(j) => caller[j].id # new
    <3> SUFFICES ASSUME NEW j \in Callers \ {k}, HasId(j) PROVE caller[j].id # new
      BY Zenon
    <3>1. caller[j].id % 2 = Parity(End(j)) /\ caller[j].id <= id[End(j)]
      BY <1>9, Zenon DEF Allocated
    <3>2. CASE End(j) = e
      BY <1>1, <2>4, <3>1, <3>2
    <3>3. CASE End(j) # e
      <4>1. Parity(End(j)) # Parity(e)
        BY <1>1, <2>4, <3>3 DEF Parity, Ends
      <4> QED
        BY <2>1, <3>1, <4>1, Zenon
    <3> QED
      BY <3>2, <3>3, Zenon
  <2>6. \A j \in Callers : HasId(j)' => /\ caller'[j].id % 2 = Parity(End(j))
                                        /\ caller'[j].id <= id'[End(j)]
    <3> SUFFICES ASSUME NEW j \in Callers, HasId(j)'
                 PROVE  caller'[j].id % 2 = Parity(End(j)) /\ caller'[j].id <= id'[End(j)]
      BY Zenon
    <3>1. CASE j = k
      BY <1>1, <1>3, <1>6, <2>1, <3>1
    <3>2. CASE j # k
      <4>1. caller[j].id % 2 = Parity(End(j)) /\ caller[j].id <= id[End(j)]
        BY <1>7, <1>9, <3>2, Zenon DEF Allocated
      <4> QED
        BY <1>6, <2>3, <2>4, <3>2, <4>1
    <3> QED
      BY <3>1, <3>2, Zenon
  <2>7. \A i, j \in Callers :
           i # j /\ HasId(i)' /\ HasId(j)' => caller'[i].id # caller'[j].id
    <3> SUFFICES ASSUME NEW i \in Callers, NEW j \in Callers, i # j, HasId(i)', HasId(j)'
                 PROVE  caller'[i].id # caller'[j].id
      BY Zenon
    <3>1. CASE i # k /\ j # k
      BY <1>6, <1>7, <1>9, <3>1, Zenon DEF Allocated
    <3>2. CASE i = k
      BY <1>6, <1>7, <2>5, <3>2, Zenon
    <3>3. CASE j = k
      BY <1>6, <1>7, <2>5, <3>3, Zenon
    <3> QED
      BY <3>1, <3>2, <3>3, Zenon
  <2> QED
    BY <1>5, <2>2, <2>6, <2>7, Zenon DEF Allocated
<1> QED
  BY <1>8, <1>9, Zenon

\* One case per action of a caller.
LEMMA IdsNextInv == IdsTypeOK /\ Allocated /\ [IdsNext]_idsVars => IdsTypeOK' /\ Allocated'
<1> SUFFICES ASSUME IdsTypeOK, Allocated, [IdsNext]_idsVars PROVE IdsTypeOK' /\ Allocated'
  BY Zenon
<1>1. CASE UNCHANGED idsVars
  BY <1>1, Zenon DEF idsVars, IdsTypeOK, Allocated, HasId
<1>2. CASE IdsNext
  <2> PICK k \in Callers : \/ getId(k) \/ ResetId(k) \/ AddId(k) \/ CheckId(k)
                           \/ SetConn(k) \/ ArriveConn(k) \/ DeleteConn(k)
    BY <1>2, Zenon DEF IdsNext
  <2>k. caller \in [Callers -> CallerType] /\ caller[k] \in CallerType
    BY Zenon DEF IdsTypeOK
  <2>1. CASE getId(k)
    <3> DEFINE r == [caller[k] EXCEPT !.pc = IF MaxInt - id[End(k)] < Margin
                                             THEN "reset" ELSE "add"]
    <3>1. r \in CallerType /\ r.pc \in {"reset", "add"}
      BY <2>k, Zenon DEF CallerType, Labels
    <3>2. caller' = [caller EXCEPT ![k] = r] /\ UNCHANGED <<id, wrapped>>
      BY <2>1, <2>k, Zenon DEF getId, CallerGoto
    <3> QED
      BY <3>1, <3>2, IdsKeepInv, ZenonT(30)
  <2>2. CASE ResetId(k)
    <3>1. IdsTypeOK'
      BY <2>2, <2>k DEF ResetId, CallerGoto, IdsTypeOK, CallerType, Labels, End, Ends
    <3> QED
      BY <2>2, <3>1, ZenonT(30) DEF ResetId, Allocated
  <2>3. CASE AddId(k)
    BY <2>3, AddIdInv, Zenon
  <2>4. CASE CheckId(k)
    <3> DEFINE r == [caller[k] EXCEPT !.pc = IF InMap(End(k), caller[k].id)
                                             THEN "again" ELSE "set"]
    <3>1. r \in CallerType /\ r.id = caller[k].id
      BY <2>k, Zenon DEF CallerType, Labels
    <3>2. caller' = [caller EXCEPT ![k] = r] /\ UNCHANGED <<id, wrapped>>
      BY <2>4, <2>k, Zenon DEF CheckId, CallerGoto
    <3>3. HasId(k)
      BY <2>4, ZenonT(30) DEF CheckId, HasId
    <3> QED
      BY <3>1, <3>2, <3>3, IdsKeepInv, ZenonT(30)
  <2>5. CASE SetConn(k)
    <3> DEFINE r == [caller[k] EXCEPT !.pc = "open"]
    <3>1. r \in CallerType /\ r.id = caller[k].id
      BY <2>k, Zenon DEF CallerType, Labels
    <3>2. caller' = [caller EXCEPT ![k] = r] /\ UNCHANGED <<id, wrapped>> /\ HasId(k)
      BY <2>5, <2>k, Zenon DEF SetConn, HasId
    <3> QED
      BY <3>1, <3>2, IdsKeepInv, ZenonT(30)
  <2>6. CASE ArriveConn(k)
    <3> DEFINE r == [caller[k] EXCEPT !.arrived = TRUE]
    <3>1. r \in CallerType /\ r.id = caller[k].id
      BY <2>k, ZenonT(30) DEF CallerType, Labels
    <3>2. caller' = [caller EXCEPT ![k] = r] /\ UNCHANGED <<id, wrapped>> /\ HasId(k)
      BY <2>6, <2>k, Zenon DEF ArriveConn, Open, HasId
    <3> QED
      BY <3>1, <3>2, IdsKeepInv, ZenonT(30)
  <2>7. CASE DeleteConn(k)
    <3>1. NoConn \in CallerType /\ NoConn.pc = "idle"
      BY DEF NoConn, CallerType, Labels
    <3>2. caller' = [caller EXCEPT ![k] = NoConn] /\ UNCHANGED <<id, wrapped>>
      BY <2>7, Zenon DEF DeleteConn
    <3> QED
      BY <3>1, <3>2, IdsKeepInv, ZenonT(30)
  <2> QED
    BY <2>1, <2>2, <2>3, <2>4, <2>5, <2>6, <2>7, Zenon
<1> QED
  BY <1>1, <1>2, Zenon

\* getId: for any number of callers at either end, no two open connections have
\* the same id as long as neither end has started again from 0.
THEOREM IdsUniqueUntilReset == IdsSpec => []UniqueUntilReset
<1>1. IdsTypeOK /\ Allocated => UniqueUntilReset
  BY Zenon DEF Allocated, UniqueUntilReset, UniqueIds, Open, HasId
<1> QED
  BY <1>1, IdsInitInv, IdsNextInv, PTL DEF IdsSpec

-----------------------------------------------------------------------------
(* The windows of a connection (MuxWindow) *)

\* Appending the interval that starts where a chain ends extends the chain.
LEMMA ChainAppend ==
    ASSUME NEW S, \A x \in S : x.lo \in Nat /\ x.hi \in Nat,
           NEW s \in Seq(S), NEW e \in S, NEW a \in Nat, NEW b \in Nat,
           Chain(s, a, b), e.lo = b, b <= e.hi
    PROVE  Chain(Append(s, e), a, e.hi)
<1> DEFINE t == Append(s, e)
<1>1. /\ t \in Seq(S) /\ Len(s) \in Nat /\ Len(t) = Len(s) + 1
      /\ DOMAIN s = 1..Len(s) /\ DOMAIN t = 1..(Len(s) + 1)
      /\ \A i \in 1..Len(s) : t[i] = s[i] /\ s[i] \in S
      /\ t[Len(s) + 1] = e
  OBVIOUS
<1>2. t # <<>>
  BY <1>1
<1>3. e.lo \in Nat /\ e.hi \in Nat /\ a <= e.hi
  BY DEF Chain
<1>4. t[1].lo = a /\ t[Len(t)].hi = e.hi
  <2>1. CASE s = <<>>
    BY <2>1, <1>1 DEF Chain
  <2>2. CASE s # <<>>
    BY <2>2, <1>1 DEF Chain
  <2> QED BY <2>1, <2>2, Zenon
<1>5. \A i \in 1..Len(s) : s[i].lo \in Nat /\ s[i].hi \in Nat /\ a <= s[i].lo
                           /\ s[i].lo <= s[i].hi /\ s[i].hi <= b
  BY <1>1, Zenon DEF Chain
<1>6. \A i \in DOMAIN t : a <= t[i].lo /\ t[i].lo <= t[i].hi /\ t[i].hi <= e.hi
  BY <1>1, <1>3, <1>5 DEF Chain
<1>7. ASSUME NEW i \in DOMAIN t, i < Len(t)
      PROVE  t[i].hi = t[i + 1].lo
  <2>1. CASE i = Len(s)
    BY <2>1, <1>1 DEF Chain
  <2>2. CASE i < Len(s)
    BY <2>2, <1>1 DEF Chain
  <2> QED BY <1>1, <1>7, <2>1, <2>2
<1>8. ASSUME NEW i \in DOMAIN t, NEW j \in DOMAIN t, i < j
      PROVE  t[i].hi <= t[j].lo
  <2>1. CASE j = Len(s) + 1
    BY <2>1, <1>1, <1>5, <1>8
  <2>2. CASE j < Len(s) + 1
    BY <2>2, <1>1, <1>8 DEF Chain
  <2> QED BY <1>1, <2>1, <2>2
<1> HIDE DEF t
<1>9. Chain(t, a, e.hi)
  BY <1>2, <1>3, <1>4, <1>6, <1>7, <1>8, Zenon DEF Chain
<1> QED BY <1>9, Zenon DEF t

\* Taking the first interval off a chain leaves a chain that starts at its end.
LEMMA ChainTail ==
    ASSUME NEW S, \A x \in S : x.lo \in Nat /\ x.hi \in Nat,
           NEW s \in Seq(S), NEW a \in Nat, NEW b \in Nat,
           Chain(s, a, b), s # <<>>
    PROVE  /\ Head(s) \in S /\ Head(s).lo = a /\ a <= Head(s).hi /\ Head(s).hi <= b
           /\ Tail(s) \in Seq(S) /\ Chain(Tail(s), Head(s).hi, b)
<1> DEFINE t == Tail(s)
<1>1. /\ t \in Seq(S) /\ Len(s) \in Nat \ {0} /\ Len(t) = Len(s) - 1
      /\ DOMAIN s = 1..Len(s) /\ DOMAIN t = 1..(Len(s) - 1)
      /\ \A i \in 1..(Len(s) - 1) : t[i] = s[i + 1]
      /\ \A i \in 1..Len(s) : s[i] \in S
      /\ Head(s) = s[1] /\ 1 \in DOMAIN s
  OBVIOUS
<1>2. /\ Head(s) \in S /\ Head(s).lo = a /\ a <= Head(s).hi /\ Head(s).hi <= b
      /\ Head(s).hi \in Nat
  BY <1>1, Zenon DEF Chain
<1>3. t = <<>> => Head(s).hi = b
  BY <1>1 DEF Chain
<1>4. ASSUME t # <<>>
      PROVE  t[1].lo = Head(s).hi /\ t[Len(t)].hi = b
  <2>1. Len(t) # 0
    BY <1>1, <1>4
  <2>2. /\ 1 < Len(s) /\ t[1] = s[1 + 1]
        /\ t[Len(t)] = s[Len(s)]
    BY <1>1, <2>1
  <2> QED BY <1>1, <2>2, Zenon DEF Chain
<1>5. ASSUME NEW i \in DOMAIN t
      PROVE  Head(s).hi <= t[i].lo /\ t[i].lo <= t[i].hi /\ t[i].hi <= b
  <2>1. i + 1 \in DOMAIN s /\ t[i] = s[i + 1] /\ 1 < i + 1
    BY <1>1, <1>5
  <2> QED BY <1>1, <2>1, ZenonT(30) DEF Chain
<1>6. ASSUME NEW i \in DOMAIN t, i < Len(t)
      PROVE  t[i].hi = t[i + 1].lo
  <2>1. /\ i + 1 \in DOMAIN s /\ t[i] = s[i + 1] /\ i + 1 < Len(s)
        /\ t[i + 1] = s[(i + 1) + 1]
    BY <1>1, <1>6
  <2> QED BY <2>1, Zenon DEF Chain
<1>7. ASSUME NEW i \in DOMAIN t, NEW j \in DOMAIN t, i < j
      PROVE  t[i].hi <= t[j].lo
  <2>1. /\ i + 1 \in DOMAIN s /\ t[i] = s[i + 1]
        /\ j + 1 \in DOMAIN s /\ t[j] = s[j + 1] /\ i + 1 < j + 1
    BY <1>1, <1>7
  <2> QED BY <2>1, Zenon DEF Chain
<1> HIDE DEF t
<1>8. Chain(t, Head(s).hi, b)
  BY <1>2, <1>3, <1>4, <1>5, <1>6, <1>7, Zenon DEF Chain
<1> QED BY <1>1, <1>2, <1>8, Zenon DEF t

\* What holds of every element of a sequence and of e holds after Append, and
\* what holds of every element holds after Tail.
LEMMA NonemptyAppend ==
    ASSUME NEW S, NEW s \in Seq(S), NEW e \in S,
           \A i \in DOMAIN s : s[i].lo < s[i].hi, e.lo < e.hi
    PROVE  \A i \in DOMAIN Append(s, e) : Append(s, e)[i].lo < Append(s, e)[i].hi
<1> SUFFICES ASSUME NEW i \in DOMAIN Append(s, e)
             PROVE  Append(s, e)[i].lo < Append(s, e)[i].hi
  BY Zenon
<1>1. Len(s) \in Nat /\ DOMAIN s = 1..Len(s) /\ i \in 1..(Len(s) + 1)
  OBVIOUS
<1>2. CASE i = Len(s) + 1
  BY <1>2
<1>3. CASE i \in 1..Len(s)
  BY <1>3, <1>1
<1> QED BY <1>1, <1>2, <1>3

\* The same for the first segment and for the rest.
LEMMA NonemptyTail ==
    ASSUME NEW S, NEW s \in Seq(S), s # <<>>,
           \A i \in DOMAIN s : s[i].lo < s[i].hi
    PROVE  /\ Head(s).lo < Head(s).hi
           /\ \A i \in DOMAIN Tail(s) : Tail(s)[i].lo < Tail(s)[i].hi
<1>1. /\ Len(s) \in Nat \ {0} /\ DOMAIN s = 1..Len(s) /\ Head(s) = s[1]
      /\ DOMAIN Tail(s) = 1..(Len(s) - 1)
      /\ \A i \in 1..(Len(s) - 1) : Tail(s)[i] = s[i + 1]
  OBVIOUS
<1>2. \A i \in 1..(Len(s) - 1) : i + 1 \in DOMAIN s
  BY <1>1
<1> QED BY <1>1, <1>2

\* The ends of segments and acknowledgements are numbers.
LEMMA IntervalTypes ==
    /\ \A x \in SegType : x.lo \in Nat /\ x.hi \in Nat
    /\ \A x \in AckType : x.lo \in Nat /\ x.hi \in Nat
BY Zenon DEF SegType, AckType
-------------------------------------------------------------------------------
\* The inductive invariant.
WindowInv == WindowTypeOK /\ BytesConserved

USE DEF Acker

\* Two empty windows and no byte under way.
LEMMA InitWindowInv == WindowInit => WindowInv
<1> SUFFICES ASSUME WindowInit PROVE WindowInv
  BY Zenon
<1> USE DEF WindowInit, Window, Seg, NoWindow
<1>1. WindowTypeOK
  BY MuxWindowAssumption
  DEF WindowTypeOK, WindowType, SegType, AckType, WriterType, SessionType, ReaderType
<1>2. WriterInv
  BY MuxWindowAssumption DEF WriterInv
<1>3. SegmentsInv
  BY DEF SegmentsInv, Chain, arrivedPos
<1>4. AcksInv
  BY MuxWindowAssumption DEF AcksInv, Chain, countedPos
<1> QED BY <1>1, <1>2, <1>3, <1>4, Zenon DEF WindowInv, BytesConserved

\* The steps of the writer.
LEMMA WriterSteps == WindowInv /\ Writer => WindowInv'
<1> SUFFICES ASSUME WindowInv, Writer PROVE WindowInv'
  BY Zenon
<1> USE DEF rcvVars
<1>0. WindowTypeOK /\ WriterInv /\ SegmentsInv /\ AcksInv
  BY Zenon DEF WindowInv, BytesConserved
<1>1. ASSUME NEW n \in WriteSizes, WriteFull(n) PROVE WindowInv'
  <2>1. WindowTypeOK'
    BY <1>0, <1>1, MuxWindowAssumption, ZenonT(30) DEF WindowTypeOK, WriteFull, WriterType
  <2>2. WriterInv'
    <3>1. connWriter'.pc = "start" /\ connWriter'.left = n /\ connWriter'.size = connWriter.size
          /\ n > 0 /\ connWriter.pc = "idle" /\ snd' = snd
      <4>1. connWriter \in WriterType /\ n > 0
        BY <1>0, MuxWindowAssumption DEF WindowTypeOK
      <4> QED BY <1>1, <4>1, Zenon DEF WriteFull, WriterType
    <3> QED BY <1>0, <3>1, Zenon DEF WriterInv
  <2>3. SegmentsInv' /\ AcksInv'
    BY <1>0, <1>1, Zenon DEF SegmentsInv, AcksInv, arrivedPos, countedPos, WriteFull
  <2> QED BY <2>1, <2>2, <2>3, Zenon DEF WindowInv, BytesConserved
<1>2. ASSUME WriteTo PROVE WindowInv'
  <2>0. snd.max \in Nat /\ snd.done \in Nat /\ connWriter.left \in Nat /\ connWriter.left > 0
    BY <1>0, <1>2, Zenon DEF WindowTypeOK, WindowType, WriterType, WriterInv, WriteTo
  <2>a. /\ sndRemaining \in Nat /\ sndRemaining > 0
        /\ snd.done + sndRemaining <= snd.max
    BY <1>2, <2>0 DEF WriteTo, sndRemaining, AtLeast0
  <2> DEFINE size == Min2(sndRemaining, Min2(MSS, connWriter.left))
  <2>b. size \in Nat /\ size > 0 /\ size <= connWriter.left /\ size <= sndRemaining
    BY <2>0, <2>a, MuxWindowAssumption DEF Min2
  <2> HIDE DEF size
  <2>c. connWriter' = [connWriter EXCEPT !.pc = "sent", !.size = size]
    BY <1>2, Zenon DEF WriteTo, size
  <2>1. WindowTypeOK'
    BY <1>0, <1>2, <2>b, <2>c, ZenonT(30) DEF WindowTypeOK, WriteTo, WriterType
  <2>2. WriterInv'
    <3>1. /\ connWriter'.pc = "sent" /\ connWriter'.left = connWriter.left
          /\ connWriter'.size = size /\ snd' = snd
      BY <1>0, <1>2, <2>c, ZenonT(30) DEF WindowTypeOK, WriteTo, WriterType
    <3> QED BY <1>0, <2>0, <2>a, <2>b, <3>1, MuxWindowAssumption DEF WriterInv
  <2>3. SegmentsInv' /\ AcksInv'
    BY <1>0, <1>2, Zenon DEF SegmentsInv, AcksInv, arrivedPos, countedPos, WriteTo
  <2> QED BY <2>1, <2>2, <2>3, Zenon DEF WindowInv, BytesConserved
<1>3. ASSUME WriteToFull PROVE WindowInv'
  <2>1. WindowTypeOK'
    BY <1>0, <1>3, ZenonT(30) DEF WindowTypeOK, WriterType, WriteToFull, WindowType
  <2>2. WriterInv'
    BY <1>0, <1>3, Zenon DEF WindowTypeOK, WriterInv, WindowType, WriterType, WriteToFull
  <2>3. SegmentsInv' /\ AcksInv'
    BY <1>0, <1>3, Zenon
    DEF SegmentsInv, AcksInv, arrivedPos, countedPos, WriteToFull, WindowTypeOK, WindowType
  <2> QED BY <2>1, <2>2, <2>3, Zenon DEF WindowInv, BytesConserved
<1>4. ASSUME sentSeg PROVE WindowInv'
  <2> DEFINE seg == Seg(sentPos, sentPos + connWriter.size, connWriter.size < connWriter.left)
  <2>0. /\ connWriter.size \in Nat /\ connWriter.size > 0 /\ connWriter.size <= connWriter.left
        /\ connWriter.left \in Nat /\ sentPos \in Nat /\ snd \in WindowType
    BY <1>0, <1>4, Zenon DEF WindowTypeOK, WriterInv, WriterType, sentSeg
  <2>1. /\ seg \in SegType /\ seg.lo = sentPos /\ seg.hi = sentPos + connWriter.size
        /\ seg.part = (connWriter.size < connWriter.left)
        /\ data' = Append(data, seg) /\ sentPos' = seg.hi
    BY <2>0, <1>4 DEF SegType, Seg, sentSeg
  <2>a. connWriter' = [pc |-> IF connWriter.size < connWriter.left THEN "start" ELSE "idle",
                   left |-> connWriter.left - connWriter.size, size |-> 0]
    BY <1>4, ZenonT(30) DEF sentSeg, Seg
  <2> HIDE DEF seg
  <2>b. /\ snd' \in WindowType /\ snd'.done = snd.done + connWriter.size
        /\ snd'.max = snd.max
    <3>1. snd' = [snd EXCEPT !.done = @ + connWriter.size]
      BY <1>4, Zenon DEF sentSeg
    <3> QED BY <2>0, <3>1 DEF WindowType
  <2>2. WindowTypeOK'
    <3>1. data' \in Seq(SegType) /\ sentPos' \in Nat
      BY <1>0, <2>0, <2>1 DEF WindowTypeOK
    <3>2. connWriter' \in WriterType
      BY <2>0, <2>a DEF WriterType
    <3> QED BY <1>0, <1>4, <2>b, <3>1, <3>2, Zenon DEF WindowTypeOK, sentSeg
  <2>3. WriterInv'
    <3>1. /\ connWriter'.size = 0 /\ connWriter'.pc \in {"start", "idle"}
          /\ connWriter'.pc = "start" => connWriter'.left > 0
      BY <2>0, <2>1, <2>a
    <3> QED BY <1>0, <2>0, <2>b, <3>1 DEF WriterInv, WindowType
  <2>4. Chain(data, arrivedPos, sentPos) /\ arrivedPos \in Nat
    BY <1>0, Zenon DEF SegmentsInv, WindowTypeOK, SegType, SessionType, arrivedPos
  <2>5. Chain(data', arrivedPos, sentPos')
    <3>1. data \in Seq(SegType) /\ sentPos <= seg.hi
      BY <1>0, <2>0, <2>1 DEF WindowTypeOK
    <3>2. Chain(Append(data, seg), arrivedPos, seg.hi)
      BY <2>0, <2>1, <2>4, <3>1, IntervalTypes, ChainAppend, Zenon
    <3> QED BY <2>1, <3>2, Zenon
  <2>6. \A i \in DOMAIN data' : data'[i].lo < data'[i].hi
    <3>1. data \in Seq(SegType) /\ seg.lo < seg.hi
      BY <1>0, <2>0, <2>1 DEF WindowTypeOK
    <3> QED BY <1>0, <2>1, <3>1, NonemptyAppend, Zenon DEF SegmentsInv
  <2>7. SegmentsInv'
    BY <1>0, <1>4, <2>5, <2>6, Zenon DEF SegmentsInv, sentSeg, arrivedPos
  <2>8. AcksInv'
    <3>1. UNCHANGED <<acks, applied, rcv, rcvSession, connReader, told>>
      BY <1>4, Zenon DEF sentSeg
    <3>2. applied["session"] \in Nat /\ applied["reader"] \in Nat /\ snd.done \in Nat
      BY <1>0, Zenon DEF WindowTypeOK, WindowType
    <3>3. snd'.done = sentPos' - applied'["session"] - applied'["reader"]
      <4>1. snd.done = sentPos - applied["session"] - applied["reader"]
        BY <1>0, ZenonT(30) DEF AcksInv
      <4>2. /\ snd'.done = snd.done + connWriter.size /\ sentPos' = sentPos + connWriter.size
            /\ applied' = applied
        BY <2>1, <2>b, <3>1, ZenonT(30)
      <4> QED BY <2>0, <3>2, <4>1, <4>2
    <3>4. countedPos' = countedPos
      BY <3>1, Zenon DEF countedPos
    <3>5. countedPos' = rcv'.done + rcvSession'.done + told'["session"] + told'["reader"]
      BY <1>0, <3>1, <3>4, Zenon DEF AcksInv
    <3> HIDE DEF countedPos
    <3> QED BY <1>0, <3>1, <3>3, <3>5, ZenonT(30) DEF AcksInv
  <2> QED BY <2>2, <2>3, <2>7, <2>8, Zenon DEF WindowInv, BytesConserved
<1>5. ASSUME waitReceiveWindow PROVE WindowInv'
  <2>1. WindowTypeOK'
    BY <1>0, <1>5, ZenonT(30) DEF WindowTypeOK, WriterType, waitReceiveWindow
  <2>2. WriterInv'
    BY <1>0, <1>5, Zenon DEF WindowTypeOK, WriterInv, WindowType, WriterType, waitReceiveWindow
  <2>3. SegmentsInv' /\ AcksInv'
    BY <1>0, <1>5, Zenon DEF SegmentsInv, AcksInv, arrivedPos, countedPos, waitReceiveWindow
  <2> QED BY <2>1, <2>2, <2>3, Zenon DEF WindowInv, BytesConserved
<1>6. ASSUME waitTimeout PROVE WindowInv'
  <2>1. WindowTypeOK'
    BY <1>0, <1>6, ZenonT(30) DEF WindowTypeOK, WriterType, waitTimeout
  <2>2. WriterInv'
    BY <1>0, <1>6, Zenon DEF WindowTypeOK, WriterInv, WindowType, WriterType, waitTimeout
  <2>3. SegmentsInv' /\ AcksInv'
    BY <1>0, <1>6, Zenon DEF SegmentsInv, AcksInv, arrivedPos, countedPos, waitTimeout
  <2> QED BY <2>1, <2>2, <2>3, Zenon DEF WindowInv, BytesConserved
<1> QED BY <1>1, <1>2, <1>3, <1>4, <1>5, <1>6, Zenon DEF Writer

\* How the positions of the stream are ordered.
LEMMA Positions ==
    ASSUME WindowInv
    PROVE  /\ sentPos \in Nat /\ arrivedPos \in Nat /\ pushedPos \in Nat
           /\ connReader.seg.hi \in Nat /\ countedPos \in Nat
           /\ countedPos <= connReader.seg.hi /\ connReader.seg.hi <= pushedPos
           /\ pushedPos <= arrivedPos /\ arrivedPos <= sentPos
<1>0. WindowTypeOK /\ SegmentsInv
  BY Zenon DEF WindowInv, BytesConserved
<1>1. /\ sentPos \in Nat /\ pushedPos \in Nat
      /\ rcvSession.seg.hi \in Nat /\ connReader.seg.hi \in Nat /\ connReader.seg.lo \in Nat
      /\ connReader.off \in Nat
  BY <1>0, Zenon DEF WindowTypeOK, SessionType, ReaderType, SegType
<1>2. countedPos \in Nat /\ countedPos <= connReader.seg.hi
  BY <1>0, <1>1 DEF countedPos, SegmentsInv
<1>3. arrivedPos \in Nat /\ pushedPos <= arrivedPos
  BY <1>0, <1>1 DEF arrivedPos, SegmentsInv
<1>4. connReader.seg.hi <= pushedPos /\ arrivedPos <= sentPos
  BY <1>0, Zenon DEF SegmentsInv, Chain
<1> QED BY <1>1, <1>2, <1>3, <1>4, Zenon

\* What was reported and is not applied yet is still in the send window.
LEMMA ReportedInFlight ==
    ASSUME WindowInv, NEW a \in Acker
    PROVE  /\ applied[a] \in Nat /\ told[a] \in Nat /\ snd.done \in Nat
           /\ applied[a] <= told[a] /\ told[a] - applied[a] <= snd.done
<1>0. WindowTypeOK /\ AcksInv
  BY Zenon DEF WindowInv, BytesConserved
<1>1. /\ applied["session"] \in Nat /\ applied["reader"] \in Nat
      /\ told["session"] \in Nat /\ told["reader"] \in Nat
      /\ rcv.done \in Nat /\ rcvSession.done \in Nat /\ snd.done \in Nat
  BY <1>0, Zenon DEF WindowTypeOK, WindowType, SessionType
<1>2. /\ applied["session"] <= told["session"] /\ applied["reader"] <= told["reader"]
  BY <1>0, ZenonT(30) DEF AcksInv, Chain
<1>3. /\ countedPos = rcv.done + rcvSession.done + told["session"] + told["reader"]
      /\ snd.done = sentPos - applied["session"] - applied["reader"]
  BY <1>0, Zenon DEF AcksInv
<1>4. countedPos \in Nat /\ sentPos \in Nat /\ countedPos <= sentPos
  BY Positions
<1>5. a = "session" \/ a = "reader"
  BY Zenon
<1> QED BY <1>1, <1>2, <1>3, <1>4, <1>5

\* An acknowledgement is taken off its channel.
LEMMA SetSizeInv ==
    ASSUME WindowInv, NEW a \in Acker, SetSize(a)
    PROVE  WindowInv'
<1>0. WindowTypeOK /\ WriterInv /\ SegmentsInv /\ AcksInv
  BY Zenon DEF WindowInv, BytesConserved
<1> DEFINE ack == Head(acks[a])
           read == ack.hi - ack.lo
<1>1. /\ acks[a] \in Seq(AckType) /\ acks[a] # <<>>
      /\ Chain(acks[a], applied[a], told[a])
  BY <1>0, ZenonT(30) DEF WindowTypeOK, AcksInv, SetSize
<1>2. /\ applied[a] \in Nat /\ told[a] \in Nat /\ snd.done \in Nat
      /\ applied[a] <= told[a] /\ told[a] - applied[a] <= snd.done
  BY ReportedInFlight, Zenon
<1>3. /\ ack \in AckType /\ ack.lo = applied[a] /\ applied[a] <= ack.hi
      /\ ack.hi <= told[a] /\ Tail(acks[a]) \in Seq(AckType)
      /\ Chain(Tail(acks[a]), ack.hi, told[a])
  BY <1>1, <1>2, IntervalTypes, ChainTail, Zenon
<1>4. ack.max <= MaxWindow
  BY <1>0, <1>1 DEF AcksInv
<1>5. /\ \A i \in DOMAIN Tail(acks[a]) : Tail(acks[a])[i].max <= MaxWindow
  <2> SUFFICES ASSUME NEW i \in DOMAIN Tail(acks[a])
               PROVE  Tail(acks[a])[i].max <= MaxWindow
    BY Zenon
  <2>1. i + 1 \in DOMAIN acks[a] /\ Tail(acks[a])[i] = acks[a][i + 1]
    BY <1>1
  <2> QED BY <1>0, <2>1, Zenon DEF AcksInv
<1>6. /\ applied' = [applied EXCEPT ![a] = ack.hi]
      /\ acks' = [acks EXCEPT ![a] = Tail(acks[a])]
      /\ UNCHANGED <<connWriter, sentPos, data, rcv, rcvSession, bufQueue, qlen, pushedPos,
                     connReader, told>>
  BY ZenonT(30) DEF SetSize, rcvVars
<1>7. /\ ack.lo \in Nat /\ ack.hi \in Nat /\ ack.max \in Nat
      /\ read \in Nat /\ read <= snd.done
  <2>1. ack.lo \in Nat /\ ack.hi \in Nat /\ ack.max \in Nat
    BY <1>3, Zenon DEF AckType
  <2>2. ack.lo = applied[a] /\ applied[a] <= ack.hi /\ ack.hi <= told[a]
    BY <1>3, Zenon
  <2> HIDE DEF ack
  <2> QED BY <1>2, <2>1, <2>2
<1> HIDE DEF ack
<1>8. /\ snd' \in WindowType /\ snd'.done = snd.done - read
      /\ snd'.max <= MaxWindow /\ setSizeCh' \in {0, 1}
  <2>1. CASE read = 0 /\ ack.max = snd.max
    <3>1. UNCHANGED <<snd, setSizeCh>>
      BY <2>1, Zenon DEF SetSize, ack
    <3> QED BY <1>0, <1>2, <2>1, <3>1 DEF WindowTypeOK, WriterInv
  <2>2. CASE ~(read = 0 /\ ack.max = snd.max)
    <3> DEFINE nextWait == AtLeast0(ack.max - (snd.done - read)) = 0 /\ snd.wait
    <3>1. ~(read > snd.done)
      BY <1>2, <1>7
    <3>2. /\ snd' = Window(ack.max, snd.done - read, nextWait)
          /\ setSizeCh' = IF snd.wait /\ ~nextWait THEN 1 ELSE setSizeCh
      BY <2>2, <3>1, Zenon DEF SetSize, ack
    <3>3. nextWait \in BOOLEAN
      BY Zenon
    <3> HIDE DEF nextWait
    <3>4. snd.done - read \in Nat
      BY <1>2, <1>7
    <3>5. snd' \in WindowType /\ snd'.done = snd.done - read /\ snd'.max = ack.max
      BY <1>7, <3>2, <3>3, <3>4, Zenon DEF Window, WindowType
    <3> QED BY <1>0, <1>4, <3>2, <3>5, Zenon DEF WindowTypeOK
  <2> QED BY <2>1, <2>2, Zenon
<1>9. WindowTypeOK'
  BY <1>0, <1>3, <1>6, <1>7, <1>8, Zenon DEF WindowTypeOK
<1>10. WriterInv'
  <2>1. connWriter.size \in Nat /\ MaxWindow \in Nat
    BY <1>0, MuxWindowAssumption, Zenon DEF WindowTypeOK, WriterType
  <2>2. connWriter' = connWriter
    BY <1>6, Zenon
  <2>3. snd'.done + connWriter.size <= MaxWindow
    <3>1. snd.done + connWriter.size <= MaxWindow
      BY <1>0, Zenon DEF WriterInv
    <3>2. read \in Nat /\ snd.done \in Nat /\ snd'.done = snd.done - read
      BY <1>2, <1>7, <1>8, Zenon
    <3> QED BY <2>1, <3>1, <3>2
  <2> QED BY <1>0, <1>8, <2>2, <2>3, Zenon DEF WriterInv
<1>11. SegmentsInv'
  BY <1>0, <1>6, ZenonT(30) DEF SegmentsInv, arrivedPos
<1>12. AcksInv'
  <2>1. \A b \in Acker : Chain(acks'[b], applied'[b], told'[b])
    BY <1>0, <1>3, <1>6, ZenonT(30) DEF AcksInv, WindowTypeOK
  <2>2. \A b \in Acker : \A i \in DOMAIN acks'[b] : acks'[b][i].max <= MaxWindow
    BY <1>0, <1>5, <1>6, ZenonT(30) DEF AcksInv, WindowTypeOK
  <2>3. snd'.done = sentPos' - applied'["session"] - applied'["reader"]
    <3>1. snd.done = sentPos - applied["session"] - applied["reader"]
      BY <1>0, ZenonT(30) DEF AcksInv
    <3>2. applied["session"] \in Nat /\ applied["reader"] \in Nat /\ sentPos \in Nat
      BY <1>0, Zenon DEF WindowTypeOK
    <3>3. CASE a = "session"
      BY <1>0, <1>3, <1>6, <1>7, <1>8, <3>1, <3>2, <3>3 DEF WindowTypeOK
    <3>4. CASE a = "reader"
      BY <1>0, <1>3, <1>6, <1>7, <1>8, <3>1, <3>2, <3>4 DEF WindowTypeOK
    <3> QED BY <3>3, <3>4, Zenon
  <2> QED BY <1>0, <1>6, <2>1, <2>2, <2>3, ZenonT(30) DEF AcksInv, countedPos
<1> QED BY <1>9, <1>10, <1>11, <1>12, Zenon DEF WindowInv, BytesConserved

\* An acknowledgement is put on a channel.
LEMMA SendOkInv ==
    ASSUME WindowTypeOK, AcksInv, NEW a \in Acker, NEW max \in Nat, NEW read \in Nat,
           max <= MaxWindow, sendOk(a, max, read), applied' = applied
    PROVE  /\ acks' \in [Acker -> Seq(AckType)] /\ told' \in [Acker -> Nat]
           /\ told'[a] = told[a] + read
           /\ \A b \in Acker \ {a} : told'[b] = told[b]
           /\ \A b \in Acker : Chain(acks'[b], applied'[b], told'[b])
           /\ \A b \in Acker : \A i \in DOMAIN acks'[b] : acks'[b][i].max <= MaxWindow
<1> DEFINE ack == Ack(max, told[a], told[a] + read)
<1>1. /\ acks[a] \in Seq(AckType) /\ told[a] \in Nat /\ applied[a] \in Nat
      /\ Chain(acks[a], applied[a], told[a])
  BY Zenon DEF WindowTypeOK, AcksInv
<1>2. ack \in AckType /\ ack.lo = told[a] /\ ack.hi = told[a] + read /\ ack.max = max
  BY <1>1 DEF Ack, AckType
<1>3. /\ told' = [told EXCEPT ![a] = told[a] + read]
      /\ acks' = [acks EXCEPT ![a] = Append(acks[a], ack)]
  BY Zenon DEF sendOk
<1> HIDE DEF ack
<1>4. told[a] <= ack.hi
  BY <1>1, <1>2
<1>5. Chain(Append(acks[a], ack), applied[a], ack.hi)
  BY <1>1, <1>2, <1>4, IntervalTypes, ChainAppend, Zenon
<1>6. \A i \in DOMAIN Append(acks[a], ack) : Append(acks[a], ack)[i].max <= MaxWindow
  <2> SUFFICES ASSUME NEW i \in DOMAIN Append(acks[a], ack)
               PROVE  Append(acks[a], ack)[i].max <= MaxWindow
    BY Zenon
  <2>1. Len(acks[a]) \in Nat /\ DOMAIN acks[a] = 1..Len(acks[a])
        /\ i \in 1..(Len(acks[a]) + 1)
    BY <1>1
  <2>2. CASE i = Len(acks[a]) + 1
    BY <1>1, <1>2, <2>2
  <2>3. CASE i \in 1..Len(acks[a])
    <3>1. Append(acks[a], ack)[i] = acks[a][i]
      BY <1>1, <2>3
    <3> QED BY <2>1, <2>3, <3>1, ZenonT(30) DEF AcksInv
  <2> QED BY <2>1, <2>2, <2>3
<1>7. acks' \in [Acker -> Seq(AckType)] /\ told' \in [Acker -> Nat]
  BY <1>1, <1>2, <1>3 DEF WindowTypeOK
<1>8. told'[a] = told[a] + read /\ \A b \in Acker \ {a} : told'[b] = told[b]
  BY <1>3, Zenon DEF WindowTypeOK
<1>9. \A b \in Acker : Chain(acks'[b], applied'[b], told'[b])
  BY <1>2, <1>3, <1>5, <1>8, Zenon DEF WindowTypeOK, AcksInv
<1>10. \A b \in Acker : \A i \in DOMAIN acks'[b] : acks'[b][i].max <= MaxWindow
  BY <1>3, <1>6, ZenonT(30) DEF WindowTypeOK, AcksInv
<1> QED BY <1>7, <1>8, <1>9, <1>10, Zenon

\* The steps of the session goroutine of the receiver.
LEMMA SessionSteps == WindowInv /\ Session => WindowInv'
<1> SUFFICES ASSUME WindowInv, Session PROVE WindowInv'
  BY Zenon
<1> USE DEF sndVars
<1>0. WindowTypeOK /\ WriterInv /\ SegmentsInv /\ AcksInv
  BY Zenon DEF WindowInv, BytesConserved
<1>1. ASSUME calcSize PROVE WindowInv'
  <2>1. /\ data \in Seq(SegType) /\ data # <<>> /\ Chain(data, pushedPos, sentPos)
        /\ pushedPos \in Nat /\ sentPos \in Nat /\ rcvSession.pc = "idle"
        /\ \A i \in DOMAIN data : data[i].lo < data[i].hi
    BY <1>0, <1>1, Zenon DEF WindowTypeOK, SegmentsInv, arrivedPos, calcSize
  <2>2. /\ Head(data) \in SegType /\ Head(data).lo = pushedPos
        /\ Tail(data) \in Seq(SegType) /\ Chain(Tail(data), Head(data).hi, sentPos)
    BY <2>1, IntervalTypes, ChainTail, Zenon
  <2>3. /\ Head(data).lo < Head(data).hi
        /\ \A i \in DOMAIN Tail(data) : Tail(data)[i].lo < Tail(data)[i].hi
    BY <2>1, NonemptyTail, Zenon
  <2>4. PICK n \in WindowSizes \cup {rcv.max} : rcv' = [rcv EXCEPT !.max = n]
    BY <1>1, ZenonT(30) DEF calcSize
  <2>5. n \in Nat /\ n <= MaxWindow
    <3>1. rcv.max \in Nat /\ rcv.max <= MaxWindow
      BY <1>0, Zenon DEF WindowTypeOK, WindowType, AcksInv
    <3> QED BY <2>4, <3>1, MuxWindowAssumption
  <2>6. rcv' \in WindowType /\ rcv'.done = rcv.done /\ rcv'.max = n
    BY <1>0, <2>4, <2>5, ZenonT(30) DEF WindowTypeOK, WindowType
  <2>7. /\ data' = Tail(data)
        /\ rcvSession' = [rcvSession EXCEPT !.pc = "load", !.seg = Head(data)]
        /\ UNCHANGED <<snd, setSizeCh, connWriter, sentPos, acks, applied, bufQueue, qlen,
                       pushedPos, connReader, told>>
    BY <1>1, Zenon DEF calcSize
  <2>8. /\ rcvSession' \in SessionType /\ rcvSession'.pc = "load"
        /\ rcvSession'.seg = Head(data) /\ rcvSession'.done = rcvSession.done
        /\ rcvSession'.old = rcvSession.old
    BY <1>0, <2>2, <2>7, ZenonT(30) DEF WindowTypeOK, SessionType
  <2>9. WindowTypeOK'
    BY <1>0, <2>2, <2>6, <2>7, <2>8, Zenon DEF WindowTypeOK
  <2>10. WriterInv'
    BY <1>0, <2>7, Zenon DEF WriterInv
  <2>11. SegmentsInv'
    BY <1>0, <2>2, <2>3, <2>7, <2>8, Zenon DEF SegmentsInv, arrivedPos
  <2>12. AcksInv'
    BY <1>0, <2>1, <2>5, <2>6, <2>7, <2>8, Zenon DEF AcksInv, countedPos
  <2> QED BY <2>9, <2>10, <2>11, <2>12, Zenon DEF WindowInv, BytesConserved
<1>2. ASSUME WriteLoad PROVE WindowInv'
  <2>1. /\ rcvSession' = [rcvSession EXCEPT !.pc = "cas", !.old = rcv,
                          !.remain = rcvRemaining(rcv.max, Size(rcvSession.seg))]
        /\ rcvSession.pc = "load"
        /\ UNCHANGED <<snd, setSizeCh, connWriter, sentPos, data, acks, applied, rcv,
                       bufQueue, qlen, pushedPos, connReader, told>>
    BY <1>2, Zenon DEF WriteLoad
  <2>2. rcvRemaining(rcv.max, Size(rcvSession.seg)) \in Nat
    <3>1. rcv.max \in Nat /\ qlen \in Nat /\ rcvSession.seg.lo \in Nat
          /\ rcvSession.seg.hi \in Nat
      BY <1>0, Zenon DEF WindowTypeOK, WindowType, SessionType, SegType
    <3> QED BY <3>1 DEF rcvRemaining, Size, AtLeast0
  <2>3. /\ rcvSession' \in SessionType /\ rcvSession'.pc = "cas" /\ rcvSession'.old = rcv
        /\ rcvSession'.seg = rcvSession.seg /\ rcvSession'.done = rcvSession.done
    BY <1>0, <2>1, <2>2, ZenonT(30) DEF WindowTypeOK, SessionType
  <2>4. WindowTypeOK'
    BY <1>0, <2>1, <2>3, Zenon DEF WindowTypeOK
  <2>5. WriterInv' /\ SegmentsInv' /\ AcksInv'
    BY <1>0, <2>1, <2>3, Zenon DEF WriterInv, SegmentsInv, AcksInv, arrivedPos, countedPos
  <2> QED BY <2>4, <2>5, Zenon DEF WindowInv, BytesConserved
<1>3. ASSUME WriteRetry PROVE WindowInv'
  <2>1. /\ rcvSession' = [rcvSession EXCEPT !.pc = "load", !.old = NoWindow, !.remain = 0]
        /\ rcvSession.pc = "cas"
        /\ UNCHANGED <<snd, setSizeCh, connWriter, sentPos, data, acks, applied, rcv,
                       bufQueue, qlen, pushedPos, connReader, told>>
    BY <1>3, Zenon DEF WriteRetry
  <2>2. NoWindow \in WindowType /\ NoWindow.max = 0
    BY Zenon DEF NoWindow, Window, WindowType
  <2>3. /\ rcvSession' \in SessionType /\ rcvSession'.pc = "load" /\ rcvSession'.old = NoWindow
        /\ rcvSession'.seg = rcvSession.seg /\ rcvSession'.done = rcvSession.done
    BY <1>0, <2>1, <2>2, ZenonT(30) DEF WindowTypeOK, SessionType
  <2>4. WindowTypeOK'
    BY <1>0, <2>1, <2>3, Zenon DEF WindowTypeOK
  <2>5. WriterInv' /\ SegmentsInv' /\ AcksInv'
    BY <1>0, <2>1, <2>2, <2>3, MuxWindowAssumption
    DEF WriterInv, SegmentsInv, AcksInv, arrivedPos, countedPos
  <2> QED BY <2>4, <2>5, Zenon DEF WindowInv, BytesConserved
<1>4. ASSUME WriteWait PROVE WindowInv'
  <2>1. /\ rcvSession' = [rcvSession EXCEPT !.pc = "push", !.wait = TRUE, !.remain = 0]
        /\ rcvSession.pc = "cas"
        /\ UNCHANGED <<snd, setSizeCh, connWriter, sentPos, data, acks, applied,
                       bufQueue, qlen, pushedPos, connReader, told>>
    BY <1>4, Zenon DEF WriteWait
  <2>2. rcv' \in WindowType /\ rcv'.max = rcv.max /\ rcv'.done = rcv.done
    BY <1>0, <1>4, ZenonT(30) DEF WindowTypeOK, WindowType, WriteWait
  <2>3. /\ rcvSession' \in SessionType /\ rcvSession'.pc = "push"
        /\ rcvSession'.old = rcvSession.old /\ rcvSession'.seg = rcvSession.seg
        /\ rcvSession'.done = rcvSession.done
    BY <1>0, <2>1, ZenonT(30) DEF WindowTypeOK, SessionType
  <2>4. WindowTypeOK'
    BY <1>0, <2>1, <2>2, <2>3, Zenon DEF WindowTypeOK
  <2>5. WriterInv' /\ SegmentsInv' /\ AcksInv'
    BY <1>0, <2>1, <2>2, <2>3, Zenon
    DEF WriterInv, SegmentsInv, AcksInv, arrivedPos, countedPos
  <2> QED BY <2>4, <2>5, Zenon DEF WindowInv, BytesConserved
<1>5. ASSUME WriteReset PROVE WindowInv'
  <2>1. /\ rcvSession' = [rcvSession EXCEPT !.pc = "push", !.wait = FALSE,
                          !.remain = 0, !.done = rcv.done]
        /\ rcvSession.pc = "cas" /\ rcv' = [rcv EXCEPT !.done = 0]
        /\ UNCHANGED <<snd, setSizeCh, connWriter, sentPos, data, acks, applied,
                       bufQueue, qlen, pushedPos, connReader, told>>
    BY <1>5, Zenon DEF WriteReset
  <2>2. /\ rcv' \in WindowType /\ rcv'.max = rcv.max /\ rcv'.done = 0
        /\ rcv.done \in Nat
    BY <1>0, <2>1, ZenonT(30) DEF WindowTypeOK, WindowType
  <2>3. /\ rcvSession' \in SessionType /\ rcvSession'.pc = "push" /\ ~rcvSession'.wait
        /\ rcvSession'.old = rcvSession.old /\ rcvSession'.seg = rcvSession.seg
        /\ rcvSession'.done = rcv.done
    BY <1>0, <2>1, <2>2, ZenonT(30) DEF WindowTypeOK, SessionType
  <2>4. WindowTypeOK'
    BY <1>0, <2>1, <2>2, <2>3, Zenon DEF WindowTypeOK
  <2>5. WriterInv' /\ SegmentsInv'
    BY <1>0, <2>1, <2>3, Zenon DEF WriterInv, SegmentsInv, arrivedPos
  <2>6. AcksInv'
    <3>1. rcvSession.done = 0
      BY <1>0, <2>1, Zenon DEF AcksInv
    <3> QED BY <1>0, <2>1, <2>2, <2>3, <3>1 DEF AcksInv, countedPos
  <2> QED BY <2>4, <2>5, <2>6, Zenon DEF WindowInv, BytesConserved
<1>6. ASSUME WritePush PROVE WindowInv'
  <2>1. /\ bufQueue' = Append(bufQueue, rcvSession.seg) /\ rcvSession.pc = "push"
        /\ qlen' = qlen + Size(rcvSession.seg) /\ pushedPos' = rcvSession.seg.hi
        /\ rcvSession' = [rcvSession EXCEPT !.pc = "idle", !.old = NoWindow, !.done = 0]
        /\ UNCHANGED <<snd, setSizeCh, connWriter, sentPos, data, applied, rcv, connReader>>
    BY <1>6, Zenon DEF WritePush
  <2>2. NoWindow \in WindowType /\ NoWindow.max = 0
    BY Zenon DEF NoWindow, Window, WindowType
  <2>3. /\ rcvSession' \in SessionType /\ rcvSession'.pc = "idle" /\ rcvSession'.old = NoWindow
        /\ rcvSession'.done = 0
    BY <1>0, <2>1, <2>2, ZenonT(30) DEF WindowTypeOK, SessionType
  <2>4. /\ rcvSession.seg \in SegType /\ rcvSession.seg.lo = pushedPos
        /\ rcvSession.seg.lo \in Nat /\ rcvSession.seg.hi \in Nat
        /\ pushedPos < rcvSession.seg.hi /\ pushedPos \in Nat /\ connReader.seg.hi \in Nat
        /\ bufQueue \in Seq(SegType) /\ Chain(bufQueue, connReader.seg.hi, pushedPos)
        /\ \A i \in DOMAIN bufQueue : bufQueue[i].lo < bufQueue[i].hi
    BY <1>0, <2>1, Zenon DEF WindowTypeOK, SegmentsInv, SessionType, ReaderType, SegType
  <2>5. /\ bufQueue' \in Seq(SegType) /\ Chain(bufQueue', connReader.seg.hi, rcvSession.seg.hi)
    BY <2>1, <2>4, IntervalTypes, ChainAppend
  <2>6. \A i \in DOMAIN bufQueue' : bufQueue'[i].lo < bufQueue'[i].hi
    BY <2>1, <2>4, NonemptyAppend, Zenon
  <2>7. /\ qlen' = pushedPos' - connReader.seg.hi /\ qlen' \in Nat /\ pushedPos' \in Nat
    <3>1. qlen = pushedPos - connReader.seg.hi /\ connReader.seg.hi <= pushedPos
      BY <1>0, Positions, Zenon DEF SegmentsInv
    <3> QED BY <2>1, <2>4, <3>1 DEF Size
  <2>8. WriterInv'
    BY <1>0, <2>1, Zenon DEF WriterInv
  <2>9. SegmentsInv'
    BY <1>0, <2>1, <2>3, <2>5, <2>6, <2>7, Zenon DEF SegmentsInv, arrivedPos
  <2>10. WindowTypeOK' /\ AcksInv'
    <3>1. CASE rcvSession.wait
      <4>1. UNCHANGED <<told, acks>>
        BY <1>6, <3>1, Zenon DEF WritePush
      <4>2. rcvSession.done = 0
        BY <1>0, <2>1, <3>1, Zenon DEF AcksInv
      <4>3. WindowTypeOK'
        BY <1>0, <2>1, <2>3, <2>5, <2>7, <4>1, Zenon DEF WindowTypeOK
      <4>4. AcksInv'
        BY <1>0, <2>1, <2>2, <2>3, <4>1, <4>2, MuxWindowAssumption
        DEF AcksInv, countedPos
      <4> QED BY <4>3, <4>4, Zenon
    <3>2. CASE ~rcvSession.wait
      <4>1. sendOk("session", rcvSession.old.max, rcvSession.done)
        BY <1>6, <3>2, Zenon DEF WritePush
      <4>2. /\ rcvSession.old.max \in Nat /\ rcvSession.done \in Nat /\ rcv.done \in Nat
            /\ rcvSession.old.max <= MaxWindow
            /\ told["session"] \in Nat /\ told["reader"] \in Nat
        BY <1>0, Zenon DEF WindowTypeOK, SessionType, WindowType, AcksInv
      <4>3. /\ acks' \in [Acker -> Seq(AckType)] /\ told' \in [Acker -> Nat]
            /\ told'["session"] = told["session"] + rcvSession.done
            /\ told'["reader"] = told["reader"]
            /\ \A b \in Acker : Chain(acks'[b], applied'[b], told'[b])
            /\ \A b \in Acker : \A i \in DOMAIN acks'[b] :
                  acks'[b][i].max <= MaxWindow
        BY <1>0, <2>1, <4>1, <4>2, SendOkInv, Zenon
      <4>4. WindowTypeOK'
        BY <1>0, <2>1, <2>3, <2>5, <2>7, <4>3, Zenon DEF WindowTypeOK
      <4>5. AcksInv'
        <5>1. countedPos' = countedPos
          BY <2>1, Zenon DEF countedPos
        <5>2. countedPos' = rcv'.done + rcvSession'.done + told'["session"]
                               + told'["reader"]
          BY <1>0, <2>1, <2>3, <4>2, <4>3, <5>1 DEF AcksInv
        <5> QED BY <1>0, <2>1, <2>2, <2>3, <4>3, <5>2, MuxWindowAssumption
            DEF AcksInv
      <4> QED BY <4>4, <4>5, Zenon
    <3> QED BY <3>1, <3>2, Zenon
  <2> QED BY <2>8, <2>9, <2>10, Zenon DEF WindowInv, BytesConserved
<1> QED BY <1>1, <1>2, <1>3, <1>4, <1>5, <1>6, Zenon DEF Session

\* The steps of the reader.
LEMMA ReaderSteps == WindowInv /\ Reader => WindowInv'
<1> SUFFICES ASSUME WindowInv, Reader PROVE WindowInv'
  BY Zenon
<1> USE DEF sndVars
<1>0. WindowTypeOK /\ WriterInv /\ SegmentsInv /\ AcksInv
  BY Zenon DEF WindowInv, BytesConserved
<1>t. /\ connReader \in ReaderType /\ connReader.seg \in SegType /\ connReader.off \in Nat
      /\ connReader.want \in Nat /\ connReader.seg.lo \in Nat /\ connReader.seg.hi \in Nat
      /\ rcv.max \in Nat /\ rcv.done \in Nat /\ qlen \in Nat
  BY <1>0, ZenonT(30) DEF WindowTypeOK, ReaderType, WindowType, SegType
<1>1. ASSUME NEW n \in ReadSizes, ReadConn(n) PROVE WindowInv'
  <2>1. /\ connReader' = [connReader EXCEPT !.want = n,
                        !.pc = IF connReader.off = connReader.seg.hi THEN "pop" ELSE "copy"]
        /\ connReader.pc = "idle"
        /\ UNCHANGED <<snd, setSizeCh, connWriter, sentPos, data, acks, applied, rcv,
                       rcvSession, bufQueue, qlen, pushedPos, told>>
    BY <1>1, Zenon DEF ReadConn
  <2>2. n \in Nat
    BY MuxWindowAssumption, Zenon
  <2>3. /\ connReader' \in ReaderType /\ connReader'.seg = connReader.seg
        /\ connReader'.off = connReader.off
        /\ connReader'.pc = IF connReader.off = connReader.seg.hi THEN "pop" ELSE "copy"
    BY <1>t, <2>1, <2>2, ZenonT(30) DEF ReaderType
  <2>4. WindowTypeOK'
    BY <1>0, <2>1, <2>3, Zenon DEF WindowTypeOK
  <2>5. WriterInv' /\ SegmentsInv' /\ AcksInv'
    BY <1>0, <2>1, <2>3 DEF WriterInv, SegmentsInv, AcksInv, arrivedPos, countedPos
  <2> QED BY <2>4, <2>5, Zenon DEF WindowInv, BytesConserved
<1>2. ASSUME Pop PROVE WindowInv'
  <2>1. /\ bufQueue' = Tail(bufQueue) /\ qlen' = qlen - Size(Head(bufQueue))
        /\ connReader' = [connReader EXCEPT !.pc = "copy", !.seg = Head(bufQueue),
                                    !.off = Head(bufQueue).lo]
        /\ connReader.pc = "pop" /\ bufQueue # <<>>
        /\ UNCHANGED <<snd, setSizeCh, connWriter, sentPos, data, acks, applied, rcv,
                       rcvSession, pushedPos, told>>
    BY <1>2, Zenon DEF Pop
  <2>2. /\ bufQueue \in Seq(SegType) /\ Chain(bufQueue, connReader.seg.hi, pushedPos)
        /\ pushedPos \in Nat /\ connReader.off = connReader.seg.hi
        /\ \A i \in DOMAIN bufQueue : bufQueue[i].lo < bufQueue[i].hi
        /\ qlen = pushedPos - connReader.seg.hi
    BY <1>0, <2>1, Zenon DEF WindowTypeOK, SegmentsInv
  <2>3. /\ Head(bufQueue) \in SegType /\ Head(bufQueue).lo = connReader.seg.hi
        /\ Head(bufQueue).hi <= pushedPos
        /\ Tail(bufQueue) \in Seq(SegType)
        /\ Chain(Tail(bufQueue), Head(bufQueue).hi, pushedPos)
    BY <1>t, <2>1, <2>2, IntervalTypes, ChainTail, Zenon
  <2>4. /\ Head(bufQueue).lo < Head(bufQueue).hi
        /\ \A i \in DOMAIN Tail(bufQueue) : Tail(bufQueue)[i].lo < Tail(bufQueue)[i].hi
    BY <2>1, <2>2, NonemptyTail, Zenon
  <2>5. Head(bufQueue).lo \in Nat /\ Head(bufQueue).hi \in Nat
    BY <2>3, IntervalTypes, Zenon
  <2>6. /\ connReader' \in ReaderType /\ connReader'.seg = Head(bufQueue) /\ connReader'.pc = "copy"
        /\ connReader'.off = Head(bufQueue).lo
    BY <1>t, <2>1, <2>3, <2>5, ZenonT(30) DEF ReaderType
  <2>7. qlen' = pushedPos' - connReader'.seg.hi /\ qlen' \in Nat
    BY <1>t, <2>1, <2>2, <2>3, <2>5, <2>6 DEF Size
  <2>8. WindowTypeOK'
    BY <1>0, <2>1, <2>3, <2>6, <2>7, Zenon DEF WindowTypeOK
  <2>9. WriterInv'
    BY <1>0, <2>1, Zenon DEF WriterInv
  <2>10. SegmentsInv'
    BY <1>0, <2>1, <2>3, <2>4, <2>5, <2>6, <2>7 DEF SegmentsInv, arrivedPos
  <2>11. countedPos' = countedPos
    BY <2>1, <2>2, <2>3, <2>4, <2>5, <2>6, Zenon DEF countedPos
  <2>12. AcksInv'
    BY <1>0, <2>1, <2>11, Zenon DEF AcksInv
  <2> QED BY <2>8, <2>9, <2>10, <2>12, Zenon DEF WindowInv, BytesConserved
<1>3. ASSUME copyData PROVE WindowInv'
  <2> DEFINE l == Min2(connReader.want, connReader.seg.hi - connReader.off)
  <2>1. /\ connReader' = [connReader EXCEPT !.off = @ + l, !.want = @ - l,
             !.pc = IF connReader.off + l = connReader.seg.hi THEN "status" ELSE "idle"]
        /\ connReader.pc = "copy"
        /\ UNCHANGED <<snd, setSizeCh, connWriter, sentPos, data, acks, applied, rcv,
                       rcvSession, bufQueue, qlen, pushedPos, told>>
    BY <1>3, Zenon DEF copyData
  <2>2. /\ connReader.seg.lo <= connReader.off /\ connReader.off <= connReader.seg.hi
        /\ connReader.off # connReader.seg.hi
    BY <1>0, <2>1, Zenon DEF SegmentsInv
  <2>3. l \in Nat /\ l <= connReader.want /\ l <= connReader.seg.hi - connReader.off
    BY <1>t, <2>2 DEF Min2
  <2> HIDE DEF l
  <2>4. connReader.off + l \in Nat /\ connReader.want - l \in Nat
    BY <1>t, <2>3
  <2>5. /\ connReader' \in ReaderType /\ connReader'.seg = connReader.seg
        /\ connReader'.off = connReader.off + l
        /\ connReader'.pc = IF connReader.off + l = connReader.seg.hi THEN "status" ELSE "idle"
    BY <1>t, <2>1, <2>4, ZenonT(30) DEF ReaderType
  <2>6. WindowTypeOK'
    BY <1>0, <2>1, <2>5, Zenon DEF WindowTypeOK
  <2>7. WriterInv'
    BY <1>0, <2>1, Zenon DEF WriterInv
  <2>8. SegmentsInv'
    <3>1. connReader'.seg.lo <= connReader'.off /\ connReader'.off <= connReader'.seg.hi
      BY <1>t, <2>2, <2>3, <2>5
    <3> QED BY <1>0, <2>1, <2>5, <3>1 DEF SegmentsInv, arrivedPos
  <2>9. countedPos' = countedPos
    BY <2>1, <2>2, <2>5 DEF countedPos
  <2>10. AcksInv'
    BY <1>0, <2>1, <2>9, Zenon DEF AcksInv
  <2> QED BY <2>6, <2>7, <2>8, <2>10, Zenon DEF WindowInv, BytesConserved
<1>4. ASSUME sendStatusLoad PROVE WindowInv'
  <2>1. /\ connReader' = [connReader EXCEPT !.pc = "cas", !.old = rcv,
                                    !.remain = rcvRemaining(rcv.max, 0)]
        /\ connReader.pc = "status"
        /\ UNCHANGED <<snd, setSizeCh, connWriter, sentPos, data, acks, applied, rcv,
                       rcvSession, bufQueue, qlen, pushedPos, told>>
    BY <1>4, Zenon DEF sendStatusLoad
  <2>2. rcvRemaining(rcv.max, 0) \in Nat
    BY <1>t DEF rcvRemaining, AtLeast0
  <2>3. /\ connReader' \in ReaderType /\ connReader'.seg = connReader.seg
        /\ connReader'.off = connReader.off /\ connReader'.pc = "cas"
    BY <1>0, <1>t, <2>1, <2>2, ZenonT(30) DEF ReaderType, WindowTypeOK
  <2>4. WindowTypeOK'
    BY <1>0, <2>1, <2>3, Zenon DEF WindowTypeOK
  <2>5. WriterInv' /\ SegmentsInv' /\ AcksInv'
    BY <1>0, <2>1, <2>3, Zenon DEF WriterInv, SegmentsInv, AcksInv, arrivedPos, countedPos
  <2> QED BY <2>4, <2>5, Zenon DEF WindowInv, BytesConserved
<1>5. ASSUME sendStatusRetry PROVE WindowInv'
  <2>1. /\ connReader' = [connReader EXCEPT !.pc = "status", !.old = NoWindow, !.remain = 0]
        /\ connReader.pc = "cas"
        /\ UNCHANGED <<snd, setSizeCh, connWriter, sentPos, data, acks, applied, rcv,
                       rcvSession, bufQueue, qlen, pushedPos, told>>
    BY <1>5, Zenon DEF sendStatusRetry
  <2>2. NoWindow \in WindowType
    BY Zenon DEF NoWindow, Window, WindowType
  <2>3. /\ connReader' \in ReaderType /\ connReader'.seg = connReader.seg
        /\ connReader'.off = connReader.off /\ connReader'.pc = "status"
    BY <1>t, <2>1, <2>2, ZenonT(30) DEF ReaderType
  <2>4. WindowTypeOK'
    BY <1>0, <2>1, <2>3, Zenon DEF WindowTypeOK
  <2>5. WriterInv' /\ SegmentsInv' /\ AcksInv'
    BY <1>0, <2>1, <2>3, Zenon DEF WriterInv, SegmentsInv, AcksInv, arrivedPos, countedPos
  <2> QED BY <2>4, <2>5, Zenon DEF WindowInv, BytesConserved
<1>6. ASSUME sendStatus PROVE WindowInv'
  <2> DEFINE read == rcv.done + Size(connReader.seg)
             due == reportDue(rcv.max, rcv.wait, read, connReader.remain)
  <2>1. /\ connReader' = [connReader EXCEPT !.old = NoWindow, !.remain = 0,
                        !.pc = IF connReader.want > 0 /\ connReader.seg.part
                               THEN "pop" ELSE "idle"]
        /\ connReader.pc = "cas"
        /\ UNCHANGED <<snd, setSizeCh, connWriter, sentPos, data, applied, rcvSession,
                       bufQueue, qlen, pushedPos>>
    BY <1>6, Zenon DEF sendStatus
  <2>2. NoWindow \in WindowType
    BY Zenon DEF NoWindow, Window, WindowType
  <2>3. /\ connReader' \in ReaderType /\ connReader'.seg = connReader.seg
        /\ connReader'.off = connReader.off /\ connReader'.pc \in {"pop", "idle"}
    BY <1>t, <2>1, <2>2, ZenonT(30) DEF ReaderType
  <2>4. connReader.off = connReader.seg.hi /\ connReader.seg.lo <= connReader.seg.hi
    BY <1>0, <1>t, <2>1, Zenon DEF SegmentsInv
  <2>5. countedPos = connReader.seg.lo /\ countedPos' = connReader.seg.hi
    BY <2>1, <2>3, <2>4, Zenon DEF countedPos
  <2>6. read \in Nat /\ countedPos' = countedPos - rcv.done + read
    BY <1>t, <2>4, <2>5 DEF Size
  <2>7. WriterInv'
    BY <1>0, <2>1, Zenon DEF WriterInv
  <2>8. SegmentsInv'
    BY <1>0, <2>1, <2>3, <2>4, Zenon DEF SegmentsInv, arrivedPos
  <2>9. /\ rcv.max <= MaxWindow
        /\ countedPos = rcv.done + rcvSession.done + told["session"] + told["reader"]
        /\ rcvSession.done \in Nat /\ told["session"] \in Nat /\ told["reader"] \in Nat
    BY <1>0, Zenon DEF AcksInv, WindowTypeOK, SessionType
  <2>10. WindowTypeOK' /\ AcksInv'
    <3>1. CASE due
      <4>1. rcv' = Window(rcv.max, 0, FALSE) /\ sendOk("reader", rcv.max, read)
        BY <1>6, <3>1, Zenon DEF sendStatus
      <4> HIDE DEF read
      <4>2. rcv' \in WindowType /\ rcv'.max = rcv.max /\ rcv'.done = 0
        BY <1>t, <4>1, Zenon DEF Window, WindowType
      <4>3. /\ acks' \in [Acker -> Seq(AckType)] /\ told' \in [Acker -> Nat]
            /\ told'["reader"] = told["reader"] + read
            /\ told'["session"] = told["session"]
            /\ \A b \in Acker : Chain(acks'[b], applied'[b], told'[b])
            /\ \A b \in Acker : \A i \in DOMAIN acks'[b] :
                  acks'[b][i].max <= MaxWindow
        BY <1>0, <1>t, <2>1, <2>6, <2>9, <4>1, SendOkInv, ZenonT(30)
      <4>4. countedPos' = rcv'.done + rcvSession'.done + told'["session"]
                             + told'["reader"]
        <5>1. rcvSession' = rcvSession /\ countedPos \in Nat
          BY <2>1, Positions, Zenon
        <5>2. countedPos' = 0 + rcvSession.done + told["session"]
                               + (told["reader"] + read)
          BY <1>t, <2>6, <2>9, <5>1
        <5> QED BY <4>2, <4>3, <5>1, <5>2, Zenon
      <4>5. WindowTypeOK'
        BY <1>0, <2>1, <2>3, <4>2, <4>3, Zenon DEF WindowTypeOK
      <4>6. AcksInv'
        BY <1>0, <2>1, <4>2, <4>3, <4>4, Zenon DEF AcksInv
      <4> QED BY <4>5, <4>6, Zenon
    <3>2. CASE ~due
      <4>1. rcv' = [rcv EXCEPT !.done = read] /\ UNCHANGED <<told, acks>>
        BY <1>6, <3>2, Zenon DEF sendStatus
      <4> HIDE DEF read
      <4>2. rcv' \in WindowType /\ rcv'.max = rcv.max /\ rcv'.done = read
        BY <1>0, <2>6, <4>1, ZenonT(30) DEF WindowTypeOK, WindowType
      <4>3. countedPos' = rcv'.done + rcvSession'.done + told'["session"]
                             + told'["reader"]
        BY <1>t, <2>1, <2>6, <2>9, <4>1, <4>2
      <4>4. WindowTypeOK'
        BY <1>0, <2>1, <2>3, <4>1, <4>2, Zenon DEF WindowTypeOK
      <4>5. AcksInv'
        BY <1>0, <2>1, <4>1, <4>2, <4>3, Zenon DEF AcksInv
      <4> QED BY <4>4, <4>5, Zenon
    <3> QED BY <3>1, <3>2, Zenon
  <2> QED BY <2>7, <2>8, <2>10, Zenon DEF WindowInv, BytesConserved
<1> QED BY <1>1, <1>2, <1>3, <1>4, <1>5, <1>6, Zenon DEF Reader

\* Goroutine steps and stuttering preserve the invariant.
LEMMA NextInv == WindowInv /\ [WindowNext]_flowVars => WindowInv'
<1> SUFFICES ASSUME WindowInv, [WindowNext]_flowVars PROVE WindowInv'
  BY Zenon
<1>1. CASE WindowNext
  BY <1>1, WriterSteps, SetSizeInv, SessionSteps, ReaderSteps, Zenon DEF WindowNext
<1>2. CASE UNCHANGED flowVars
  BY <1>2, ZenonT(30) DEF flowVars, sndVars, rcvVars, WindowInv, WindowTypeOK, BytesConserved, WriterInv,
     SegmentsInv, AcksInv, arrivedPos, countedPos
<1> QED BY <1>1, <1>2, Zenon

\* The bytes are conserved: in every behaviour, for all window and buffer sizes,
\* each byte that was sent is accounted for exactly once by the two windows,
\* the acknowledgements and the queues.
THEOREM Conservation == WindowSpec => [](WindowTypeOK /\ BytesConserved)
<1>1. WindowInit => WindowInv
  BY InitWindowInv, Zenon
<1>2. WindowInv /\ [WindowNext]_flowVars => WindowInv'
  BY NextInv, Zenon
<1>3. WindowInv <=> WindowTypeOK /\ BytesConserved
  BY Zenon DEF WindowInv
<1> QED BY <1>1, <1>2, <1>3, PTL DEF WindowSpec

\* SetSize never sees more read than sent, the receive queue is bounded by the
\* largest window, and the 31-bit counters of both windows never overflow.
THEOREM WindowBounds ==
    WindowSpec => [](ReadNeverExceedsSend /\ ReceiverHoldsAtMostAWindow /\ NeverOverflows)
<1>1. WindowInv => ReadNeverExceedsSend
  <2> SUFFICES ASSUME WindowInv, NEW a \in Acker, acks[a] # <<>>
               PROVE  Head(acks[a]).hi - Head(acks[a]).lo <= snd.done
    BY Zenon DEF ReadNeverExceedsSend
  <2>1. /\ applied[a] \in Nat /\ told[a] \in Nat /\ snd.done \in Nat
        /\ told[a] - applied[a] <= snd.done
    BY ReportedInFlight, Zenon
  <2>2. acks[a] \in Seq(AckType) /\ Chain(acks[a], applied[a], told[a])
    BY Zenon DEF WindowInv, BytesConserved, WindowTypeOK, AcksInv
  <2>3. /\ Head(acks[a]) \in AckType /\ Head(acks[a]).lo = applied[a]
        /\ Head(acks[a]).hi <= told[a]
    BY <2>1, <2>2, IntervalTypes, ChainTail, ZenonT(30)
  <2>4. Head(acks[a]).hi \in Nat
    BY <2>3, IntervalTypes, Zenon
  <2> QED BY <2>1, <2>3, <2>4
<1>2. WindowInv => countedPos - told["session"] - told["reader"] <= snd.done
             /\ sentPos - told["session"] - told["reader"] <= snd.done
             /\ snd.done <= MaxWindow /\ snd.done \in Nat
  <2> SUFFICES ASSUME WindowInv
               PROVE  /\ countedPos - told["session"] - told["reader"] <= snd.done
                      /\ sentPos - told["session"] - told["reader"] <= snd.done
                      /\ snd.done <= MaxWindow /\ snd.done \in Nat
    BY Zenon
  <2>1. /\ applied["session"] \in Nat /\ told["session"] \in Nat
        /\ applied["reader"] \in Nat /\ told["reader"] \in Nat
        /\ applied["session"] <= told["session"] /\ applied["reader"] <= told["reader"]
        /\ snd.done \in Nat
    BY ReportedInFlight, Zenon
  <2>2. snd.done = sentPos - applied["session"] - applied["reader"]
    BY Zenon DEF WindowInv, BytesConserved, AcksInv
  <2>3. countedPos \in Nat /\ sentPos \in Nat /\ countedPos <= sentPos
    BY Positions
  <2>4. snd.done + connWriter.size <= MaxWindow /\ connWriter.size \in Nat
    BY Zenon DEF WindowInv, BytesConserved, WriterInv, WindowTypeOK, WriterType
  <2> QED BY <2>1, <2>2, <2>3, <2>4, MuxWindowAssumption
<1>3. WindowInv => ReceiverHoldsAtMostAWindow
  <2> SUFFICES ASSUME WindowInv PROVE qlen <= MaxWindow
    BY Zenon DEF ReceiverHoldsAtMostAWindow
  <2>1. qlen = pushedPos - connReader.seg.hi
    BY ZenonT(30) DEF WindowInv, BytesConserved, SegmentsInv
  <2>2. /\ countedPos = rcv.done + rcvSession.done + told["session"] + told["reader"]
        /\ rcv.done \in Nat /\ rcvSession.done \in Nat
        /\ told["session"] \in Nat /\ told["reader"] \in Nat
    BY Zenon DEF WindowInv, BytesConserved, AcksInv, WindowTypeOK, WindowType, SessionType
  <2> QED BY <1>2, <2>1, <2>2, Positions, MuxWindowAssumption
<1>4. WindowInv => NeverOverflows
  <2> SUFFICES ASSUME WindowInv PROVE NeverOverflows
    BY Zenon
  <2>1. snd.done + connWriter.size < DoneMod
    <3>1. /\ snd.done + connWriter.size <= MaxWindow
          /\ snd.done \in Nat /\ connWriter.size \in Nat
      BY Zenon DEF WindowInv, BytesConserved, WriterInv, WindowTypeOK, WriterType, WindowType
    <3> QED BY <3>1, MuxWindowAssumption
  <2>2. ASSUME connReader.pc = "cas"
        PROVE  rcv.done + Size(connReader.seg) < DoneMod
    <3>1. /\ countedPos = rcv.done + rcvSession.done + told["session"] + told["reader"]
          /\ rcv.done \in Nat /\ rcvSession.done \in Nat
          /\ told["session"] \in Nat /\ told["reader"] \in Nat
          /\ connReader.seg.lo \in Nat /\ connReader.seg.hi \in Nat
      BY ZenonT(30) DEF WindowInv, BytesConserved, AcksInv, WindowTypeOK, WindowType, SessionType,
         ReaderType, SegType
    <3>2. countedPos = connReader.seg.lo
      BY <2>2, Zenon DEF countedPos
    <3>3. rcv.done + Size(connReader.seg) <= snd.done
      BY <1>2, <3>1, <3>2, Positions DEF Size
    <3> QED BY <1>2, <3>1, <3>3, MuxWindowAssumption DEF Size
  <2> QED BY <2>1, <2>2, Zenon DEF NeverOverflows
<1>5. WindowInv <=> WindowTypeOK /\ BytesConserved
  BY Zenon DEF WindowInv
<1> QED BY <1>1, <1>3, <1>4, <1>5, Conservation, PTL
=============================================================================
