----------------------------- MODULE PriorityQueue -----------------------------
(***************************************************************************)
(* The write queue of a mux: priorityQueue (lib/mux/queue.go) with the     *)
(* goroutines around it in lib/mux/mux.go, i.e. the senders (sendInfo with *)
(* applyWriteBackpressure), the write session that pops, and Close.        *)
(*                                                                         *)
(* One mutex and one condition variable serve two kinds of waiters: the    *)
(* write session on an empty queue and the senders of data on a full one.  *)
(* The three chains are FIFO queues (BufChain.tla).  TryPop looks at them  *)
(* one after the other, so a push may fall between two looks.              *)
(***************************************************************************)
EXTENDS Naturals, Sequences, FiniteSets, Functions

CONSTANTS Senders,      \* goroutines that call sendInfo
          Setups,       \* what may happen: packets queued at the start, packets
                        \* of each sender (a bound), and whether the mux is closed
          Classes,      \* which of "high", "mid" and "low" they send
          LowWater,     \* writeQueueLowWater
          HighWater,    \* writeQueueHighWater
          maxStarving,
          StarvingMod   \* 2^8: starving is a uint8

ASSUME PriorityQueueAssumption ==
    /\ IsFiniteSet(Senders)
    /\ Setups \subseteq [prefill : [high : Nat, mid : Nat, low : Nat],
                         load : [Senders -> Nat], closes : BOOLEAN]
    /\ Classes \subseteq {"high", "mid", "low"} /\ Classes # {}
    /\ LowWater \in Nat \ {0} /\ HighWater \in Nat /\ LowWater < HighWater
    /\ maxStarving \in Nat \ {0} /\ StarvingMod \in Nat
    /\ maxStarving < StarvingMod

VARIABLES length,   \* priorityQueue.length
          chain,    \* per class: the packets in it, as <<sender, number>>
          starving, \* priorityQueue.starving
          stop,     \* priorityQueue.stop
          closed,   \* closeChan is closed
          lock,     \* who holds cond.L, or "none"
          condq,    \* cond: the goroutines in Wait, longest first
          sender,   \* per sender: [pc, todo, n, class]
          writer,   \* [pc, tries]: the write session
          closer,   \* pc of the goroutine in Mux.Close
          bypass    \* middle packets popped since a waiting low one was overtaken

vars == <<length, chain, starving, stop, closed, lock, condq, sender, writer,
          closer, bypass>>
queueVars == <<length, chain, starving, stop, closed, bypass>>

Class == {"high", "mid", "low"}

Init ==
    /\ \E u \in Setups :
         /\ length = u.prefill.high + u.prefill.mid + u.prefill.low
         /\ chain = [c \in Class |-> [i \in 1..u.prefill[c] |-> <<"first", i>>]]
         /\ sender = [s \in Senders |-> [pc |-> "idle", todo |-> u.load[s], n |-> 0,
                                         class |-> "low"]]
         /\ closer = IF u.closes THEN "idle" ELSE "never"
    /\ starving = 0 /\ stop = FALSE /\ closed = FALSE
    /\ lock = "none" /\ condq = <<>>
    /\ writer = [pc |-> "top", tries |-> 0]
    /\ bypass = 0

\* cond.Broadcast and cond.Signal.
Broadcast == condq' = <<>>
Signal == condq' = IF condq = <<>> THEN <<>> ELSE Tail(condq)

Waiting(g) == g \in Range(condq)
-------------------------------------------------------------------------------
(* sendInfo *)

Goto(s, label) == sender' = [sender EXCEPT ![s].pc = label]

\* Data of a connection without priority waits when the queue is long.
sendInfo(s, class) ==
    /\ sender[s].pc = "idle" /\ sender[s].todo > 0 /\ ~closed
    /\ sender' = [sender EXCEPT ![s] =
                     [pc |-> IF class = "low" /\ length >= HighWater
                             THEN "lock" ELSE "add",
                      todo |-> @.todo - 1, n |-> @.n + 1, class |-> class]]
    /\ UNCHANGED <<queueVars, lock, condq, writer, closer>>

\* applyWriteBackpressure takes the lock, also after Wait.
BackpressureLock(s) ==
    /\ \/ sender[s].pc = "lock"
       \/ sender[s].pc = "wait" /\ ~Waiting(s)
    /\ lock = "none"
    /\ lock' = s /\ Goto(s, "check")
    /\ UNCHANGED <<queueVars, condq, writer, closer>>

BackpressureCheck(s) ==
    /\ sender[s].pc = "check"
    /\ lock' = "none"
    /\ IF closed \/ stop \/ length < LowWater
       THEN Goto(s, "add") /\ UNCHANGED condq
       ELSE Goto(s, "wait") /\ condq' = Append(condq, s)
    /\ UNCHANGED <<queueVars, writer, closer>>

\* Push counts the packet before it is in a chain.
PushAdd(s) ==
    /\ sender[s].pc = "add"
    /\ IF closed
       THEN Goto(s, "idle") /\ UNCHANGED length
       ELSE Goto(s, "push") /\ length' = length + 1
    /\ UNCHANGED <<chain, starving, stop, closed, bypass, lock, condq, writer, closer>>

Push(s) ==
    /\ sender[s].pc = "push"
    /\ chain' = [chain EXCEPT ![sender[s].class] = Append(@, <<s, sender[s].n>>)]
    /\ Goto(s, "signal")
    /\ UNCHANGED <<length, starving, stop, closed, bypass, lock, condq, writer, closer>>

\* Fault: only the push onto an empty queue signals.
PushSignalFirst(s) ==
    /\ sender[s].pc = "signal" /\ lock = "none"
    /\ IF length = 1 THEN Signal ELSE UNCHANGED condq
    /\ Goto(s, "idle")
    /\ UNCHANGED <<queueVars, lock, writer, closer>>

PushSignal(s) ==
    /\ sender[s].pc = "signal" /\ lock = "none"
    /\ Signal /\ Goto(s, "idle")
    /\ UNCHANGED <<queueVars, lock, writer, closer>>
-------------------------------------------------------------------------------
(* writeSession, Pop, TryPop *)

\* The loop of the write session.
WriteTop ==
    /\ writer.pc = "top"
    /\ writer' = [pc |-> IF closed THEN "exit" ELSE "high", tries |-> 0]
    /\ UNCHANGED <<queueVars, lock, condq, sender, closer>>

\* starving after a pop from chain c.
Starved(c) == CASE c = "mid" -> (starving + 1) % StarvingMod
                [] c = "low" -> starving \div 2
                [] OTHER -> starving

Take(c) ==
    /\ chain' = [chain EXCEPT ![c] = Tail(@)]
    /\ starving' = Starved(c)
    /\ bypass' = CASE c = "low" -> 0
                   [] c = "mid" /\ chain["low"] # <<>> -> bypass + 1
                   [] OTHER -> bypass
    /\ writer' = [writer EXCEPT !.pc = "after"]

Skip(label) ==
    /\ writer' = [writer EXCEPT !.pc = label]
    /\ UNCHANGED <<chain, starving, bypass>>

TryPopHigh ==
    /\ writer.pc = "high"
    /\ IF chain["high"] # <<>> THEN Take("high") ELSE Skip("mid")
    /\ UNCHANGED <<length, stop, closed, lock, condq, sender, closer>>

\* Fault: the middle chain always goes first.
TryPopMidGreedy ==
    /\ writer.pc = "mid"
    /\ IF chain["mid"] # <<>>
       THEN Take("mid") ELSE Skip("low")
    /\ UNCHANGED <<length, stop, closed, lock, condq, sender, closer>>

TryPopMid ==
    /\ writer.pc = "mid"
    /\ IF starving < maxStarving /\ chain["mid"] # <<>>
       THEN Take("mid") ELSE Skip("low")
    /\ UNCHANGED <<length, stop, closed, lock, condq, sender, closer>>

TryPopLow ==
    /\ writer.pc = "low"
    /\ IF chain["low"] # <<>> THEN Take("low")
       ELSE Skip(IF starving > 0 THEN "again" ELSE "miss")
    /\ UNCHANGED <<length, stop, closed, lock, condq, sender, closer>>

TryPopAgain ==
    /\ writer.pc = "again"
    /\ IF chain["mid"] # <<>>
       THEN Take("mid") ELSE Skip("miss")
    /\ UNCHANGED <<length, stop, closed, lock, condq, sender, closer>>

\* afterPop: only the pop that crosses the low water mark broadcasts.  Then
\* TryPop returns, and Pop releases the lock if it holds it.
Returned == [writer EXCEPT !.pc = "top"]
Unlocked == IF lock = "writer" THEN "none" ELSE lock

afterPop ==
    /\ writer.pc = "after"
    /\ length' = length - 1
    /\ IF length = LowWater
       THEN writer' = [writer EXCEPT !.pc = "bcast"] /\ UNCHANGED lock
       ELSE writer' = Returned /\ lock' = Unlocked
    /\ UNCHANGED <<chain, starving, stop, closed, bypass, condq, sender, closer>>

\* The lock is not reentrant.
afterPopBroadcast ==
    /\ writer.pc = "bcast" /\ lock = "none"
    /\ Broadcast /\ writer' = Returned
    /\ UNCHANGED <<queueVars, lock, sender, closer>>

\* Nothing found.  The session tries once and Pop twice more before it takes
\* the lock; under the lock it waits.
Missed ==
    /\ writer.pc = "miss"
    /\ IF lock = "writer"
       THEN /\ lock' = "none"
            /\ IF stop THEN Skip("exit") /\ UNCHANGED condq
               ELSE Skip("wait") /\ condq' = Append(condq, "writer")
       ELSE /\ UNCHANGED <<lock, condq, chain, starving, bypass>>
            /\ writer' = IF writer.tries > 0 /\ stop THEN [writer EXCEPT !.pc = "exit"]
                         ELSE IF writer.tries = 2 THEN [writer EXCEPT !.pc = "lock"]
                         ELSE [pc |-> "high", tries |-> writer.tries + 1]
    /\ UNCHANGED <<length, stop, closed, sender, closer>>

PopLock ==
    /\ \/ writer.pc = "lock"
       \/ writer.pc = "wait" /\ ~Waiting("writer")
    /\ lock = "none"
    /\ lock' = "writer" /\ writer' = [writer EXCEPT !.pc = "high"]
    /\ UNCHANGED <<queueVars, condq, sender, closer>>
-------------------------------------------------------------------------------
(* Mux.Close with release *)

Close ==
    /\ closer = "idle"
    /\ closed' = TRUE /\ closer' = "drain"
    /\ UNCHANGED <<length, chain, starving, stop, bypass, lock, condq, sender, writer>>

\* TryPop until nothing is left; the packets go back to their pool.  The write
\* session may be in TryPop too, so that the update of starving may be lost.
releaseTryPop ==
    /\ closer = "drain"
    /\ \/ /\ \A c \in Class : chain[c] = <<>>
          /\ closer' = "stop" /\ UNCHANGED <<chain, length, starving>>
       \/ /\ \E c \in Class :
                /\ chain[c] # <<>> /\ chain' = [chain EXCEPT ![c] = Tail(@)]
                /\ starving' \in {starving, Starved(c)}
          /\ length' = length - 1
          /\ closer' = IF length = LowWater THEN "bcast" ELSE "drain"
    /\ UNCHANGED <<stop, closed, bypass, lock, condq, sender, writer>>

releaseBroadcast ==
    /\ closer = "bcast" /\ lock = "none"
    /\ Broadcast /\ closer' = "drain"
    /\ UNCHANGED <<queueVars, lock, sender, writer>>

Stop ==
    /\ closer = "stop"
    /\ stop' = TRUE /\ closer' = "wake"
    /\ UNCHANGED <<length, chain, starving, closed, bypass, lock, condq, sender, writer>>

StopBroadcast ==
    /\ closer = "wake" /\ lock = "none"
    /\ Broadcast /\ closer' = "done"
    /\ UNCHANGED <<queueVars, lock, sender, writer>>
-------------------------------------------------------------------------------
SenderStep(s) == BackpressureLock(s) \/ BackpressureCheck(s) \/ PushAdd(s)
                    \/ Push(s) \/ PushSignal(s)
WriterStep == WriteTop \/ TryPopHigh \/ TryPopMid \/ TryPopLow \/ TryPopAgain
                 \/ afterPop \/ afterPopBroadcast \/ Missed \/ PopLock
CloserStep == releaseTryPop \/ releaseBroadcast \/ Stop \/ StopBroadcast

Next == \/ \E s \in Senders : (\E c \in Classes : sendInfo(s, c)) \/ SenderStep(s)
        \/ WriterStep \/ Close \/ CloserStep

Spec == Init /\ [][Next]_vars

\* The goroutines run; a mutex that is free again and again is acquired.
FairSpec ==
    /\ Spec /\ WF_vars(WriterStep) /\ SF_vars(PopLock) /\ SF_vars(afterPopBroadcast)
    /\ WF_vars(CloserStep) /\ SF_vars(StopBroadcast) /\ SF_vars(releaseBroadcast)
    /\ \A s \in Senders : /\ WF_vars(SenderStep(s)) /\ SF_vars(BackpressureLock(s))
                          /\ SF_vars(PushSignal(s))
-------------------------------------------------------------------------------
(* Properties *)

Packet == (Senders \cup {"first"}) \X Nat

\* The length stays a natural number: Push counts before it pushes and afterPop
\* after it has popped, so that the counter never wraps below 0.
TypeOK ==
    /\ length \in Nat /\ chain \in [Class -> Seq(Packet)]
    /\ starving \in 0..(StarvingMod - 1) /\ stop \in BOOLEAN /\ closed \in BOOLEAN
    /\ lock \in Senders \cup {"none", "writer"}
    /\ condq \in Seq(Senders \cup {"writer"})
    /\ sender \in [Senders -> [pc : {"idle", "lock", "check", "wait", "add", "push",
                                     "signal"}, todo : Nat, n : Nat, class : Class]]
    /\ writer \in [pc : {"top", "high", "mid", "low", "again", "after", "bcast", "miss",
                         "lock", "wait", "exit"}, tries : 0..2]
    /\ closer \in {"idle", "never", "drain", "bcast", "stop", "wake", "done"}
    /\ bypass \in Nat

\* "not pop too much, lowestChain will wait too long": while data waits in the
\* lowest chain at most maxStarving middle packets overtake it, and one more if
\* the uint8 wraps on a packet taken just as the data arrives.
LowestNotStarved == closed \/ bypass <= maxStarving + 1

\* Every packet that is pushed is written: the signal of a push is never spent
\* on a sender that waits for room while the write session sleeps.  A sender held
\* back by a full queue is let go, when the queue drains or when the mux is
\* closed, and after Close the write session ends and Close itself returns.
QueueSettles ==
    <>[](/\ closed \/ \A c \in Class : chain[c] = <<>>
         /\ \A s \in Senders : sender[s].pc = "idle"
         /\ closed => writer.pc = "exit" /\ closer = "done")
===============================================================================
