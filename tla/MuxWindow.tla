------------------------------ MODULE MuxWindow ------------------------------
(***************************************************************************)
(* The flow control of one direction of a multiplexed connection           *)
(* (lib/mux/conn.go): the writer and the send window on one side, the      *)
(* receive window, the session goroutine that fills it and the reader that *)
(* drains it on the other.                                                 *)
(*                                                                         *)
(* The bytes of the stream are their positions 0, 1, 2, ...; a segment is  *)
(* the interval [lo, hi).  The packed word maxSizeDone of a window is the  *)
(* record [max, done, wait].  One step is one load or one compare-and-swap *)
(* of that word together with the work that no other goroutine can see.    *)
(*                                                                         *)
(* An acknowledgement (muxMsgSendOk) carries the window size and a number  *)
(* of bytes read.  Here the number is hi - lo, where lo and hi count the   *)
(* bytes that the acknowledging goroutine had reported before and after.   *)
(* Nothing orders the compare-and-swap of one goroutine with the push into *)
(* the write queue of the other, so each has a channel of its own.         *)
(***************************************************************************)
EXTENDS Integers, Sequences, FiniteSets

CONSTANTS MSS,         \* maximumSegmentSize
          InitWindow,  \* maximumSegmentSize * 30
          WindowSizes, \* the sizes calcSize may choose
          MaxWindow,   \* maximumWindowSize: no size is larger
          DoneMod,     \* 2^windowBits: done is stored modulo this
          WriteSizes,  \* lengths of the buffers given to Write
          ReadSizes,   \* lengths of the buffers given to Read
          MaxBytes     \* bound: length of the stream

ASSUME MuxWindowAssumption ==
    /\ MSS \in Nat \ {0} /\ MaxWindow \in Nat /\ MaxBytes \in Nat
    /\ InitWindow \in 1..MaxWindow /\ WindowSizes \subseteq 1..MaxWindow
    /\ WriteSizes \subseteq Nat \ {0} /\ ReadSizes \subseteq Nat \ {0}
    /\ DoneMod \in Nat /\ DoneMod > MaxWindow

Acker == {"session", "reader"}

VARIABLES snd,        \* sendWindow.maxSizeDone; done counts the bytes in flight
          setSizeCh,  \* tokens in the channel that wakes the writer (capacity 1)
          connWriter, \* [pc, left, size]: the goroutine in Conn.Write
          sentPos,    \* stream position of the next byte to send
          data,       \* segments on their way to the receiver
          acks,       \* per Acker: acknowledgements on their way back
          applied,    \* per Acker: bytes that SetSize has been told of
          rcv,        \* receiveWindow.maxSizeDone; done counts unreported bytes
          rcvSession, \* [pc, seg, old, remain, wait, done]: receiveWindow.Write
          bufQueue,   \* bufQueue: segments pushed and not popped
          qlen,       \* bufQueue.Len()
          pushedPos,  \* stream position up to which segments were queued
          connReader, \* [pc, want, seg, off, old, remain]: receiveWindow.Read
          told        \* per Acker: bytes reported by sendInfo(muxMsgSendOk)

sndVars == <<snd, setSizeCh, connWriter, sentPos>>
rcvVars == <<rcv, rcvSession, bufQueue, qlen, pushedPos, connReader, told>>
flowVars == <<sndVars, data, acks, applied, rcvVars>>

Window(max, done, wait) == [max |-> max, done |-> done, wait |-> wait]
Seg(lo, hi, part) == [lo |-> lo, hi |-> hi, part |-> part]
Ack(max, lo, hi) == [max |-> max, lo |-> lo, hi |-> hi]
Size(seg) == seg.hi - seg.lo

Min2(a, b) == IF a < b THEN a ELSE b
NoWindow == Window(0, 0, FALSE)  \* nothing is loaded
AtLeast0(n) == IF n > 0 THEN n ELSE 0

WindowInit ==
    /\ snd = Window(InitWindow, 0, FALSE) /\ setSizeCh = 0
    /\ connWriter = [pc |-> "idle", left |-> 0, size |-> 0]
    /\ sentPos = 0 /\ data = <<>>
    /\ acks = [a \in Acker |-> <<>>] /\ applied = [a \in Acker |-> 0]
    /\ rcv = Window(InitWindow, 0, FALSE)
    /\ rcvSession = [pc |-> "idle", seg |-> Seg(0, 0, FALSE), old |-> NoWindow,
                  remain |-> 0, wait |-> FALSE, done |-> 0]
    /\ bufQueue = <<>> /\ qlen = 0 /\ pushedPos = 0
    /\ connReader = [pc |-> "idle", want |-> 0, seg |-> Seg(0, 0, FALSE), off |-> 0,
                 old |-> NoWindow, remain |-> 0]
    /\ told = [a \in Acker |-> 0]
-------------------------------------------------------------------------------
(* The writer: WriteFull, WriteTo, sent, waitReceiveWindow *)

\* Fault: one byte too many.
sndRemainingPlusOne == AtLeast0(snd.max - snd.done + 1)

sndRemaining == AtLeast0(snd.max - snd.done)

\* Conn.Write is called with a buffer of n bytes.
WriteFull(n) ==
    /\ connWriter.pc = "idle" /\ sentPos + n <= MaxBytes
    /\ connWriter' = [connWriter EXCEPT !.pc = "start", !.left = n]
    /\ UNCHANGED <<snd, setSizeCh, sentPos, data, acks, applied, rcvVars>>

\* WriteTo with window left: the size of the segment is fixed now, the window
\* word is updated later by sent.
WriteTo ==
    /\ connWriter.pc = "start" /\ sndRemaining > 0
    /\ connWriter' = [connWriter EXCEPT !.pc = "sent",
                     !.size = Min2(sndRemaining, Min2(MSS, connWriter.left))]
    /\ UNCHANGED <<snd, setSizeCh, sentPos, data, acks, applied, rcvVars>>

\* WriteTo with the window full: the wait bit is set and the writer blocks.
WriteToFull ==
    /\ connWriter.pc = "start" /\ sndRemaining = 0
    /\ snd' = [snd EXCEPT !.wait = TRUE]
    /\ connWriter' = [connWriter EXCEPT !.pc = "wait"]
    /\ UNCHANGED <<setSizeCh, sentPos, data, acks, applied, rcvVars>>

\* sent, then sendInfo of the segment; WriteFull stops after the last one.
\* The overflow loop of sent is never entered: see NeverOverflows.
sentSeg ==
    LET seg == Seg(sentPos, sentPos + connWriter.size, connWriter.size < connWriter.left)
    IN /\ connWriter.pc = "sent"
       /\ snd' = [snd EXCEPT !.done = @ + connWriter.size]
       /\ sentPos' = seg.hi
       /\ data' = Append(data, seg)
       /\ connWriter' = [pc |-> IF seg.part THEN "start" ELSE "idle",
                     left |-> connWriter.left - connWriter.size, size |-> 0]
       /\ UNCHANGED <<setSizeCh, acks, applied, rcvVars>>

waitReceiveWindow ==
    /\ connWriter.pc = "wait" /\ setSizeCh = 1
    /\ setSizeCh' = 0
    /\ connWriter' = [connWriter EXCEPT !.pc = "start"]
    /\ UNCHANGED <<snd, sentPos, data, acks, applied, rcvVars>>

\* The write deadline passes: Write returns an error, the rest is dropped.
waitTimeout ==
    /\ connWriter.pc = "wait"
    /\ connWriter' = [connWriter EXCEPT !.pc = "idle", !.left = 0]
    /\ UNCHANGED <<snd, setSizeCh, sentPos, data, acks, applied, rcvVars>>
-------------------------------------------------------------------------------
(* The sender's session goroutine *)

\* SetSize, with the token of allow.
SetSize(a) ==
    /\ acks[a] # <<>>
    /\ LET ack == Head(acks[a])
           read == ack.hi - ack.lo
           outstanding == snd.done - read
           nextWait == AtLeast0(ack.max - outstanding) = 0 /\ snd.wait
       IN /\ applied' = [applied EXCEPT ![a] = ack.hi]
          /\ IF read > snd.done \/ (read = 0 /\ ack.max = snd.max)
             THEN UNCHANGED <<snd, setSizeCh>>
             ELSE /\ snd' = Window(ack.max, outstanding, nextWait)
                  /\ setSizeCh' = IF snd.wait /\ ~nextWait THEN 1 ELSE setSizeCh
    /\ acks' = [acks EXCEPT ![a] = Tail(@)]
    /\ UNCHANGED <<connWriter, sentPos, data, rcvVars>>
-------------------------------------------------------------------------------
(* The receiver's session goroutine: receiveWindow.Write *)

rcvRemaining(max, delta) == AtLeast0(max - qlen - delta)

\* A segment arrives; calcSize may choose another window size.
calcSize ==
    /\ rcvSession.pc = "idle" /\ data # <<>>
    /\ data' = Tail(data)
    /\ \E n \in WindowSizes \cup {rcv.max} : rcv' = [rcv EXCEPT !.max = n]
    /\ rcvSession' = [rcvSession EXCEPT !.pc = "load", !.seg = Head(data)]
    /\ UNCHANGED <<sndVars, acks, applied, bufQueue, qlen, pushedPos, connReader, told>>

\* The word is loaded, then Len().
WriteLoad ==
    /\ rcvSession.pc = "load"
    /\ rcvSession' = [rcvSession EXCEPT !.pc = "cas", !.old = rcv,
                      !.remain = rcvRemaining(rcv.max, Size(rcvSession.seg))]
    /\ UNCHANGED <<sndVars, data, acks, applied, rcv, bufQueue, qlen, pushedPos,
                   connReader, told>>

\* Fault: the swap is tried again with the old word.
WriteRetryNoLoad ==
    /\ rcvSession.pc = "cas" /\ ~rcvSession.old.wait /\ rcv # rcvSession.old
    /\ UNCHANGED flowVars

\* The word changed since it was loaded: start again.
WriteRetry ==
    /\ rcvSession.pc = "cas" /\ ~rcvSession.old.wait /\ rcv # rcvSession.old
    /\ rcvSession' = [rcvSession EXCEPT !.pc = "load", !.old = NoWindow, !.remain = 0]
    /\ UNCHANGED <<sndVars, data, acks, applied, rcv, bufQueue, qlen, pushedPos,
                   connReader, told>>

\* The window is full: the wait bit is set, or was set, and nothing is
\* reported.  With the bit set there is no compare-and-swap.
WriteWait ==
    /\ rcvSession.pc = "cas"
    /\ \/ rcvSession.old.wait /\ UNCHANGED rcv
       \/ /\ ~rcvSession.old.wait /\ rcvSession.remain = 0 /\ rcv = rcvSession.old
          /\ rcv' = [rcv EXCEPT !.wait = TRUE]
    /\ rcvSession' = [rcvSession EXCEPT !.pc = "push", !.wait = TRUE, !.remain = 0]
    /\ UNCHANGED <<sndVars, data, acks, applied, bufQueue, qlen, pushedPos,
                   connReader, told>>

\* There is window left: the bytes read so far are taken over, to be reported
\* once the segment is queued.
WriteReset ==
    /\ rcvSession.pc = "cas" /\ ~rcvSession.old.wait /\ rcvSession.remain > 0
    /\ rcv = rcvSession.old
    /\ rcv' = [rcv EXCEPT !.done = 0]
    /\ rcvSession' = [rcvSession EXCEPT !.pc = "push", !.wait = FALSE,
                                  !.remain = 0, !.done = rcv.done]
    /\ UNCHANGED <<sndVars, data, acks, applied, bufQueue, qlen, pushedPos,
                   connReader, told>>

\* sendInfo(muxMsgSendOk, ...) by goroutine a.
sendOk(a, max, read) ==
    /\ told' = [told EXCEPT ![a] = @ + read]
    /\ acks' = [acks EXCEPT ![a] = Append(@, Ack(max, told[a], told[a] + read))]

\* bufQueue.Push, then the report if there is one.
WritePush ==
    /\ rcvSession.pc = "push"
    /\ bufQueue' = Append(bufQueue, rcvSession.seg)
    /\ qlen' = qlen + Size(rcvSession.seg)
    /\ pushedPos' = rcvSession.seg.hi
    /\ IF rcvSession.wait
       THEN UNCHANGED <<told, acks>>
       ELSE sendOk("session", rcvSession.old.max, rcvSession.done)
    /\ rcvSession' = [rcvSession EXCEPT !.pc = "idle", !.old = NoWindow, !.done = 0]
    /\ UNCHANGED <<sndVars, data, applied, rcv, connReader>>
-------------------------------------------------------------------------------
(* The reader: receiveWindow.Read, readFromQueue, sendStatus *)

\* Conn.Read is called with a buffer of n bytes; what is left of the last
\* segment comes first.
ReadConn(n) ==
    /\ connReader.pc = "idle"
    /\ connReader' = [connReader EXCEPT !.want = n,
                     !.pc = IF connReader.off = connReader.seg.hi THEN "pop" ELSE "copy"]
    /\ UNCHANGED <<sndVars, data, acks, applied, rcv, rcvSession, bufQueue, qlen,
                   pushedPos, told>>

Pop ==
    /\ connReader.pc = "pop" /\ bufQueue # <<>>
    /\ bufQueue' = Tail(bufQueue)
    /\ qlen' = qlen - Size(Head(bufQueue))
    /\ connReader' = [connReader EXCEPT !.pc = "copy", !.seg = Head(bufQueue),
                                !.off = Head(bufQueue).lo]
    /\ UNCHANGED <<sndVars, data, acks, applied, rcv, rcvSession, pushedPos, told>>

copyData ==
    /\ connReader.pc = "copy"
    /\ LET l == Min2(connReader.want, connReader.seg.hi - connReader.off)
       IN connReader' = [connReader EXCEPT !.off = @ + l, !.want = @ - l,
             !.pc = IF connReader.off + l = connReader.seg.hi THEN "status" ELSE "idle"]
    /\ UNCHANGED <<sndVars, data, acks, applied, rcv, rcvSession, bufQueue, qlen,
                   pushedPos, told>>

sendStatusLoad ==
    /\ connReader.pc = "status"
    /\ connReader' = [connReader EXCEPT !.pc = "cas", !.old = rcv,
                                !.remain = rcvRemaining(rcv.max, 0)]
    /\ UNCHANGED <<sndVars, data, acks, applied, rcv, rcvSession, bufQueue, qlen,
                   pushedPos, told>>

sendStatusRetry ==
    /\ connReader.pc = "cas" /\ rcv # connReader.old
    /\ connReader' = [connReader EXCEPT !.pc = "status", !.old = NoWindow, !.remain = 0]
    /\ UNCHANGED <<sndVars, data, acks, applied, rcv, rcvSession, bufQueue, qlen,
                   pushedPos, told>>

\* Must the bytes read be reported now?
reportDue(max, wait, read, remain) ==
    (wait /\ remain > 0) \/ read >= max \div 2 \/ remain = max

\* Fault: the bytes read stay counted after they were reported.
sendStatusNoReset ==
    /\ connReader.pc = "cas" /\ rcv = connReader.old
    /\ LET read == rcv.done + Size(connReader.seg)
       IN IF reportDue(rcv.max, rcv.wait, read, connReader.remain)
          THEN /\ rcv' = Window(rcv.max, read, FALSE)
               /\ sendOk("reader", rcv.max, read)
          ELSE /\ rcv' = [rcv EXCEPT !.done = read]
               /\ UNCHANGED <<told, acks>>
    /\ connReader' = [connReader EXCEPT !.old = NoWindow, !.remain = 0,
                     !.pc = IF connReader.want > 0 /\ connReader.seg.part
                            THEN "pop" ELSE "idle"]
    /\ UNCHANGED <<sndVars, data, applied, rcvSession, bufQueue, qlen, pushedPos>>

\* The swap succeeds.  readFromQueue goes on with the next segment of the same
\* Write while the buffer has room.  The overflow branch of sendStatus is never
\* taken: see NeverOverflows.
sendStatus ==
    /\ connReader.pc = "cas" /\ rcv = connReader.old
    /\ LET read == rcv.done + Size(connReader.seg)
       IN IF reportDue(rcv.max, rcv.wait, read, connReader.remain)
          THEN /\ rcv' = Window(rcv.max, 0, FALSE)
               /\ sendOk("reader", rcv.max, read)
          ELSE /\ rcv' = [rcv EXCEPT !.done = read]
               /\ UNCHANGED <<told, acks>>
    /\ connReader' = [connReader EXCEPT !.old = NoWindow, !.remain = 0,
                     !.pc = IF connReader.want > 0 /\ connReader.seg.part
                            THEN "pop" ELSE "idle"]
    /\ UNCHANGED <<sndVars, data, applied, rcvSession, bufQueue, qlen, pushedPos>>
-------------------------------------------------------------------------------
Writer == (\E n \in WriteSizes : WriteFull(n)) \/ WriteTo \/ WriteToFull \/ sentSeg
            \/ waitReceiveWindow \/ waitTimeout
Session == calcSize \/ WriteLoad \/ WriteRetry \/ WriteWait \/ WriteReset
            \/ WritePush
Reader == (\E n \in ReadSizes : ReadConn(n)) \/ Pop \/ copyData \/ sendStatusLoad
            \/ sendStatusRetry \/ sendStatus

WindowNext == Writer \/ (\E a \in Acker : SetSize(a)) \/ Session \/ Reader

WindowSpec == WindowInit /\ [][WindowNext]_flowVars

\* The goroutines run and the connection below delivers; the application keeps
\* reading.  No Write has to be started, no deadline has to pass.
WindowFairness ==
    /\ WF_flowVars(WriteTo \/ WriteToFull \/ sentSeg \/ waitReceiveWindow)
    /\ \A a \in Acker : WF_flowVars(SetSize(a))
    /\ WF_flowVars(Session) /\ WF_flowVars(Reader)

WindowFairSpec == WindowSpec /\ WindowFairness
-------------------------------------------------------------------------------
(* Properties *)

WindowType == [max : Nat, done : Nat, wait : BOOLEAN]
SegType == [lo : Nat, hi : Nat, part : BOOLEAN]
AckType == [max : Nat, lo : Nat, hi : Nat]

WriterType == [pc : {"idle", "start", "sent", "wait"}, left : Nat, size : Nat]
SessionType == [pc : {"idle", "load", "cas", "push"}, seg : SegType,
                old : WindowType, remain : Nat, wait : BOOLEAN, done : Nat]
ReaderType == [pc : {"idle", "pop", "copy", "status", "cas"}, want : Nat,
               seg : SegType, off : Nat, old : WindowType, remain : Nat]

\* The words of both windows and the counts of the goroutines have their types;
\* the length of the receive queue never goes below 0.
WindowTypeOK ==
    /\ snd \in WindowType /\ setSizeCh \in {0, 1}
    /\ connWriter \in WriterType /\ sentPos \in Nat
    /\ data \in Seq(SegType)
    /\ acks \in [Acker -> Seq(AckType)] /\ applied \in [Acker -> Nat]
    /\ rcv \in WindowType
    /\ rcvSession \in SessionType
    /\ bufQueue \in Seq(SegType) /\ qlen \in Nat /\ pushedPos \in Nat
    /\ connReader \in ReaderType
    /\ told \in [Acker -> Nat]

\* The intervals of s follow each other without gap from a to b.
Chain(s, a, b) ==
    /\ a <= b
    /\ s = <<>> => a = b
    /\ s # <<>> => s[1].lo = a /\ s[Len(s)].hi = b
    /\ \A i \in DOMAIN s : a <= s[i].lo /\ s[i].lo <= s[i].hi /\ s[i].hi <= b
    /\ \A i \in DOMAIN s : i < Len(s) => s[i].hi = s[i + 1].lo
    /\ \A i, j \in DOMAIN s : i < j => s[i].hi <= s[j].lo

\* The stream position up to which segments have left the connection below,
\* and the one up to which sendStatus has counted them as read.
arrivedPos == IF rcvSession.pc = "idle" THEN pushedPos ELSE rcvSession.seg.hi
countedPos == IF connReader.pc \in {"status", "cas"} \/ connReader.off # connReader.seg.hi
              THEN connReader.seg.lo ELSE connReader.seg.hi

WriterInv ==
    /\ connWriter.pc = "sent" => connWriter.size > 0 /\ connWriter.size <= connWriter.left
    /\ connWriter.pc # "sent" => connWriter.size = 0
    /\ connWriter.pc \in {"start", "wait"} => connWriter.left > 0
    /\ snd.done + connWriter.size <= MaxWindow
    /\ snd.max <= MaxWindow

\* Every segment is in one place: on its way, held by the session goroutine,
\* queued, or with the reader; the length of the queue is what is in it.
SegmentsInv ==
    /\ Chain(data, arrivedPos, sentPos)
    /\ \A i \in DOMAIN data : data[i].lo < data[i].hi
    /\ rcvSession.pc # "idle" => rcvSession.seg.lo = pushedPos /\ pushedPos < rcvSession.seg.hi
    /\ Chain(bufQueue, connReader.seg.hi, pushedPos)
    /\ \A i \in DOMAIN bufQueue : bufQueue[i].lo < bufQueue[i].hi
    /\ qlen = pushedPos - connReader.seg.hi
    /\ connReader.seg.lo <= connReader.off /\ connReader.off <= connReader.seg.hi
    /\ connReader.pc = "copy" => connReader.off # connReader.seg.hi
    /\ connReader.pc \in {"pop", "status", "cas"} => connReader.off = connReader.seg.hi

\* Every byte counted as read is in one place: not yet reported, about to be
\* reported, in an acknowledgement, or taken off the send window.
AcksInv ==
    /\ countedPos = rcv.done + rcvSession.done + told["session"] + told["reader"]
    /\ rcvSession.pc # "push" => rcvSession.done = 0
    /\ rcvSession.pc = "push" /\ rcvSession.wait => rcvSession.done = 0
    /\ \A a \in Acker : Chain(acks[a], applied[a], told[a])
    /\ \A a \in Acker : \A i \in DOMAIN acks[a] : acks[a][i].max <= MaxWindow
    /\ snd.done = sentPos - applied["session"] - applied["reader"]
    /\ rcv.max <= MaxWindow /\ rcvSession.old.max <= MaxWindow

\* No byte is lost or counted twice between the two windows: "send and read
\* will be totally equal".  This is the inductive invariant behind the bounds
\* below.
BytesConserved == WriterInv /\ SegmentsInv /\ AcksInv

\* The receive queue never holds more bytes than the largest window, whatever
\* sizes calcSize chose and in whatever order the acknowledgements arrived.
ReceiverHoldsAtMostAWindow == qlen <= MaxWindow

\* SetSize never finds that more was read than sent ("window read > send"):
\* every acknowledgement on its way reports bytes that are still counted in the
\* send window.
ReadNeverExceedsSend ==
    \A a \in Acker : acks[a] # <<>> =>
        Head(acks[a]).hi - Head(acks[a]).lo <= snd.done

\* The 31-bit counters never wrap: sent never spins on an overflow and
\* sendStatus never takes its overflow branch.
NeverOverflows ==
    /\ snd.done + connWriter.size < DoneMod
    /\ connReader.pc = "cas" => rcv.done + Size(connReader.seg) < DoneMod

\* A Write that waits for window is let go again while the other side reads, and
\* every byte that was sent is read: no interleaving of reports, wait bits and
\* resizing loses the last wake-up.
SentIsRead == <>[](connWriter.pc = "idle" /\ connReader.off = sentPos)
===============================================================================
