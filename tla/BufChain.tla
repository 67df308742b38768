------------------------------- MODULE BufChain -------------------------------
(***************************************************************************)
(* bufDequeue and bufChain of lib/mux/queue.go: the lock-free queue under  *)
(* the write queue, the queue of new connections and the receive queues.   *)
(* A chain is a list of ring buffers; producers push to the newest ring    *)
(* and double it when it is full, consumers pop from the oldest and drop   *)
(* it once it is drained.                                                  *)
(*                                                                         *)
(* One step is one atomic memory access.  A load and the compare-and-swap  *)
(* that re-validates it are one step: the swap only succeeds if nothing    *)
(* it depends on has changed.  The starving counters only steer            *)
(* runtime.Gosched and are left out.                                       *)
(***************************************************************************)
EXTENDS Naturals, FiniteSets, Sequences, SequencesExt

CONSTANTS Producers,  \* goroutines that push
          Consumers,  \* goroutines that pop
          Loads,      \* how many values each producer may push (a bound)
          InitSizes,  \* lengths of the first ring
          SizeLimit,  \* dequeueLimit: no ring is longer
          IndexMod    \* 2^dequeueBits: head and tail are counted modulo this

VARIABLES elts,      \* the rings ever allocated, in the order they were linked
          chainHead, \* c.head: the ring that is pushed to
          chainTail, \* c.tail: the ring that is popped from
          newChain,  \* c.newChain: 1 while a producer grows the chain
          prod,      \* per producer: [pc, todo, n, d, idx]
          cons,      \* per consumer: [pc, d, d2, tail]
          popped     \* every value handed out, in order

vars == <<elts, chainHead, chainTail, newChain, prod, cons, popped>>

Nil == <<>>
Value == UNION {{p} \X (1..load[p]) : p \in Producers, load \in Loads}

Min2(a, b) == IF a < b THEN a ELSE b

\* A ring: slot i holds the element of index i modulo the length.
Ring(size) == [size |-> size, head |-> 0, tail |-> 0, next |-> 0,
               vals |-> [i \in 0..(size - 1) |-> Nil]]

Init ==
    /\ \E size \in InitSizes : elts = <<Ring(size)>>
    /\ chainHead = 1 /\ chainTail = 1 /\ newChain = 0
    /\ \E load \in Loads :
         prod = [p \in Producers |->
                   [pc |-> "idle", todo |-> load[p], n |-> 0, d |-> 0, idx |-> 0]]
    /\ cons = [c \in Consumers |-> [pc |-> "idle", d |-> 0, d2 |-> 0, tail |-> 0]]
    /\ popped = <<>>

Full(r) == (r.tail + r.size) % IndexMod = r.head

\* The value a producer is pushing.
Pushing(p) == <<p, prod[p].n>>
-------------------------------------------------------------------------------
(* pushHead *)

\* Spin until no ring is being added, then load c.head.
PushStart(p) ==
    /\ prod[p].pc = "idle" /\ prod[p].todo > 0
    /\ newChain = 0
    /\ prod' = [prod EXCEPT ![p] = [@ EXCEPT !.pc = "load", !.todo = @ - 1, !.n = @ + 1]]
    /\ UNCHANGED <<elts, chainHead, chainTail, newChain, cons, popped>>

PushRestart(p) ==
    /\ prod[p].pc = "restart"
    /\ newChain = 0
    /\ prod' = [prod EXCEPT ![p].pc = "load"]
    /\ UNCHANGED <<elts, chainHead, chainTail, newChain, cons, popped>>

PushLoadHead(p) ==
    /\ prod[p].pc = "load"
    /\ prod' = [prod EXCEPT ![p].pc = "reserve", ![p].d = chainHead]
    /\ UNCHANGED <<elts, chainHead, chainTail, newChain, cons, popped>>

\* bufDequeue.pushHead: claim the head index, or find the ring full.
PushReserve(p) ==
    LET d == prod[p].d
        r == elts[d]
    IN /\ prod[p].pc = "reserve"
       /\ IF Full(r)
          THEN /\ prod' = [prod EXCEPT ![p].pc = "full"]
               /\ UNCHANGED elts
          ELSE /\ elts' = [elts EXCEPT ![d].head = (@ + 1) % IndexMod]
               /\ prod' = [prod EXCEPT ![p].pc = "store",
                                       ![p].idx = r.head % r.size]
       /\ UNCHANGED <<chainHead, chainTail, newChain, cons, popped>>

PushStore(p) ==
    /\ prod[p].pc = "store"
    /\ elts' = [elts EXCEPT ![prod[p].d].vals[prod[p].idx] = Pushing(p)]
    /\ prod' = [prod EXCEPT ![p].pc = "idle"]
    /\ UNCHANGED <<chainHead, chainTail, newChain, cons, popped>>

\* The ring is full: one producer wins newChain and grows the chain.
PushGrow(p) ==
    /\ prod[p].pc = "full"
    /\ IF newChain = 0
       THEN newChain' = 1 /\ prod' = [prod EXCEPT ![p].pc = "publish"]
       ELSE UNCHANGED newChain /\ prod' = [prod EXCEPT ![p].pc = "restart"]
    /\ UNCHANGED <<elts, chainHead, chainTail, cons, popped>>

\* The new ring already holds the value when c.head is set to it.
PushPublish(p) ==
    /\ prod[p].pc = "publish"
    /\ LET size == Min2(2 * elts[prod[p].d].size, SizeLimit)
       IN elts' = Append(elts, [Ring(size) EXCEPT !.head = 1,
                                                  !.vals[0] = Pushing(p)])
    /\ chainHead' = Len(elts')
    /\ prod' = [prod EXCEPT ![p].pc = "link"]
    /\ UNCHANGED <<chainTail, newChain, cons, popped>>

PushLink(p) ==
    /\ prod[p].pc = "link"
    /\ elts' = [elts EXCEPT ![prod[p].d].next = chainHead]
    /\ prod' = [prod EXCEPT ![p].pc = "unlock"]
    /\ UNCHANGED <<chainHead, chainTail, newChain, cons, popped>>

PushUnlock(p) ==
    /\ prod[p].pc = "unlock"
    /\ newChain' = 0
    /\ prod' = [prod EXCEPT ![p].pc = "idle"]
    /\ UNCHANGED <<elts, chainHead, chainTail, cons, popped>>
-------------------------------------------------------------------------------
(* popTail *)

PopStart(c) ==
    /\ cons[c].pc = "idle"
    /\ cons' = [cons EXCEPT ![c].pc = "next", ![c].d = chainTail]
    /\ UNCHANGED <<elts, chainHead, chainTail, newChain, prod, popped>>

\* The next pointer is loaded before the ring is looked at.
PopLoadNext(c) ==
    /\ cons[c].pc = "next"
    /\ cons' = [cons EXCEPT ![c].pc = "look", ![c].d2 = elts[cons[c].d].next]
    /\ UNCHANGED <<elts, chainHead, chainTail, newChain, prod, popped>>

PopLook(c) ==
    LET r == elts[cons[c].d]
    IN /\ cons[c].pc = "look"
       /\ cons' = [cons EXCEPT ![c].tail = r.tail,
                               ![c].pc = IF r.tail = r.head THEN "empty" ELSE "take"]
       /\ UNCHANGED <<elts, chainHead, chainTail, newChain, prod, popped>>

\* Fault: a slot that has not been stored yet is skipped.
PopTakeSkips(c) ==
    LET d == cons[c].d
        i == cons[c].tail % elts[d].size
        v == elts[d].vals[i]
    IN /\ cons[c].pc = "take"
       /\ elts' = [elts EXCEPT ![d].vals[i] = Nil]
       /\ popped' = IF v = Nil THEN popped ELSE Append(popped, v)
       /\ cons' = [cons EXCEPT ![c].pc = "advance"]
       /\ UNCHANGED <<chainHead, chainTail, newChain, prod>>

\* The slot may not have been stored yet, or be taken already: look again.
PopTake(c) ==
    LET d == cons[c].d
        i == cons[c].tail % elts[d].size
        v == elts[d].vals[i]
    IN /\ cons[c].pc = "take"
       /\ IF v = Nil
          THEN cons' = [cons EXCEPT ![c].pc = "look"] /\ UNCHANGED <<elts, popped>>
          ELSE /\ elts' = [elts EXCEPT ![d].vals[i] = Nil]
               /\ popped' = Append(popped, v)
               /\ cons' = [cons EXCEPT ![c].pc = "advance"]
       /\ UNCHANGED <<chainHead, chainTail, newChain, prod>>

\* headTail is one word: adding 1 carries into head, which the branch on the
\* tail the consumer saw compensates for.
AfterAdvance(r, seen) ==
    LET carry == IF r.tail = IndexMod - 1 THEN 1 ELSE 0
        delta == IF seen < IndexMod - 1 THEN 0 ELSE IndexMod - 1
    IN [r EXCEPT !.tail = (@ + 1) % IndexMod,
                 !.head = (@ + delta + carry) % IndexMod]

PopAdvance(c) ==
    /\ cons[c].pc = "advance"
    /\ elts' = [elts EXCEPT ![cons[c].d] = AfterAdvance(@, cons[c].tail)]
    /\ cons' = [cons EXCEPT ![c].pc = "idle"]
    /\ UNCHANGED <<chainHead, chainTail, newChain, prod, popped>>

\* Fault: the next pointer is loaded after the ring was found empty.
PopEmptyLateNext(c) ==
    LET d == cons[c].d
        d2 == elts[d].next
    IN /\ cons[c].pc = "empty"
       /\ IF d2 = 0
          THEN cons' = [cons EXCEPT ![c].pc = "idle"] /\ UNCHANGED chainTail
          ELSE chainTail' = d2 /\ cons' = [cons EXCEPT ![c].pc = "next", ![c].d = d2]
       /\ UNCHANGED <<elts, chainHead, newChain, prod, popped>>

\* The ring is drained.  Without a next ring popTail reports "empty";
\* otherwise it drops the ring and goes on with the next one.
PopEmpty(c) ==
    LET d == cons[c].d
        d2 == cons[c].d2
    IN /\ cons[c].pc = "empty"
       /\ IF d2 = 0
          THEN cons' = [cons EXCEPT ![c].pc = "idle"] /\ UNCHANGED chainTail
          ELSE /\ chainTail' = IF chainTail = d THEN d2 ELSE chainTail
               /\ cons' = [cons EXCEPT ![c].pc = "next", ![c].d = d2]
       /\ UNCHANGED <<elts, chainHead, newChain, prod, popped>>
-------------------------------------------------------------------------------
Push(p) == \/ PushStart(p) \/ PushRestart(p) \/ PushLoadHead(p)
           \/ PushReserve(p) \/ PushStore(p) \/ PushGrow(p)
           \/ PushPublish(p) \/ PushLink(p) \/ PushUnlock(p)

Pop(c) == \/ PopStart(c) \/ PopLoadNext(c) \/ PopLook(c) \/ PopTake(c)
          \/ PopAdvance(c) \/ PopEmpty(c)

Next == (\E p \in Producers : Push(p)) \/ (\E c \in Consumers : Pop(c))

Spec == Init /\ [][Next]_vars

\* Goroutines that can run do run.
FairSpec == /\ Spec
            /\ \A p \in Producers : WF_vars(Push(p))
            /\ \A c \in Consumers : WF_vars(Pop(c))
-------------------------------------------------------------------------------
(* Properties *)

\* Head and tail stay within their bits of the packed word: moving the tail
\* never carries into the head.
TypeOK ==
    /\ \A d \in DOMAIN elts :
         LET r == elts[d] IN
         /\ r.size \in 1..SizeLimit
         /\ r.head \in 0..(IndexMod - 1) /\ r.tail \in 0..(IndexMod - 1)
         /\ r.next \in 0..Len(elts)
         /\ r.vals \in [0..(r.size - 1) -> Value \cup {Nil}]
    /\ chainHead \in DOMAIN elts /\ chainTail \in DOMAIN elts
    /\ newChain \in {0, 1}
    /\ popped \in Seq(Value)

\* The indexes in [tail, head) of a ring, oldest first.
Live(r) == [k \in 1..((r.head + IndexMod - r.tail) % IndexMod)
              |-> (r.tail + k - 1) % r.size]

\* What slot i of ring d holds: a stored value, the value of the producer
\* that has claimed the slot, or nothing any more.
Content(d, i) ==
    IF elts[d].vals[i] # Nil THEN <<elts[d].vals[i]>>
    ELSE LET P == {p \in Producers : prod[p].pc = "store"
                                     /\ prod[p].d = d /\ prod[p].idx = i}
         IN IF P = {} THEN <<>> ELSE <<Pushing(CHOOSE p \in P : TRUE)>>

RingContent(d) ==
    LET live == Live(elts[d])
    IN FlattenSeq([k \in DOMAIN live |-> Content(d, live[k])])

\* The last ring that can be reached from chainTail through next.
Linked == {d \in chainTail..Len(elts) :
             \A e \in chainTail..(d - 1) : elts[e].next = e + 1}

ChainContent ==
    FlattenSeq([k \in 1..Cardinality(Linked) |-> RingContent(chainTail + k - 1)])

\* Several producers never push to a chain that has to grow: one producer
\* pushes, or everything that is pushed fits into the first ring.
NoGrowthRace ==
    LET load == [p \in Producers |-> prod[p].n + prod[p].todo]
    IN \/ Cardinality({p \in Producers : load[p] > 0}) <= 1
       \/ SumFunction(load) <= elts[1].size

PerProducerOrder ==
    \A i, j \in DOMAIN popped :
        i < j /\ popped[i][1] = popped[j][1] => popped[i][2] < popped[j][2]

Fifo == INSTANCE FifoQueue WITH queue <- ChainContent

\* Every step of pushHead and popTail is a push, a pop or no visible change of
\* a first-in first-out queue: no value is lost, invented, popped twice or
\* overtaken, whether one producer makes the chain grow and drop its rings or
\* several share a ring.  Also while several race to grow the chain, the values of
\* one producer are popped at most once and in the order in which it pushed them.
ImplementsFifo ==
    /\ Fifo!Init
    /\ [][NoGrowthRace => Fifo!Next]_<<ChainContent, popped>>
    /\ []PerProducerOrder

\* popTail, queue.go: "if next is non-nil before the TryPop and the TryPop
\* fails, then d is permanently empty": a ring that was dropped from the chain
\* holds no value and is never pushed to again.
DroppedIsPermanentlyEmpty ==
    \A d \in 1..(chainTail - 1) :
        \A i \in DOMAIN elts[d].vals : Content(d, i) = <<>>

\* Every value whose push has been started is popped in the end, unless
\* producers race to grow the chain.
EveryPushIsPopped ==
    <>[](NoGrowthRace => \A p \in Producers : \A n \in 1..prod[p].n :
                             <<p, n>> \in Range(popped))
===============================================================================
