--------------------------- MODULE ProxyDataProofs ---------------------------
(***************************************************************************)
(* Where nobody breaks off, a user reads all that the target wrote before  *)
(* it reads the end, for any number of users and chunks, any capacity and  *)
(* any size of the pools: closes travel from the target to the user, never *)
(* ahead of the data, and no chunk is lost on either way.                  *)
(***************************************************************************)
EXTENDS ProxyTypesProofs

-----------------------------------------------------------------------------
(* What holds of a connection *)

\* Nobody breaks off a connection, and no limit of the flow is set.
Orderly == ~setup.abort /\ ~setup.refuse /\ ~setup.close /\ setup.tlimit = 0 /\ setup.climit = 0

\* The labels of a handler that has no link.
NotLinkedYet == {"handle", "secret", "check", "add", "process", "deal"}

\* A pipe that does not exist yet.
NoneYet(p) == p.near = "none" /\ p.far = "none" /\ p.fwd = 0 /\ p.bwd = 0

\* A connection for which nps has opened no link.
Unlinked(v) ==
    /\ h[v] \notin {"invoke", "copy"}
    /\ NoneYet(pipe[v]["L"]) /\ NoneYet(pipe[v]["T"])
    /\ tgt[v].got = 0 /\ tgt[v].sent = 0 /\ user[v].got = 0 /\ pipe[v]["U"].bwd = 0
    /\ h[v] = "idle" => NoneYet(pipe[v]["U"]) /\ user[v].sent = 0
    /\ h[v] \in NotLinkedYet => pipe[v]["U"].near = "open" /\ pipe[v]["U"].far = "open" /\ user[v].sent = pipe[v]["U"].fwd
    /\ \A d \in Dir : cp[v]["npc"][d].pc = "idle" /\ cp[v]["nps"][d].pc = "idle"

\* The target has closed, and npc has read all it wrote; npc has closed, and nps has read all it wrote.
TargetRead(v) == pipe[v]["T"].far = "closed" /\ pipe[v]["T"].bwd = 0

\* npc has closed its end of the link and nps has read all that it wrote.
LinkRead(v) == pipe[v]["L"].far = "closed" /\ pipe[v]["L"].bwd = 0

\* A chunk a copy has read and not written.
InHand(v, j, d) == IF cp[v][j][d].pc = "write" THEN 1 ELSE 0

\* handleChan, and the target: it closes only after it has read the request and sent
\* the response, and npc closes both of its ends together.
AtTargetEnd(v) ==
    /\ npc[v] = "info" => NoneYet(pipe[v]["T"]) /\ pipe[v]["L"].far = "open"
    /\ npc[v] # "info" => pipe[v]["T"].near = pipe[v]["L"].far /\ pipe[v]["T"].far # "none"
    /\ npc[v] = "done" => pipe[v]["L"].far = "closed"
    /\ pipe[v]["T"].far = "closed" => tgt[v].got = setup.req

\* copyConnGroup at npc: its end of the link is closed only after the response was
\* read from the target and written to the link.
AtNpcEnd(v) ==
    /\ pipe[v]["L"].far # "none"
    /\ \A d \in Dir : /\ npc[v] = "copy" => cp[v]["npc"][d].pc # "idle"
                      /\ npc[v] # "copy" => cp[v]["npc"][d].pc = "idle"
    /\ pipe[v]["L"].far = "closed" => TargetRead(v) /\ cp[v]["npc"]["bwd"].pc # "write"
    /\ cp[v]["npc"]["bwd"].pc \in {"close", "done"} => TargetRead(v)
    /\ cp[v]["npc"]["bwd"].pc = "write" /\ cp[v]["npc"]["bwd"].eof => TargetRead(v)
    /\ cp[v]["npc"]["fwd"].pc = "close" => pipe[v]["L"].far = "closed"
    /\ cp[v]["npc"]["fwd"].pc = "write" => ~cp[v]["npc"]["fwd"].eof
    /\ \A d \in Dir : cp[v]["npc"][d].pc = "done" => pipe[v]["L"].far = "closed"

\* copyConnGroup at nps: the connection of the user is closed only after the response
\* was read from the link and written to the user.
AtNpsEnd(v) ==
    /\ h[v] \in {"invoke", "copy", "defer", "gone", "done"}
    /\ pipe[v]["U"].far # "none" /\ pipe[v]["U"].near # "none" /\ pipe[v]["L"].near = pipe[v]["U"].far
    /\ \A d \in Dir : /\ h[v] = "copy" => cp[v]["nps"][d].pc # "idle"
                      /\ h[v] # "copy" => cp[v]["nps"][d].pc = "idle"
    /\ h[v] \in {"defer", "gone", "done"} => pipe[v]["U"].far = "closed"
    /\ pipe[v]["U"].far = "closed" => LinkRead(v) /\ cp[v]["nps"]["bwd"].pc # "write"
    /\ cp[v]["nps"]["bwd"].pc \in {"close", "done"} => LinkRead(v)
    /\ cp[v]["nps"]["bwd"].pc \in {"write", "task", "client"} /\ cp[v]["nps"]["bwd"].eof => LinkRead(v)
    /\ cp[v]["nps"]["fwd"].pc = "close" => pipe[v]["U"].far = "closed"
    /\ cp[v]["nps"]["fwd"].pc \in {"write", "task", "client"} => ~cp[v]["nps"]["fwd"].eof
    /\ \A d \in Dir : cp[v]["nps"][d].pc = "done" => pipe[v]["U"].far = "closed"

\* Nothing is lost, in either direction.
NothingLost(v) ==
    /\ tgt[v].sent = pipe[v]["T"].bwd + InHand(v, "npc", "bwd") + pipe[v]["L"].bwd
                     + InHand(v, "nps", "bwd") + pipe[v]["U"].bwd + user[v].got
    /\ user[v].sent = pipe[v]["U"].fwd + InHand(v, "nps", "fwd") + pipe[v]["L"].fwd
                     + InHand(v, "npc", "fwd") + pipe[v]["T"].fwd + tgt[v].got

\* A connection that has its link.
Linked(v) == AtTargetEnd(v) /\ AtNpcEnd(v) /\ AtNpsEnd(v) /\ NothingLost(v)

\* A connection of an orderly setup: closes travel from the target to the user and
\* overtake nothing.
InOrder(v) ==
    /\ npc[v] = "none" => Unlinked(v)
    /\ npc[v] # "none" => Linked(v)
    /\ user[v].sent <= setup.req
    /\ pipe[v]["U"].near = "closed" => pipe[v]["U"].far = "closed"
    /\ pipe[v]["U"].far = "none" => pipe[v]["U"].near = "none"

\* The inductive invariant: the types, and in an orderly setup the order of every
\* connection.
DataInv == ProxyTypes /\ (Orderly => \A v \in Visitor : InOrder(v))

-----------------------------------------------------------------------------

\* Nothing of connection u changes.
SameConn(u) == /\ h'[u] = h[u] /\ pipe'[u] = pipe[u] /\ cp'[u] = cp[u] /\ npc'[u] = npc[u] /\ user'[u] = user[u] /\ tgt'[u] = tgt[u]

\* What other connections do does not matter to a connection.
LEMMA SameInOrder == ASSUME NEW u \in Visitor, InOrder(u), setup' = setup, SameConn(u) PROVE InOrder(u)'
<1> USE DEF SameConn
<1>1. Unlinked(u) => Unlinked(u)'
  BY Zenon DEF Unlinked, NoneYet
<1>2. AtTargetEnd(u) => AtTargetEnd(u)'
  BY Zenon DEF AtTargetEnd, NoneYet
<1>3. AtNpcEnd(u) => AtNpcEnd(u)'
  BY Zenon DEF AtNpcEnd, TargetRead
<1>4. AtNpsEnd(u) => AtNpsEnd(u)'
  BY Zenon DEF AtNpsEnd, LinkRead
<1>5. NothingLost(u) => NothingLost(u)'
  BY Zenon DEF NothingLost, InHand
<1> QED
  BY <1>1, <1>2, <1>3, <1>4, <1>5, Zenon DEF InOrder, Linked

\* The types of what a connection consists of.
PipeTyped(v) ==
    \A p \in Pipe : /\ pipe[v][p].near \in PipeEnd /\ pipe[v][p].far \in PipeEnd
                    /\ pipe[v][p].fwd \in Nat /\ pipe[v][p].bwd \in Nat

ConnTyped(v) ==
    /\ PipeTyped(v)
    /\ user[v].sent \in Nat /\ user[v].got \in Nat /\ tgt[v].sent \in Nat /\ tgt[v].got \in Nat
    /\ setup.req \in Nat /\ setup.resp \in Nat

\* A connection is well typed.
LEMMA Typed == ASSUME ProxyTypes, NEW v \in Visitor PROVE ConnTyped(v)
<1>1. setup.req \in Nat /\ setup.resp \in Nat
  BY SetupTypes, Zenon DEF ProxyTypes, SetupType
<1>2. PipeTyped(v)
  BY DEF ProxyTypes, PipeTyped, PipeType
<1>3. user[v].sent \in Nat /\ user[v].got \in Nat /\ tgt[v].sent \in Nat /\ tgt[v].got \in Nat
  BY Zenon DEF ProxyTypes, UserType
<1> QED
  BY <1>1, <1>2, <1>3, Zenon DEF ConnTyped

\* CloseEnd, part by part.
ClosedFar(p, q) == /\ q.near = p.near /\ q.bwd = p.bwd
                   /\ p.far = "open" => q.far = "closed" /\ q.fwd = 0
                   /\ p.far # "open" => q.far = p.far /\ q.fwd = p.fwd
ClosedNear(p, q) == /\ q.far = p.far /\ q.fwd = p.fwd
                    /\ p.near = "open" => q.near = "closed" /\ q.bwd = 0
                    /\ p.near # "open" => q.near = p.near /\ q.bwd = p.bwd

\* CloseEnd does what ClosedFar and ClosedNear say.
LEMMA ClosedEnds == ASSUME NEW p \in PipeType PROVE ClosedFar(p, CloseEnd(p, "far")) /\ ClosedNear(p, CloseEnd(p, "near"))
  BY Zenon DEF ClosedFar, ClosedNear, CloseEnd, PipeType, To

\* A close of both ends at nps, and at npc.
LEMMA ClosedAtNps ==
    ASSUME ProxyTypes, NEW v \in Visitor, pipe' = [pipe EXCEPT ![v] = CloseBoth(@, "nps")]
    PROVE  /\ ClosedFar(pipe[v]["U"], pipe'[v]["U"]) /\ ClosedNear(pipe[v]["L"], pipe'[v]["L"]) /\ pipe'[v]["T"] = pipe[v]["T"]
           /\ \A u \in Visitor \ {v} : pipe'[u] = pipe[u]
<1>1. pipe[v] \in [Pipe -> PipeType]
  BY Zenon DEF ProxyTypes
<1>2. CloseBoth(pipe[v], "nps") = [pipe[v] EXCEPT !["U"] = CloseEnd(pipe[v]["U"], "far"), !["L"] = CloseEnd(pipe[v]["L"], "near")]
  BY <1>1, ClosesAt, Zenon
<1>3. pipe'[v] = CloseBoth(pipe[v], "nps") /\ \A u \in Visitor \ {v} : pipe'[u] = pipe[u]
  BY Zenon DEF ProxyTypes
<1>4. pipe'[v]["U"] = CloseEnd(pipe[v]["U"], "far") /\ pipe'[v]["L"] = CloseEnd(pipe[v]["L"], "near") /\ pipe'[v]["T"] = pipe[v]["T"]
  BY <1>1, <1>2, <1>3, Zenon DEF Pipe
<1> QED
  BY <1>1, <1>3, <1>4, ClosedEnds, Zenon DEF Pipe

LEMMA ClosedAtNpc ==
    ASSUME ProxyTypes, NEW v \in Visitor, pipe' = [pipe EXCEPT ![v] = CloseBoth(@, "npc")]
    PROVE  /\ pipe'[v]["U"] = pipe[v]["U"] /\ ClosedFar(pipe[v]["L"], pipe'[v]["L"]) /\ ClosedNear(pipe[v]["T"], pipe'[v]["T"])
           /\ \A u \in Visitor \ {v} : pipe'[u] = pipe[u]
<1>1. pipe[v] \in [Pipe -> PipeType]
  BY Zenon DEF ProxyTypes
<1>2. CloseBoth(pipe[v], "npc") = [pipe[v] EXCEPT !["L"] = CloseEnd(pipe[v]["L"], "far"), !["T"] = CloseEnd(pipe[v]["T"], "near")]
  BY <1>1, ClosesAt, Zenon
<1>3. pipe'[v] = CloseBoth(pipe[v], "npc") /\ \A u \in Visitor \ {v} : pipe'[u] = pipe[u]
  BY Zenon DEF ProxyTypes
<1>4. pipe'[v]["L"] = CloseEnd(pipe[v]["L"], "far") /\ pipe'[v]["T"] = CloseEnd(pipe[v]["T"], "near") /\ pipe'[v]["U"] = pipe[v]["U"]
  BY <1>1, <1>2, <1>3, Zenon DEF Pipe
<1> QED
  BY <1>1, <1>3, <1>4, ClosedEnds, Zenon DEF Pipe

\* An assignment to one pipe leaves the others.
LEMMA OnePipe ==
    ASSUME ProxyTypes, NEW v \in Visitor, NEW p \in Pipe, NEW x, pipe' = [pipe EXCEPT ![v][p] = x]
    PROVE  /\ pipe'[v][p] = x /\ \A q \in Pipe \ {p} : pipe'[v][q] = pipe[v][q]
           /\ \A u \in Visitor \ {v} : pipe'[u] = pipe[u]
  BY Zenon DEF ProxyTypes

\* A chunk more or less on its way.
LEMMA OneChunk ==
    ASSUME ProxyTypes, NEW v \in Visitor, NEW p \in Pipe, NEW d \in Dir, NEW k, pipe' = [pipe EXCEPT ![v][p][d] = k]
    PROVE  /\ pipe'[v][p][d] = k /\ pipe'[v][p][Other(d)] = pipe[v][p][Other(d)]
           /\ pipe'[v][p].near = pipe[v][p].near /\ pipe'[v][p].far = pipe[v][p].far
           /\ \A q \in Pipe \ {p} : pipe'[v][q] = pipe[v][q]
           /\ \A u \in Visitor \ {v} : pipe'[u] = pipe[u]
<1> DEFINE x == [pipe[v][p] EXCEPT ![d] = k]
<1>1. pipe[v][p] \in PipeType
  BY DEF ProxyTypes
<1>2. x[d] = k /\ x[Other(d)] = pipe[v][p][Other(d)] /\ x.near = pipe[v][p].near /\ x.far = pipe[v][p].far
  BY <1>1, Zenon DEF PipeType, Dir, Other
<1>3. pipe' = [pipe EXCEPT ![v][p] = x]
  BY Zenon
<1> HIDE DEF x
<1>4. pipe'[v][p] = x /\ \A q \in Pipe \ {p} : pipe'[v][q] = pipe[v][q]
  BY <1>3 DEF ProxyTypes
<1>5. \A u \in Visitor \ {v} : pipe'[u] = pipe[u]
  BY <1>3, Zenon DEF ProxyTypes
<1> QED
  BY <1>2, <1>4, <1>5, Zenon

-----------------------------------------------------------------------------
(* The handler at nps *)

\* What a step of connection v starts from.
Pre(v) == ProxyTypes /\ Orderly /\ InOrder(v)

\* A handler that has not dealt with npc has no link.
LEMMA BeforeLink == ASSUME NEW v \in Visitor, InOrder(v), h[v] \in {"idle"} \cup NotLinkedYet PROVE npc[v] = "none" /\ Unlinked(v)
  BY Zenon DEF InOrder, Linked, AtNpsEnd, NotLinkedYet

\* A handler that moves without a link stays in order.
LEMMA StaysUnlinked ==
    ASSUME NEW v \in Visitor, InOrder(v), setup' = setup, h[v] \in NotLinkedYet, h'[v] \in NotLinkedYet,
           pipe'[v] = pipe[v], cp'[v] = cp[v], npc'[v] = npc[v], tgt'[v] = tgt[v], user'[v].sent = user[v].sent, user'[v].got = user[v].got
    PROVE  InOrder(v)'
<1>1. npc[v] = "none" /\ Unlinked(v)
  BY BeforeLink, Zenon
<1>2. Unlinked(v)'
  BY <1>1, Zenon DEF Unlinked, NotLinkedYet, NoneYet
<1> QED
  BY <1>1, <1>2, Zenon DEF InOrder

\* A connection that ends before it has a link is closed at nps only.
LEMMA Refused ==
    ASSUME NEW v \in Visitor, InOrder(v), setup' = setup, h[v] \in NotLinkedYet, h'[v] \in {"gone", "defer"},
           ClosedFar(pipe[v]["U"], pipe'[v]["U"]), pipe'[v]["T"] = pipe[v]["T"],
           pipe'[v]["L"] = pipe[v]["L"] \/ ClosedNear(pipe[v]["L"], pipe'[v]["L"]),
           cp'[v] = cp[v], npc'[v] = npc[v], tgt'[v] = tgt[v], user'[v].sent = user[v].sent, user'[v].got = user[v].got
    PROVE  InOrder(v)'
<1>1. npc[v] = "none" /\ Unlinked(v)
  BY BeforeLink, Zenon
<1>2. NoneYet(pipe[v]["L"])'
  BY <1>1, Zenon DEF Unlinked, NoneYet, ClosedNear
<1>3. Unlinked(v)'
  BY <1>1, <1>2, Zenon DEF Unlinked, NotLinkedYet, NoneYet, ClosedFar
<1>4. pipe'[v]["U"].far = "closed"
  BY <1>1, Zenon DEF Unlinked, ClosedFar
<1> QED
  BY <1>1, <1>3, <1>4, Zenon DEF InOrder

\* The steps of the handler up to the link keep the order.
LEMMA AcceptInOrder == ASSUME NEW v \in Visitor, Pre(v), Accept(v) PROVE InOrder(v)'
<1>1. h[v] = "idle" /\ h'[v] \in {"secret", "handle"} /\ pipe'[v]["U"] = NewPipe /\ pipe'[v]["L"] = pipe[v]["L"] /\ pipe'[v]["T"] = pipe[v]["T"]
      /\ UNCHANGED <<setup, cp, npc, tgt>>
  BY OnePipe DEF Accept, Pre, ProxyTypes, Goto, Pipe
<1>2. user'[v].sent = user[v].sent /\ user'[v].got = user[v].got
  BY DEF Accept, Pre, ProxyTypes
<1>3. npc[v] = "none" /\ Unlinked(v)
  BY <1>1, BeforeLink, Zenon DEF Pre
<1>4. pipe'[v]["U"].near = "open" /\ pipe'[v]["U"].far = "open" /\ pipe'[v]["U"].fwd = 0 /\ pipe'[v]["U"].bwd = 0
  BY <1>1 DEF NewPipe
<1>5. Unlinked(v)'
  BY <1>1, <1>2, <1>3, <1>4, Zenon DEF Unlinked, NotLinkedYet, NoneYet
<1> QED
  BY <1>1, <1>2, <1>3, <1>4, <1>5, Zenon DEF InOrder, Pre

LEMMA MovesInOrder == ASSUME NEW v \in Visitor, Pre(v), handleConn(v) \/ HandleSecret(v) \/ AddConn(v) PROVE InOrder(v)'
<1>1. h[v] \in NotLinkedYet /\ h'[v] \in NotLinkedYet /\ UNCHANGED <<setup, pipe, cp, npc, tgt, user>>
  BY Zenon DEF handleConn, HandleSecret, AddConn, Goto, Pre, ProxyTypes, NotLinkedYet
<1> QED
  BY <1>1, StaysUnlinked, Zenon DEF Pre

LEMMA CheckInOrder == ASSUME NEW v \in Visitor, Pre(v), CheckFlowAndConnNum(v) PROVE InOrder(v)'
<1>0. h[v] \in NotLinkedYet /\ UNCHANGED <<setup, cp, npc, tgt, user>>
  BY Zenon DEF CheckFlowAndConnNum, NotLinkedYet
<1>1. CASE Goto(v, "add") /\ UNCHANGED pipe
  <2>1. h'[v] \in NotLinkedYet
    BY <1>1, Zenon DEF Goto, Pre, ProxyTypes, NotLinkedYet
  <2> QED
    BY <1>0, <1>1, <2>1, StaysUnlinked, Zenon DEF Pre
<1>2. CASE Goto(v, "gone") /\ pipe' = [pipe EXCEPT ![v]["U"] = CloseEnd(@, "far")]
  <2>1. h'[v] = "gone"
    BY <1>2, Zenon DEF Goto, Pre, ProxyTypes
  <2>2. pipe'[v]["U"] = CloseEnd(pipe[v]["U"], "far") /\ pipe'[v]["L"] = pipe[v]["L"] /\ pipe'[v]["T"] = pipe[v]["T"]
    BY <1>2 DEF Pre, ProxyTypes, Pipe
  <2>3. pipe[v]["U"] \in PipeType
    BY DEF Pre, ProxyTypes, Pipe
  <2> QED
    BY <1>0, <2>1, <2>2, <2>3, ClosedEnds, Refused, Zenon DEF Pre
<1> QED
  BY <1>1, <1>2, Zenon DEF CheckFlowAndConnNum

\* A handler that gives up before it has a link.
LEMMA ReturnInOrder ==
    ASSUME NEW v \in Visitor, Pre(v), h[v] \in NotLinkedYet, Return(v), UNCHANGED <<setup, cp, npc, tgt>>,
           user'[v].sent = user[v].sent, user'[v].got = user[v].got
    PROVE  InOrder(v)'
<1>1. h'[v] = "defer" /\ pipe' = [pipe EXCEPT ![v] = CloseBoth(@, "nps")]
  BY Zenon DEF Return, Goto, Pre, ProxyTypes
<1> QED
  BY <1>1, ClosedAtNps, Refused, Zenon DEF Pre

\* An answer to the user is no data.
LEMMA ToldKeeps == ASSUME ProxyTypes, NEW v \in Visitor, NEW t, user' = [user EXCEPT ![v].told = t]
                   PROVE  user'[v].sent = user[v].sent /\ user'[v].got = user[v].got
<1>1. user[v] \in UserType
  BY Zenon DEF ProxyTypes
<1> DEFINE x == [user[v] EXCEPT !.told = t]
<1>2. x.sent = user[v].sent /\ x.got = user[v].got
  BY <1>1, Zenon DEF UserType
<1>3. user'[v] = x
  BY Zenon DEF ProxyTypes
<1> QED
  BY <1>2, <1>3, Zenon

LEMMA ProcessInOrder == ASSUME NEW v \in Visitor, Pre(v), ProcessTunnel(v) \/ ProcessMix(v) PROVE InOrder(v)'
<1>0. h[v] \in NotLinkedYet /\ UNCHANGED <<setup, cp, npc, tgt>>
  BY Zenon DEF ProcessTunnel, ProcessMix, NotLinkedYet
<1>4. user' = user \/ \E t : user' = [user EXCEPT ![v].told = t]
  BY Zenon DEF ProcessTunnel, ProcessMix
<1>1. user'[v].sent = user[v].sent /\ user'[v].got = user[v].got
  BY <1>4, ToldKeeps, Zenon DEF Pre
<1>2. CASE Goto(v, "deal") /\ UNCHANGED pipe
  <2>1. h'[v] \in NotLinkedYet
    BY <1>2, Zenon DEF Goto, Pre, ProxyTypes, NotLinkedYet
  <2> QED
    BY <1>0, <1>1, <1>2, <2>1, StaysUnlinked, Zenon DEF Pre
<1>3. CASE Return(v)
  BY <1>0, <1>1, <1>3, ReturnInOrder, Zenon
<1> QED
  BY <1>2, <1>3, Zenon DEF ProcessTunnel, ProcessMix

\* A new link is empty and open at both ends.
LEMMA LinkMade ==
    ASSUME NEW v \in Visitor, Pre(v), h[v] = "deal", Goto(v, "invoke"), npc' = [npc EXCEPT ![v] = "info"],
           pipe' = [pipe EXCEPT ![v]["L"] = NewPipe], UNCHANGED <<setup, cp, tgt>>,
           user'[v].sent = user[v].sent, user'[v].got = user[v].got
    PROVE  InOrder(v)'
<1>1. /\ h'[v] = "invoke" /\ npc'[v] = "info" /\ pipe'[v]["L"] = NewPipe /\ pipe'[v]["U"] = pipe[v]["U"] /\ pipe'[v]["T"] = pipe[v]["T"]
  BY DEF Pre, ProxyTypes, Goto, Pipe
<1>2. pipe'[v]["L"].near = "open" /\ pipe'[v]["L"].far = "open" /\ pipe'[v]["L"].fwd = 0 /\ pipe'[v]["L"].bwd = 0
  BY <1>1 DEF NewPipe
<1>3. npc[v] = "none" /\ Unlinked(v)
  BY BeforeLink, Zenon DEF Pre, NotLinkedYet
<1>4. /\ pipe[v]["U"].near = "open" /\ pipe[v]["U"].far = "open" /\ pipe[v]["U"].bwd = 0 /\ user[v].sent = pipe[v]["U"].fwd
      /\ NoneYet(pipe[v]["T"]) /\ tgt[v].got = 0 /\ tgt[v].sent = 0 /\ user[v].got = 0
      /\ \A d \in Dir : cp[v]["npc"][d].pc = "idle" /\ cp[v]["nps"][d].pc = "idle"
  BY <1>3, Zenon DEF Unlinked, NotLinkedYet
<1>5. AtTargetEnd(v)'
  BY <1>1, <1>2, <1>4, Zenon DEF AtTargetEnd, NoneYet
<1>6. AtNpcEnd(v)'
  BY <1>1, <1>2, <1>4, Zenon DEF AtNpcEnd, Dir
<1>7. AtNpsEnd(v)'
  BY <1>1, <1>2, <1>4, Zenon DEF AtNpsEnd, Dir
<1>8. NothingLost(v)'
  <2>1. user[v].sent \in Nat
    BY Zenon DEF Pre, ProxyTypes, UserType
  <2>2. InHand(v, "nps", "fwd")' = 0 /\ InHand(v, "nps", "bwd")' = 0 /\ InHand(v, "npc", "fwd")' = 0 /\ InHand(v, "npc", "bwd")' = 0
    BY <1>4, Zenon DEF InHand, Dir
  <2> QED
    BY <1>1, <1>2, <1>4, <2>1, <2>2 DEF NothingLost, NoneYet
<1> QED
  BY <1>1, <1>4, <1>5, <1>6, <1>7, <1>8, Zenon DEF InOrder, Linked, Pre

\* SendLinkInfo keeps the order, in secret mode too.
LEMMA DealInOrder == ASSUME NEW v \in Visitor, Pre(v), DealClient(v) \/ SecretLink(v) PROVE InOrder(v)'
<1>0. h[v] = "deal" /\ UNCHANGED <<setup, cp, tgt>> /\ ~setup.refuse
  BY Zenon DEF DealClient, SecretLink, Pre, Orderly
<1>1. npc[v] = "none" /\ Unlinked(v)
  BY <1>0, BeforeLink, Zenon DEF Pre, NotLinkedYet
<1>2. ~WriteFails(pipe[v]["U"], "far")
  BY <1>0, <1>1, Zenon DEF Unlinked, NotLinkedYet, WriteFails, Peer
<1>3. /\ npc' = [npc EXCEPT ![v] = "info"]
      /\ pipe' = [pipe EXCEPT ![v]["L"] = NewPipe]
      /\ Goto(v, "invoke")
      /\ \E t : user' = [user EXCEPT ![v].told = t]
  BY <1>0, <1>2, Zenon DEF DealClient, SecretLink
<1>4. user'[v].sent = user[v].sent /\ user'[v].got = user[v].got
  BY <1>3, ToldKeeps, Zenon DEF Pre
<1> QED
  BY <1>0, <1>3, <1>4, LinkMade, ZenonT(30)

\* From here on the connection is linked.
LEMMA IsLinked == ASSUME NEW v \in Visitor, InOrder(v), npc[v] # "none" \/ h[v] \in {"invoke", "copy"} PROVE npc[v] # "none" /\ Linked(v)
  BY Zenon DEF InOrder, Unlinked

\* The handler hands its connection to the copies, and ends after them.
LEMMA InvokeInOrder == ASSUME NEW v \in Visitor, Pre(v), Invoke(v) PROVE InOrder(v)'
<1>1. /\ h[v] = "invoke" /\ h'[v] = "copy" /\ UNCHANGED <<setup, pipe, npc, user, tgt>> /\ cp' = [cp EXCEPT ![v]["nps"] = Queued]
  BY Zenon DEF Invoke, Goto, Pre, ProxyTypes
<1>2. cp'[v]["nps"] = Queued /\ cp'[v]["npc"] = cp[v]["npc"]
  BY <1>1, AtJoint, Zenon DEF Pre, Joint
<1>3. \A d \in Dir : cp'[v]["nps"][d].pc = "queued"
  BY <1>2, ReadyIs, Zenon
<1>4. npc[v] # "none" /\ Linked(v)
  BY <1>1, IsLinked, Zenon DEF Pre
<1>5. AtTargetEnd(v)'
  BY <1>1, <1>4, Zenon DEF AtTargetEnd, NoneYet, Linked
<1>6. AtNpcEnd(v)'
  BY <1>1, <1>2, <1>4, Zenon DEF AtNpcEnd, Linked, TargetRead
<1>7. AtNpsEnd(v)'
  BY <1>1, <1>3, <1>4, Zenon DEF AtNpsEnd, Dir, Linked, LinkRead
<1>8. NothingLost(v)'
  <2>1. \A d \in Dir : cp[v]["nps"][d].pc = "idle"
    BY <1>1, <1>4, Zenon DEF Linked, AtNpsEnd
  <2>2. \A d \in Dir : InHand(v, "nps", d)' = InHand(v, "nps", d) /\ InHand(v, "npc", d)' = InHand(v, "npc", d)
    BY <1>2, <1>3, <2>1, Zenon DEF InHand
  <2> QED
    BY <1>1, <1>4, <2>2, Zenon DEF NothingLost, Linked, Dir
<1> QED
  BY <1>1, <1>4, <1>5, <1>6, <1>7, <1>8, Zenon DEF InOrder, Linked, Pre

LEMMA copyConnsInOrder == ASSUME NEW v \in Visitor, Pre(v), copyConns(v) PROVE InOrder(v)'
<1>1. /\ h[v] = "copy" /\ h'[v] = "defer" /\ UNCHANGED <<setup, npc, user, tgt>> /\ cp' = [cp EXCEPT ![v]["nps"] = [d \in Dir |-> Ready]]
      /\ pipe' = [pipe EXCEPT ![v] = CloseBoth(@, "nps")] /\ \A d \in Dir : cp[v]["nps"][d].pc = "done"
  BY Zenon DEF copyConns, Return, Goto, Pre, ProxyTypes
<1>2. cp'[v]["nps"] = [d \in Dir |-> Ready] /\ cp'[v]["npc"] = cp[v]["npc"]
  BY <1>1, AtJoint, ZenonT(30) DEF Pre, Joint
<1>3. \A d \in Dir : cp'[v]["nps"][d].pc = "idle"
  BY <1>2, ReadyIs, Zenon
<1>4. npc[v] # "none" /\ Linked(v)
  BY <1>1, IsLinked, Zenon DEF Pre
<1>5. pipe[v]["U"].far = "closed" /\ pipe[v]["L"].near = "closed" /\ LinkRead(v)
  BY <1>1, <1>4, Zenon DEF Linked, AtNpsEnd, Dir
<1>6. /\ pipe'[v]["U"].near = pipe[v]["U"].near /\ pipe'[v]["U"].far = pipe[v]["U"].far /\ pipe'[v]["U"].fwd = pipe[v]["U"].fwd /\ pipe'[v]["U"].bwd = pipe[v]["U"].bwd
      /\ pipe'[v]["L"].near = pipe[v]["L"].near /\ pipe'[v]["L"].far = pipe[v]["L"].far /\ pipe'[v]["L"].fwd = pipe[v]["L"].fwd /\ pipe'[v]["L"].bwd = pipe[v]["L"].bwd
      /\ pipe'[v]["T"] = pipe[v]["T"]
  <2>1. ClosedFar(pipe[v]["U"], pipe'[v]["U"]) /\ ClosedNear(pipe[v]["L"], pipe'[v]["L"]) /\ pipe'[v]["T"] = pipe[v]["T"]
    BY <1>1, ClosedAtNps, Zenon DEF Pre
  <2> QED
    BY <1>5, <2>1, Zenon DEF ClosedFar, ClosedNear
<1>7. AtTargetEnd(v)'
  BY <1>1, <1>4, <1>6, Zenon DEF AtTargetEnd, NoneYet, Linked
<1>8. AtNpcEnd(v)'
  BY <1>1, <1>2, <1>4, <1>6 DEF AtNpcEnd, Linked, TargetRead
<1>9. AtNpsEnd(v)'
  BY <1>1, <1>3, <1>4, <1>5, <1>6, Zenon DEF AtNpsEnd, Dir, Linked, LinkRead
<1>10. NothingLost(v)'
  <2>2. \A d \in Dir : InHand(v, "nps", d)' = InHand(v, "nps", d) /\ InHand(v, "npc", d)' = InHand(v, "npc", d)
    BY <1>1, <1>2, <1>3, Zenon DEF InHand
  <2> QED
    BY <1>1, <1>4, <1>6, <2>2, Zenon DEF NothingLost, Linked, Dir
<1> QED
  BY <1>1, <1>4, <1>6, <1>7, <1>8, <1>9, <1>10, Zenon DEF InOrder, Linked, Pre

LEMMA EndInOrder == ASSUME NEW v \in Visitor, Pre(v), CutConn(v) \/ Deleted(v) PROVE InOrder(v)'
<1>1. h[v] \in {"defer", "gone"} /\ h'[v] \in {"gone", "done"} /\ UNCHANGED <<setup, pipe, cp, npc, user, tgt>>
  BY Zenon DEF CutConn, Deleted, Goto, Pre, ProxyTypes
<1>2. Unlinked(v) => Unlinked(v)'
  BY <1>1, Zenon DEF Unlinked, NoneYet, NotLinkedYet
<1>3. Linked(v) => AtTargetEnd(v)' /\ AtNpcEnd(v)'
  BY <1>1, Zenon DEF Linked, AtTargetEnd, AtNpcEnd, NoneYet, TargetRead
<1>4. Linked(v) => AtNpsEnd(v)'
  BY <1>1, Zenon DEF Linked, AtNpsEnd, LinkRead
<1>5. Linked(v) => NothingLost(v)'
  BY <1>1, Zenon DEF Linked, NothingLost, InHand
<1> QED
  BY <1>1, <1>2, <1>3, <1>4, <1>5, Zenon DEF InOrder, Linked, Pre

-----------------------------------------------------------------------------
(* npc, and a copy that moves no chunk *)

\* The steps of npc keep the order.
LEMMA handleChanInOrder == ASSUME NEW v \in Visitor, Pre(v), handleChan(v) PROVE InOrder(v)'
<1>1. /\ npc[v] = "info" /\ npc'[v] = "invoke" /\ UNCHANGED <<setup, h, cp, user, tgt>> /\ pipe' = [pipe EXCEPT ![v]["T"] = NewPipe]
  BY Zenon DEF handleChan, Pre, Orderly, ProxyTypes
<1>2. pipe'[v]["T"] = NewPipe /\ pipe'[v]["U"] = pipe[v]["U"] /\ pipe'[v]["L"] = pipe[v]["L"]
  BY <1>1, OnePipe, Zenon DEF Pre, Pipe
<1>3. pipe'[v]["T"].near = "open" /\ pipe'[v]["T"].far = "open" /\ pipe'[v]["T"].fwd = 0 /\ pipe'[v]["T"].bwd = 0
  BY <1>2 DEF NewPipe
<1>4. npc[v] # "none" /\ Linked(v)
  BY <1>1, IsLinked, Zenon DEF Pre
<1>5. NoneYet(pipe[v]["T"]) /\ pipe[v]["L"].far = "open"
  BY <1>1, <1>4, Zenon DEF Linked, AtTargetEnd
<1>6. AtTargetEnd(v)'
  BY <1>1, <1>2, <1>3, <1>5, Zenon DEF AtTargetEnd
<1>7. AtNpcEnd(v)'
  BY <1>1, <1>2, <1>3, <1>4, <1>5, Zenon DEF AtNpcEnd, Linked, TargetRead, Dir
<1>8. AtNpsEnd(v)'
  BY <1>1, <1>2, <1>4, Zenon DEF AtNpsEnd, Linked, LinkRead
<1>9. NothingLost(v)'
  BY <1>1, <1>2, <1>3, <1>4, <1>5 DEF NothingLost, NoneYet, Linked, InHand
<1> QED
  BY <1>1, <1>2, <1>4, <1>6, <1>7, <1>8, <1>9, Zenon DEF InOrder, Linked, Pre

LEMMA InvokeAtNpcInOrder == ASSUME NEW v \in Visitor, Pre(v), InvokeAtNpc(v) PROVE InOrder(v)'
<1>1. npc[v] = "invoke" /\ npc'[v] = "copy" /\ UNCHANGED <<setup, h, pipe, user, tgt>> /\ cp' = [cp EXCEPT ![v]["npc"] = Queued]
  BY Zenon DEF InvokeAtNpc, Pre, ProxyTypes
<1>2. cp'[v]["npc"] = Queued /\ cp'[v]["nps"] = cp[v]["nps"]
  BY <1>1, AtJoint, Zenon DEF Pre, Joint
<1>3. \A d \in Dir : cp'[v]["npc"][d].pc = "queued"
  BY <1>2, ReadyIs, Zenon
<1>4. npc[v] # "none" /\ Linked(v)
  BY <1>1, IsLinked, Zenon DEF Pre
<1>5. AtTargetEnd(v)'
  BY <1>1, <1>4, Zenon DEF AtTargetEnd, Linked
<1>6. AtNpcEnd(v)'
  BY <1>1, <1>3, <1>4, Zenon DEF AtNpcEnd, Linked, TargetRead, Dir
<1>7. AtNpsEnd(v)'
  BY <1>1, <1>2, <1>4, Zenon DEF AtNpsEnd, Linked, LinkRead
<1>8. NothingLost(v)'
  <2>1. \A d \in Dir : cp[v]["npc"][d].pc = "idle"
    BY <1>1, <1>4, Zenon DEF Linked, AtNpcEnd
  <2>2. \A d \in Dir : InHand(v, "nps", d)' = InHand(v, "nps", d) /\ InHand(v, "npc", d)' = InHand(v, "npc", d)
    BY <1>2, <1>3, <2>1, Zenon DEF InHand
  <2> QED
    BY <1>1, <1>4, <2>2, Zenon DEF NothingLost, Linked, Dir
<1> QED
  BY <1>1, <1>4, <1>5, <1>6, <1>7, <1>8, Zenon DEF InOrder, Linked, Pre

LEMMA CopyWaitGroupInOrder == ASSUME NEW v \in Visitor, Pre(v), CopyWaitGroup(v) PROVE InOrder(v)'
<1>1. /\ npc[v] = "copy" /\ npc'[v] = "done" /\ UNCHANGED <<setup, h, user, tgt>> /\ cp' = [cp EXCEPT ![v]["npc"] = [d \in Dir |-> Ready]]
      /\ pipe' = [pipe EXCEPT ![v] = CloseBoth(@, "npc")] /\ \A d \in Dir : cp[v]["npc"][d].pc = "done"
  BY Zenon DEF CopyWaitGroup, Pre, ProxyTypes
<1>2. cp'[v]["npc"] = [d \in Dir |-> Ready] /\ cp'[v]["nps"] = cp[v]["nps"]
  BY <1>1, AtJoint, Zenon DEF Pre, Joint
<1>3. \A d \in Dir : cp'[v]["npc"][d].pc = "idle"
  BY <1>2, ReadyIs, Zenon
<1>4. npc[v] # "none" /\ Linked(v)
  BY <1>1, IsLinked, Zenon DEF Pre
<1>5. pipe[v]["L"].far = "closed" /\ pipe[v]["T"].near = "closed" /\ TargetRead(v)
  BY <1>1, <1>4, Zenon DEF Linked, AtNpcEnd, AtTargetEnd, Dir
<1>6. /\ pipe'[v]["L"].near = pipe[v]["L"].near /\ pipe'[v]["L"].far = pipe[v]["L"].far /\ pipe'[v]["L"].fwd = pipe[v]["L"].fwd /\ pipe'[v]["L"].bwd = pipe[v]["L"].bwd
      /\ pipe'[v]["T"].near = pipe[v]["T"].near /\ pipe'[v]["T"].far = pipe[v]["T"].far /\ pipe'[v]["T"].fwd = pipe[v]["T"].fwd /\ pipe'[v]["T"].bwd = pipe[v]["T"].bwd
      /\ pipe'[v]["U"] = pipe[v]["U"]
  <2>1. ClosedFar(pipe[v]["L"], pipe'[v]["L"]) /\ ClosedNear(pipe[v]["T"], pipe'[v]["T"]) /\ pipe'[v]["U"] = pipe[v]["U"]
    BY <1>1, ClosedAtNpc, Zenon DEF Pre
  <2> QED
    BY <1>5, <2>1, Zenon DEF ClosedFar, ClosedNear
<1>7. AtTargetEnd(v)'
  BY <1>1, <1>4, <1>5, <1>6, Zenon DEF AtTargetEnd, Linked
<1>8. AtNpcEnd(v)'
  BY <1>1, <1>3, <1>4, <1>5, <1>6, Zenon DEF AtNpcEnd, Linked, TargetRead, Dir
<1>9. AtNpsEnd(v)'
  BY <1>1, <1>2, <1>4, <1>6 DEF AtNpsEnd, Linked, LinkRead
<1>10. NothingLost(v)'
  <2>2. \A d \in Dir : InHand(v, "nps", d)' = InHand(v, "nps", d) /\ InHand(v, "npc", d)' = InHand(v, "npc", d)
    BY <1>1, <1>2, <1>3, Zenon DEF InHand
  <2> QED
    BY <1>1, <1>4, <1>6, <2>2, Zenon DEF NothingLost, Linked, Dir
<1> QED
  BY <1>1, <1>4, <1>6, <1>7, <1>8, <1>9, <1>10, Zenon DEF InOrder, Linked, Pre

-----------------------------------------------------------------------------
(* CopyBuffer.                                                             *)

\* A copy of v goes on to l; the handler, npc, the user and the target stand still.
CopyGoes(v, j, d, l) ==
    /\ setup' = setup /\ h'[v] = h[v] /\ npc'[v] = npc[v] /\ user'[v] = user[v] /\ tgt'[v] = tgt[v]
    /\ cp'[v][j][d].pc = l
    /\ \A k \in Joint, e \in Dir : k # j \/ e # d => cp'[v][k][e] = cp[v][k][e]

\* The pipes of S are as before.
SamePipes(v, S) == \A p \in S : /\ pipe'[v][p].near = pipe[v][p].near /\ pipe'[v][p].far = pipe[v][p].far
                                /\ pipe'[v][p].fwd = pipe[v][p].fwd /\ pipe'[v][p].bwd = pipe[v][p].bwd

\* A copy that runs belongs to a connection with a link.
LEMMA CopyIsLinked == ASSUME NEW v \in Visitor, Pre(v), NEW j \in Joint, NEW d \in Dir, cp[v][j][d].pc # "idle"
                      PROVE  npc[v] # "none" /\ Linked(v) /\ (j = "npc" => npc[v] = "copy") /\ (j = "nps" => h[v] = "copy")
<1>1. npc[v] # "none" /\ Linked(v)
  BY Zenon DEF Pre, InOrder, Unlinked, Joint
<1> QED
  BY <1>1, Zenon DEF Linked, AtNpcEnd, AtNpsEnd

\* A chunk that moves within a copy, or not at all: l is a place where the copy has none in hand.
LEMMA CopyGoesOn ==
    ASSUME NEW v \in Visitor, Pre(v), NEW j \in Joint, NEW d \in Dir, NEW l, CopyGoes(v, j, d, l), SamePipes(v, Pipe),
           cp[v][j][d].pc \notin {"idle", "write"}, l \in {"read", "client", "close"},
           cp'[v][j][d].eof = cp[v][j][d].eof,
           l = "client" => j = "nps" /\ cp[v][j][d].pc = "task",
           l = "close" => \/ d = "bwd" /\ j = "nps" /\ LinkRead(v)
                          \/ d = "bwd" /\ j = "npc" /\ TargetRead(v)
                          \/ d = "fwd" /\ j = "nps" /\ pipe[v]["U"].far = "closed"
                          \/ d = "fwd" /\ j = "npc" /\ pipe[v]["L"].far = "closed"
    PROVE  InOrder(v)'
<1>1. npc[v] # "none" /\ Linked(v) /\ (j = "npc" => npc[v] = "copy") /\ (j = "nps" => h[v] = "copy")
  BY CopyIsLinked, Zenon
<1>2. \A k \in Joint, e \in Dir : cp'[v][k][e].pc = cp[v][k][e].pc \/ (k = j /\ e = d /\ cp'[v][k][e].pc = l)
  BY Zenon DEF CopyGoes
<1>3. \A k \in Joint, e \in Dir : cp'[v][k][e].eof = cp[v][k][e].eof
  BY Zenon DEF CopyGoes
<1>4. AtTargetEnd(v)'
  BY <1>1, Zenon DEF AtTargetEnd, Linked, CopyGoes, SamePipes, NoneYet, Pipe
<1>5. AtNpcEnd(v)'
  <2>1. TargetRead(v)' = TargetRead(v) /\ pipe'[v]["L"].far = pipe[v]["L"].far /\ npc'[v] = npc[v]
    BY Zenon DEF SamePipes, TargetRead, Pipe, CopyGoes
  <2>2. CASE j = "nps"
    BY <1>1, <2>1, <2>2 DEF AtNpcEnd, Linked, CopyGoes, Dir, Joint
  <2>3. CASE j = "npc" /\ d = "fwd"
    BY <1>1, <1>2, <1>3, <2>1, <2>3 DEF AtNpcEnd, Linked, Dir, Joint
  <2>4. CASE j = "npc" /\ d = "bwd"
    BY <1>1, <1>2, <1>3, <2>1, <2>4 DEF AtNpcEnd, Linked, Dir, Joint
  <2> QED
    BY <2>2, <2>3, <2>4, Zenon DEF Joint, Dir
<1>6. AtNpsEnd(v)'
  <2>1. /\ LinkRead(v)' = LinkRead(v) /\ pipe'[v]["U"].far = pipe[v]["U"].far /\ pipe'[v]["U"].near = pipe[v]["U"].near
        /\ pipe'[v]["L"].near = pipe[v]["L"].near /\ h'[v] = h[v]
    BY Zenon DEF SamePipes, LinkRead, Pipe, CopyGoes
  <2>2. CASE j = "npc"
    BY <1>1, <2>1, <2>2 DEF AtNpsEnd, Linked, CopyGoes, Dir, Joint
  <2>3. CASE j = "nps" /\ d = "fwd"
    BY <1>1, <1>2, <1>3, <2>1, <2>3, ZenonT(30) DEF AtNpsEnd, Linked, Dir, Joint
  <2>4. CASE j = "nps" /\ d = "bwd"
    BY <1>1, <1>2, <1>3, <2>1, <2>4, ZenonT(30) DEF AtNpsEnd, Linked, Dir, Joint
  <2> QED
    BY <2>2, <2>3, <2>4, Zenon DEF Joint, Dir
<1>7. NothingLost(v)'
  <2>1. \A k \in Joint, e \in Dir : InHand(v, k, e)' = InHand(v, k, e)
    BY Zenon DEF CopyGoes, InHand
  <2> QED
    BY <1>1, <2>1, Zenon DEF NothingLost, Linked, CopyGoes, SamePipes, Pipe, Joint, Dir
<1> QED
  BY <1>1, <1>4, <1>5, <1>6, <1>7, Zenon DEF InOrder, Linked, CopyGoes, SamePipes, Pipe, Pre

-----------------------------------------------------------------------------
(* A copy reads *)

\* A copy that changes only its label.
LEMMA CopyToGoes == ASSUME ProxyTypes, NEW v \in Visitor, NEW j \in Joint, NEW d \in Dir, NEW l, CopyTo(v, j, d, l),
                           UNCHANGED <<setup, h, npc, user, tgt>>
                    PROVE  CopyGoes(v, j, d, l) /\ cp'[v][j][d].eof = cp[v][j][d].eof
  BY CopyToKeeps DEF CopyGoes

LEMMA UnchangedPipes == ASSUME NEW v \in Visitor, pipe' = pipe PROVE SamePipes(v, Pipe)
  BY Zenon DEF SamePipes

\* A copy that starts or counts moves no data.
LEMMA CopyStartInOrder == ASSUME NEW v \in Visitor, Pre(v), NEW j \in Joint, NEW d \in Dir, CopyStart(v, j, d) PROVE InOrder(v)'
<1>1. CopyTo(v, j, d, "read") /\ UNCHANGED <<setup, h, pipe, npc, user, tgt>> /\ cp[v][j][d].pc = "queued"
  BY Zenon DEF CopyStart
<1>2. CopyGoes(v, j, d, "read") /\ cp'[v][j][d].eof = cp[v][j][d].eof /\ SamePipes(v, Pipe)
  BY <1>1, CopyToGoes, UnchangedPipes, Zenon DEF Pre
<1> QED
  BY <1>1, <1>2, CopyGoesOn, Zenon

LEMMA CopyTaskInOrder == ASSUME NEW v \in Visitor, Pre(v), NEW d \in Dir, CopyTask(v, d) PROVE InOrder(v)'
<1>0. ~Exceeded(Counted(flow.task), setup.tlimit)
  BY DEF Exceeded, Pre, Orderly
<1>1. CopyTo(v, "nps", d, "client") /\ UNCHANGED <<setup, h, pipe, npc, user, tgt>> /\ cp[v]["nps"][d].pc = "task"
  BY <1>0, Zenon DEF CopyTask
<1>2. CopyGoes(v, "nps", d, "client") /\ cp'[v]["nps"][d].eof = cp[v]["nps"][d].eof /\ SamePipes(v, Pipe)
  BY <1>1, CopyToGoes, UnchangedPipes, Zenon DEF Pre, Joint
<1> QED
  BY <1>1, <1>2, CopyGoesOn, Zenon DEF Joint

LEMMA CopyClientInOrder == ASSUME NEW v \in Visitor, Pre(v), NEW d \in Dir, CopyClient(v, d) PROVE InOrder(v)'
<1>0. ~Exceeded(Counted(flow.client), setup.climit)
  BY DEF Exceeded, Pre, Orderly
<1>1. /\ CopyTo(v, "nps", d, IF cp[v]["nps"][d].eof THEN "close" ELSE "read")
      /\ UNCHANGED <<setup, h, pipe, npc, user, tgt>> /\ cp[v]["nps"][d].pc = "client"
  BY <1>0, Zenon DEF CopyClient
<1>2. PICK l : l = IF cp[v]["nps"][d].eof THEN "close" ELSE "read"
  BY Zenon
<1>3. CopyGoes(v, "nps", d, l) /\ cp'[v]["nps"][d].eof = cp[v]["nps"][d].eof /\ SamePipes(v, Pipe)
  BY <1>1, <1>2, CopyToGoes, UnchangedPipes, Zenon DEF Pre, Joint
<1>4. Linked(v)
  BY <1>1, CopyIsLinked, Zenon DEF Joint
<1>5. l = "close" => d = "bwd" /\ LinkRead(v)
  BY <1>1, <1>2, <1>4, Zenon DEF Linked, AtNpsEnd, Dir
<1>6. l \in {"read", "close"}
  BY <1>2, Zenon
<1> QED
  BY <1>1, <1>3, <1>5, <1>6, CopyGoesOn, Zenon DEF Joint

\* Which ends of which pipes the four copies read and write.
LEMMA SrcDst == /\ Src("nps", "fwd")[1] = "U" /\ Src("nps", "fwd")[2] = "far" /\ Dst("nps", "fwd")[1] = "L" /\ Dst("nps", "fwd")[2] = "near"
                /\ Src("npc", "fwd")[1] = "L" /\ Src("npc", "fwd")[2] = "far" /\ Dst("npc", "fwd")[1] = "T" /\ Dst("npc", "fwd")[2] = "near"
                /\ Src("nps", "bwd")[1] = "L" /\ Src("nps", "bwd")[2] = "near" /\ Dst("nps", "bwd")[1] = "U" /\ Dst("nps", "bwd")[2] = "far"
                /\ Src("npc", "bwd")[1] = "T" /\ Src("npc", "bwd")[2] = "near" /\ Dst("npc", "bwd")[1] = "L" /\ Dst("npc", "bwd")[2] = "far"
  BY Zenon DEF Src, Dst, Other

\* A copy that reads an error reads it because what it has to close is closed, or because its source is.
LEMMA ReadFailsWhen ==
    ASSUME NEW v \in Visitor, Pre(v), NEW j \in Joint, NEW d \in Dir, cp[v][j][d].pc # "idle",
           ReadFails(pipe[v][Src(j, d)[1]], Src(j, d)[2])
    PROVE  \/ d = "bwd" /\ j = "nps" /\ LinkRead(v)
           \/ d = "bwd" /\ j = "npc" /\ TargetRead(v)
           \/ d = "fwd" /\ j = "nps" /\ pipe[v]["U"].far = "closed"
           \/ d = "fwd" /\ j = "npc" /\ pipe[v]["L"].far = "closed"
<1>1. npc[v] # "none" /\ Linked(v) /\ (j = "npc" => npc[v] = "copy") /\ (j = "nps" => h[v] = "copy")
  BY CopyIsLinked, Zenon
<1>2. PipeTyped(v)
  BY Typed, Zenon DEF Pre, ConnTyped
<1>3. ASSUME j = "nps", d = "fwd" PROVE pipe[v]["U"].far = "closed"
  <2>1. ReadFails(pipe[v]["U"], "far")
    BY <1>3, SrcDst, Zenon
  <2>2. pipe[v]["U"].far # "open" \/ pipe[v]["U"].near # "open"
    BY <2>1, Zenon DEF ReadFails, Peer
  <2> QED
    BY <1>1, <1>2, <2>2, Zenon DEF Linked, AtNpsEnd, InOrder, Pre, PipeTyped, PipeEnd, Pipe
<1>4. ASSUME j = "nps", d = "bwd" PROVE LinkRead(v)
  <2>1. ReadFails(pipe[v]["L"], "near")
    BY <1>4, SrcDst, Zenon
  <2>2. pipe[v]["L"].near # "open" \/ (pipe[v]["L"].bwd = 0 /\ pipe[v]["L"].far # "open")
    BY <2>1, Zenon DEF ReadFails, Peer, To
  <2> QED
    BY <1>1, <1>2, <2>2, Zenon DEF Linked, AtNpsEnd, AtNpcEnd, LinkRead, PipeTyped, PipeEnd, Pipe
<1>5. ASSUME j = "npc", d = "fwd" PROVE pipe[v]["L"].far = "closed"
  <2>1. ReadFails(pipe[v]["L"], "far")
    BY <1>5, SrcDst, Zenon
  <2>2. pipe[v]["L"].far # "open" \/ pipe[v]["L"].near # "open"
    BY <2>1, Zenon DEF ReadFails, Peer
  <2> QED
    BY <1>1, <1>2, <2>2, ZenonT(30) DEF Linked, AtNpsEnd, AtNpcEnd, LinkRead, PipeTyped, PipeEnd, Pipe
<1>6. ASSUME j = "npc", d = "bwd" PROVE TargetRead(v)
  <2>1. ReadFails(pipe[v]["T"], "near")
    BY <1>6, SrcDst, Zenon
  <2>2. pipe[v]["T"].near # "open" \/ (pipe[v]["T"].bwd = 0 /\ pipe[v]["T"].far # "open")
    BY <2>1, Zenon DEF ReadFails, Peer, To
  <2>3. npc[v] = "copy"
    BY <1>1, <1>6, Zenon
  <2> QED
    BY <1>1, <1>2, <2>2, <2>3, Zenon DEF Linked, AtTargetEnd, AtNpcEnd, TargetRead, PipeTyped, PipeEnd, Pipe
<1> QED
  BY <1>3, <1>4, <1>5, <1>6, Zenon DEF Joint, Dir

\* A read that fails finds everything read: the copy may close.
LEMMA ReadErrorInOrder ==
    ASSUME NEW v \in Visitor, Pre(v), NEW j \in Joint, NEW d \in Dir, cp[v][j][d].pc = "read",
           ReadFails(pipe[v][Src(j, d)[1]], Src(j, d)[2]), CopyTo(v, j, d, "close"), UNCHANGED <<setup, h, pipe, npc, user, tgt>>
    PROVE  InOrder(v)'
<1>1. CopyGoes(v, j, d, "close") /\ cp'[v][j][d].eof = cp[v][j][d].eof /\ SamePipes(v, Pipe)
  BY CopyToGoes, UnchangedPipes, Zenon DEF Pre
<1> QED
  BY <1>1, ReadFailsWhen, CopyGoesOn, Zenon

\* A chunk less in pipe p towards d, and one in the hand of a copy, or the other way round.
Chunk(v, p, d, k) == /\ SamePipes(v, Pipe \ {p})
                     /\ pipe'[v][p].near = pipe[v][p].near /\ pipe'[v][p].far = pipe[v][p].far
                     /\ pipe'[v][p][d] = pipe[v][p][d] + k /\ pipe'[v][p][Other(d)] = pipe[v][p][Other(d)]

\* What a step that leaves one of the three places alone leaves true of it.
LEMMA TargetEndKept ==
    ASSUME NEW v \in Visitor, AtTargetEnd(v), setup' = setup, npc'[v] = npc[v], tgt'[v] = tgt[v], npc[v] = "info" => SamePipes(v, {"T"}),
           pipe'[v]["T"].near = pipe[v]["T"].near, pipe'[v]["T"].far = pipe[v]["T"].far, pipe'[v]["L"].far = pipe[v]["L"].far
    PROVE  AtTargetEnd(v)'
  BY Zenon DEF AtTargetEnd, SamePipes, NoneYet

\* What the invariant says of npc and of nps, when neither moves.
LEMMA NpcEndKept ==
    ASSUME NEW v \in Visitor, AtNpcEnd(v), npc'[v] = npc[v], pipe'[v]["L"].far = pipe[v]["L"].far, TargetRead(v) => TargetRead(v)',
           cp'[v]["npc"]["fwd"] = cp[v]["npc"]["fwd"], cp'[v]["npc"]["bwd"] = cp[v]["npc"]["bwd"]
    PROVE  AtNpcEnd(v)'
  BY Zenon DEF AtNpcEnd, Dir

LEMMA NpsEndKept ==
    ASSUME NEW v \in Visitor, AtNpsEnd(v), h'[v] = h[v], pipe'[v]["U"].near = pipe[v]["U"].near, pipe'[v]["U"].far = pipe[v]["U"].far,
           pipe'[v]["L"].near = pipe[v]["L"].near, LinkRead(v) => LinkRead(v)',
           cp'[v]["nps"]["fwd"] = cp[v]["nps"]["fwd"], cp'[v]["nps"]["bwd"] = cp[v]["nps"]["bwd"]
    PROVE  AtNpsEnd(v)'
  BY Zenon DEF AtNpsEnd, Dir

\* What it says of nps and of npc, when one of its copies moves.
LEMMA NpsFwdMoves ==
    ASSUME NEW v \in Visitor, AtNpsEnd(v), h'[v] = h[v], h[v] = "copy", pipe'[v]["U"].near = pipe[v]["U"].near, pipe'[v]["U"].far = pipe[v]["U"].far,
           pipe'[v]["L"].near = pipe[v]["L"].near, LinkRead(v) => LinkRead(v)', cp'[v]["nps"]["bwd"] = cp[v]["nps"]["bwd"],
           cp'[v]["nps"]["fwd"].pc \in {"read", "write", "task", "client"}, cp'[v]["nps"]["fwd"].pc # "read" => ~cp'[v]["nps"]["fwd"].eof
    PROVE  AtNpsEnd(v)'
  BY Zenon DEF AtNpsEnd, Dir

LEMMA NpsBwdMoves ==
    ASSUME NEW v \in Visitor, AtNpsEnd(v), h'[v] = h[v], h[v] = "copy", pipe'[v]["U"].near = pipe[v]["U"].near, pipe'[v]["U"].far = pipe[v]["U"].far,
           pipe'[v]["L"].near = pipe[v]["L"].near, LinkRead(v) => LinkRead(v)', cp'[v]["nps"]["fwd"] = cp[v]["nps"]["fwd"],
           cp'[v]["nps"]["bwd"].pc \in {"read", "write", "task", "client"}, cp'[v]["nps"]["bwd"].pc # "read" /\ cp'[v]["nps"]["bwd"].eof => LinkRead(v)',
           cp'[v]["nps"]["bwd"].pc = "write" => pipe[v]["U"].far = "open"
    PROVE  AtNpsEnd(v)'
  BY Zenon DEF AtNpsEnd, Dir

LEMMA NpcFwdMoves ==
    ASSUME NEW v \in Visitor, AtNpcEnd(v), npc'[v] = npc[v], npc[v] = "copy", pipe'[v]["L"].far = pipe[v]["L"].far, TargetRead(v) => TargetRead(v)',
           cp'[v]["npc"]["bwd"] = cp[v]["npc"]["bwd"],
           cp'[v]["npc"]["fwd"].pc \in {"read", "write"}, cp'[v]["npc"]["fwd"].pc = "write" => ~cp'[v]["npc"]["fwd"].eof
    PROVE  AtNpcEnd(v)'
  BY Zenon DEF AtNpcEnd, Dir

LEMMA NpcBwdMoves ==
    ASSUME NEW v \in Visitor, AtNpcEnd(v), npc'[v] = npc[v], npc[v] = "copy", pipe'[v]["L"].far = pipe[v]["L"].far, TargetRead(v) => TargetRead(v)',
           cp'[v]["npc"]["fwd"] = cp[v]["npc"]["fwd"],
           cp'[v]["npc"]["bwd"].pc \in {"read", "write", "close"}, cp'[v]["npc"]["bwd"].pc = "write" /\ cp'[v]["npc"]["bwd"].eof => TargetRead(v)',
           cp'[v]["npc"]["bwd"].pc = "close" => TargetRead(v)',
           cp'[v]["npc"]["bwd"].pc = "write" => pipe[v]["L"].far = "open"
    PROVE  AtNpcEnd(v)'
  BY Zenon DEF AtNpcEnd, Dir

\* A read takes one chunk from a pipe into the hand of a copy, at each of the four.
LEMMA ReadAtNpsFwd ==
    ASSUME NEW v \in Visitor, Pre(v), CopyGoes(v, "nps", "fwd", "write"), cp[v]["nps"]["fwd"].pc = "read", Chunk(v, "U", "fwd", -1),
           pipe[v]["U"].far = "open", pipe[v]["U"].fwd > 0, cp'[v]["nps"]["fwd"].eof => pipe[v]["U"].near # "open"
    PROVE  InOrder(v)'
<1>1. npc[v] # "none" /\ Linked(v) /\ h[v] = "copy"
  BY CopyIsLinked, Zenon DEF Joint, Dir
<1>2. ConnTyped(v)
  BY Typed, Zenon DEF Pre
<1>3. /\ SamePipes(v, {"L", "T"}) /\ pipe'[v]["U"].near = pipe[v]["U"].near /\ pipe'[v]["U"].far = pipe[v]["U"].far
      /\ pipe'[v]["U"].fwd = pipe[v]["U"].fwd - 1 /\ pipe'[v]["U"].bwd = pipe[v]["U"].bwd
  BY <1>2, Zenon DEF Chunk, Other, Pipe, ConnTyped, PipeTyped, SamePipes
<1>4. cp'[v]["npc"]["fwd"] = cp[v]["npc"]["fwd"] /\ cp'[v]["npc"]["bwd"] = cp[v]["npc"]["bwd"] /\ cp'[v]["nps"]["bwd"] = cp[v]["nps"]["bwd"]
  BY Zenon DEF CopyGoes, Joint, Dir
<1>5. ~cp'[v]["nps"]["fwd"].eof
  BY <1>1, <1>2, ZenonT(30) DEF Linked, AtNpsEnd, AtNpcEnd, LinkRead, InOrder, Pre, ConnTyped, PipeTyped, PipeEnd, Pipe
<1>6. AtTargetEnd(v)'
  BY <1>1, <1>3, TargetEndKept, ZenonT(30) DEF Linked, CopyGoes, SamePipes
<1>7. AtNpcEnd(v)'
  BY <1>1, <1>3, <1>4, NpcEndKept, Zenon DEF Linked, CopyGoes, SamePipes, TargetRead
<1>8. AtNpsEnd(v)'
  <2>1. LinkRead(v) => LinkRead(v)'
    BY <1>2, <1>3, Zenon DEF LinkRead, SamePipes, ConnTyped, PipeTyped, Pipe
  <2> QED
    BY <1>1, <1>3, <1>4, <2>1, <1>5, NpsFwdMoves, Zenon DEF Linked, CopyGoes, SamePipes
<1>9. NothingLost(v)'
  <2>1. InHand(v, "npc", "fwd")' = InHand(v, "npc", "fwd") /\ InHand(v, "npc", "bwd")' = InHand(v, "npc", "bwd") /\ InHand(v, "nps", "bwd")' = InHand(v, "nps", "bwd")
    BY <1>4, Zenon DEF InHand
  <2>2. InHand(v, "nps", "fwd")' = 1 /\ InHand(v, "nps", "fwd") = 0
    BY Zenon DEF InHand, CopyGoes
  <2>3. InHand(v, "npc", "fwd") \in Nat /\ InHand(v, "npc", "bwd") \in Nat /\ InHand(v, "nps", "bwd") \in Nat
    BY Zenon DEF InHand
  <2>4. \A p \in Pipe : pipe[v][p].fwd \in Nat /\ pipe[v][p].bwd \in Nat
    BY <1>2, Zenon DEF ConnTyped, PipeTyped
  <2>5. user[v].sent \in Nat /\ user[v].got \in Nat /\ tgt[v].sent \in Nat /\ tgt[v].got \in Nat
    BY <1>2, Zenon DEF ConnTyped
  <2>6. user'[v] = user[v] /\ tgt'[v] = tgt[v]
    BY Zenon DEF CopyGoes
  <2>7. pipe'[v]["L"].fwd = pipe[v]["L"].fwd /\ pipe'[v]["L"].bwd = pipe[v]["L"].bwd /\ pipe'[v]["T"].fwd = pipe[v]["T"].fwd /\ pipe'[v]["T"].bwd = pipe[v]["T"].bwd
    BY <1>3, Zenon DEF SamePipes
  <2> QED
    BY <1>1, <1>3, <2>1, <2>2, <2>3, <2>4, <2>5, <2>6, <2>7 DEF NothingLost, Linked, Pipe
<1> QED
  BY <1>1, <1>3, <1>6, <1>7, <1>8, <1>9, Zenon DEF InOrder, Linked, CopyGoes, SamePipes, Pre

LEMMA ReadAtNpsBwd ==
    ASSUME NEW v \in Visitor, Pre(v), CopyGoes(v, "nps", "bwd", "write"), cp[v]["nps"]["bwd"].pc = "read", Chunk(v, "L", "bwd", -1),
           pipe[v]["L"].near = "open", pipe[v]["L"].bwd > 0, cp'[v]["nps"]["bwd"].eof => pipe[v]["L"].bwd = 1 /\ pipe[v]["L"].far # "open"
    PROVE  InOrder(v)'
<1>1. npc[v] # "none" /\ Linked(v) /\ h[v] = "copy"
  BY CopyIsLinked, Zenon DEF Joint, Dir
<1>2. ConnTyped(v)
  BY Typed, Zenon DEF Pre
<1>3. /\ SamePipes(v, {"U", "T"}) /\ pipe'[v]["L"].near = pipe[v]["L"].near /\ pipe'[v]["L"].far = pipe[v]["L"].far
      /\ pipe'[v]["L"].bwd = pipe[v]["L"].bwd - 1 /\ pipe'[v]["L"].fwd = pipe[v]["L"].fwd
  BY <1>2, Zenon DEF Chunk, Other, Pipe, ConnTyped, PipeTyped, SamePipes
<1>4. cp'[v]["npc"]["fwd"] = cp[v]["npc"]["fwd"] /\ cp'[v]["npc"]["bwd"] = cp[v]["npc"]["bwd"] /\ cp'[v]["nps"]["fwd"] = cp[v]["nps"]["fwd"]
  BY Zenon DEF CopyGoes, Joint, Dir
<1>6. AtTargetEnd(v)'
  BY <1>1, <1>3, TargetEndKept, ZenonT(30) DEF Linked, CopyGoes, SamePipes
<1>7. AtNpcEnd(v)'
  BY <1>1, <1>3, <1>4, NpcEndKept, Zenon DEF Linked, CopyGoes, SamePipes, TargetRead
<1>8. AtNpsEnd(v)'
  <2>1. LinkRead(v) => LinkRead(v)'
    BY <1>2, <1>3 DEF LinkRead, SamePipes, ConnTyped, PipeTyped, Pipe
  <2>2. cp'[v]["nps"]["bwd"].eof => LinkRead(v)'
    BY <1>1, <1>2, <1>3 DEF Linked, AtNpcEnd, LinkRead, ConnTyped, PipeTyped, PipeEnd, Pipe
  <2>3. pipe[v]["U"].far = "open"
    BY <1>1, Zenon DEF Linked, AtNpsEnd
  <2> QED
    BY <1>1, <1>3, <1>4, <2>1, <2>2, <2>3, NpsBwdMoves, ZenonT(30) DEF Linked, CopyGoes, SamePipes
<1>9. NothingLost(v)'
  <2>1. InHand(v, "npc", "fwd")' = InHand(v, "npc", "fwd") /\ InHand(v, "npc", "bwd")' = InHand(v, "npc", "bwd") /\ InHand(v, "nps", "fwd")' = InHand(v, "nps", "fwd")
    BY <1>4, Zenon DEF InHand
  <2>2. InHand(v, "nps", "bwd")' = 1 /\ InHand(v, "nps", "bwd") = 0
    BY Zenon DEF InHand, CopyGoes
  <2>3. InHand(v, "npc", "fwd") \in Nat /\ InHand(v, "npc", "bwd") \in Nat /\ InHand(v, "nps", "fwd") \in Nat
    BY Zenon DEF InHand
  <2>4. \A p \in Pipe : pipe[v][p].fwd \in Nat /\ pipe[v][p].bwd \in Nat
    BY <1>2, Zenon DEF ConnTyped, PipeTyped
  <2>5. user[v].sent \in Nat /\ user[v].got \in Nat /\ tgt[v].sent \in Nat /\ tgt[v].got \in Nat
    BY <1>2, Zenon DEF ConnTyped
  <2>6. user'[v] = user[v] /\ tgt'[v] = tgt[v]
    BY Zenon DEF CopyGoes
  <2>7. pipe'[v]["U"].fwd = pipe[v]["U"].fwd /\ pipe'[v]["U"].bwd = pipe[v]["U"].bwd /\ pipe'[v]["T"].fwd = pipe[v]["T"].fwd /\ pipe'[v]["T"].bwd = pipe[v]["T"].bwd
    BY <1>3, Zenon DEF SamePipes
  <2> QED
    BY <1>1, <1>3, <2>1, <2>2, <2>3, <2>4, <2>5, <2>6, <2>7 DEF NothingLost, Linked, Pipe
<1> QED
  BY <1>1, <1>3, <1>6, <1>7, <1>8, <1>9, ZenonT(30) DEF InOrder, Linked, CopyGoes, SamePipes, Pre

LEMMA ReadAtNpcFwd ==
    ASSUME NEW v \in Visitor, Pre(v), CopyGoes(v, "npc", "fwd", "write"), cp[v]["npc"]["fwd"].pc = "read", Chunk(v, "L", "fwd", -1),
           pipe[v]["L"].far = "open", pipe[v]["L"].fwd > 0, cp'[v]["npc"]["fwd"].eof => pipe[v]["L"].near # "open"
    PROVE  InOrder(v)'
<1>1. npc[v] # "none" /\ Linked(v) /\ npc[v] = "copy"
  BY CopyIsLinked, Zenon DEF Joint, Dir
<1>2. ConnTyped(v)
  BY Typed, Zenon DEF Pre
<1>3. /\ SamePipes(v, {"U", "T"}) /\ pipe'[v]["L"].near = pipe[v]["L"].near /\ pipe'[v]["L"].far = pipe[v]["L"].far
      /\ pipe'[v]["L"].fwd = pipe[v]["L"].fwd - 1 /\ pipe'[v]["L"].bwd = pipe[v]["L"].bwd
  BY <1>2, Zenon DEF Chunk, Other, Pipe, ConnTyped, PipeTyped, SamePipes
<1>4. cp'[v]["npc"]["bwd"] = cp[v]["npc"]["bwd"] /\ cp'[v]["nps"]["fwd"] = cp[v]["nps"]["fwd"] /\ cp'[v]["nps"]["bwd"] = cp[v]["nps"]["bwd"]
  BY Zenon DEF CopyGoes, Joint, Dir
<1>5. ~cp'[v]["npc"]["fwd"].eof
  BY <1>1, <1>2, ZenonT(30) DEF Linked, AtNpsEnd, AtNpcEnd, LinkRead, InOrder, Pre, ConnTyped, PipeTyped, PipeEnd, Pipe
<1>6. AtTargetEnd(v)'
  BY <1>1, <1>3, TargetEndKept, ZenonT(30) DEF Linked, CopyGoes, SamePipes
<1>7. AtNpcEnd(v)'
  <2>1. TargetRead(v) => TargetRead(v)'
    BY <1>2, <1>3, Zenon DEF TargetRead, SamePipes, ConnTyped, PipeTyped, Pipe
  <2> QED
    BY <1>1, <1>3, <1>4, <2>1, <1>5, NpcFwdMoves, Zenon DEF Linked, CopyGoes, SamePipes
<1>8. AtNpsEnd(v)'
  BY <1>1, <1>3, <1>4, NpsEndKept, Zenon DEF Linked, CopyGoes, SamePipes, LinkRead
<1>9. NothingLost(v)'
  <2>1. InHand(v, "npc", "bwd")' = InHand(v, "npc", "bwd") /\ InHand(v, "nps", "fwd")' = InHand(v, "nps", "fwd") /\ InHand(v, "nps", "bwd")' = InHand(v, "nps", "bwd")
    BY <1>4, Zenon DEF InHand
  <2>2. InHand(v, "npc", "fwd")' = 1 /\ InHand(v, "npc", "fwd") = 0
    BY Zenon DEF InHand, CopyGoes
  <2>3. InHand(v, "npc", "bwd") \in Nat /\ InHand(v, "nps", "fwd") \in Nat /\ InHand(v, "nps", "bwd") \in Nat
    BY Zenon DEF InHand
  <2>4. \A p \in Pipe : pipe[v][p].fwd \in Nat /\ pipe[v][p].bwd \in Nat
    BY <1>2, Zenon DEF ConnTyped, PipeTyped
  <2>5. user[v].sent \in Nat /\ user[v].got \in Nat /\ tgt[v].sent \in Nat /\ tgt[v].got \in Nat
    BY <1>2, Zenon DEF ConnTyped
  <2>6. user'[v] = user[v] /\ tgt'[v] = tgt[v]
    BY Zenon DEF CopyGoes
  <2>7. pipe'[v]["U"].fwd = pipe[v]["U"].fwd /\ pipe'[v]["U"].bwd = pipe[v]["U"].bwd /\ pipe'[v]["T"].fwd = pipe[v]["T"].fwd /\ pipe'[v]["T"].bwd = pipe[v]["T"].bwd
    BY <1>3, Zenon DEF SamePipes
  <2> QED
    BY <1>1, <1>3, <2>1, <2>2, <2>3, <2>4, <2>5, <2>6, <2>7 DEF NothingLost, Linked, Pipe
<1> QED
  BY <1>1, <1>3, <1>6, <1>7, <1>8, <1>9, ZenonT(30) DEF InOrder, Linked, CopyGoes, SamePipes, Pre

LEMMA ReadAtNpcBwd ==
    ASSUME NEW v \in Visitor, Pre(v), CopyGoes(v, "npc", "bwd", "write"), cp[v]["npc"]["bwd"].pc = "read", Chunk(v, "T", "bwd", -1),
           pipe[v]["T"].near = "open", pipe[v]["T"].bwd > 0, cp'[v]["npc"]["bwd"].eof => pipe[v]["T"].bwd = 1 /\ pipe[v]["T"].far # "open"
    PROVE  InOrder(v)'
<1>1. npc[v] # "none" /\ Linked(v) /\ npc[v] = "copy"
  BY CopyIsLinked, Zenon DEF Joint, Dir
<1>2. ConnTyped(v)
  BY Typed, Zenon DEF Pre
<1>3. /\ SamePipes(v, {"U", "L"}) /\ pipe'[v]["T"].near = pipe[v]["T"].near /\ pipe'[v]["T"].far = pipe[v]["T"].far
      /\ pipe'[v]["T"].bwd = pipe[v]["T"].bwd - 1 /\ pipe'[v]["T"].fwd = pipe[v]["T"].fwd
  BY <1>2, Zenon DEF Chunk, Other, Pipe, ConnTyped, PipeTyped, SamePipes
<1>4. cp'[v]["npc"]["fwd"] = cp[v]["npc"]["fwd"] /\ cp'[v]["nps"]["fwd"] = cp[v]["nps"]["fwd"] /\ cp'[v]["nps"]["bwd"] = cp[v]["nps"]["bwd"]
  BY Zenon DEF CopyGoes, Joint, Dir
<1>6. AtTargetEnd(v)'
  BY <1>1, <1>3, TargetEndKept, ZenonT(30) DEF Linked, CopyGoes, SamePipes
<1>7. AtNpcEnd(v)'
  <2>1. TargetRead(v) => TargetRead(v)'
    BY <1>2, <1>3 DEF TargetRead, SamePipes, ConnTyped, PipeTyped, Pipe
  <2>2. cp'[v]["npc"]["bwd"].eof => TargetRead(v)'
    BY <1>1, <1>2, <1>3 DEF Linked, AtTargetEnd, TargetRead, ConnTyped, PipeTyped, PipeEnd, Pipe
  <2>3. pipe[v]["L"].far = "open"
    BY <1>1, Zenon DEF Linked, AtTargetEnd
  <2> QED
    BY <1>1, <1>3, <1>4, <2>1, <2>2, <2>3, NpcBwdMoves, ZenonT(30) DEF Linked, CopyGoes, SamePipes
<1>8. AtNpsEnd(v)'
  BY <1>1, <1>3, <1>4, NpsEndKept, Zenon DEF Linked, CopyGoes, SamePipes, LinkRead
<1>9. NothingLost(v)'
  <2>1. InHand(v, "npc", "fwd")' = InHand(v, "npc", "fwd") /\ InHand(v, "nps", "fwd")' = InHand(v, "nps", "fwd") /\ InHand(v, "nps", "bwd")' = InHand(v, "nps", "bwd")
    BY <1>4, Zenon DEF InHand
  <2>2. InHand(v, "npc", "bwd")' = 1 /\ InHand(v, "npc", "bwd") = 0
    BY Zenon DEF InHand, CopyGoes
  <2>3. InHand(v, "npc", "fwd") \in Nat /\ InHand(v, "nps", "fwd") \in Nat /\ InHand(v, "nps", "bwd") \in Nat
    BY Zenon DEF InHand
  <2>4. \A p \in Pipe : pipe[v][p].fwd \in Nat /\ pipe[v][p].bwd \in Nat
    BY <1>2, Zenon DEF ConnTyped, PipeTyped
  <2>5. user[v].sent \in Nat /\ user[v].got \in Nat /\ tgt[v].sent \in Nat /\ tgt[v].got \in Nat
    BY <1>2, Zenon DEF ConnTyped
  <2>6. user'[v] = user[v] /\ tgt'[v] = tgt[v]
    BY Zenon DEF CopyGoes
  <2>7. pipe'[v]["U"].fwd = pipe[v]["U"].fwd /\ pipe'[v]["U"].bwd = pipe[v]["U"].bwd /\ pipe'[v]["L"].fwd = pipe[v]["L"].fwd /\ pipe'[v]["L"].bwd = pipe[v]["L"].bwd
    BY <1>3, Zenon DEF SamePipes
  <2> QED
    BY <1>1, <1>3, <2>1, <2>2, <2>3, <2>4, <2>5, <2>6, <2>7 DEF NothingLost, Linked, Pipe
<1> QED
  BY <1>1, <1>3, <1>6, <1>7, <1>8, <1>9, ZenonT(30) DEF InOrder, Linked, CopyGoes, SamePipes, Pre

-----------------------------------------------------------------------------
(* A copy writes *)

\* A write puts it into the next pipe, at each of the four.
LEMMA WriteAtNpsFwd ==
    ASSUME NEW v \in Visitor, Pre(v), NEW l, CopyGoes(v, "nps", "fwd", l), cp[v]["nps"]["fwd"].pc = "write", Chunk(v, "L", "fwd", 1),
           l = "task", cp'[v]["nps"]["fwd"].eof = cp[v]["nps"]["fwd"].eof
    PROVE  InOrder(v)'
<1>1. npc[v] # "none" /\ Linked(v) /\ h[v] = "copy"
  BY CopyIsLinked, Zenon DEF Joint, Dir
<1>2. ConnTyped(v)
  BY Typed, Zenon DEF Pre
<1>3. /\ SamePipes(v, {"U", "T"}) /\ pipe'[v]["L"].near = pipe[v]["L"].near /\ pipe'[v]["L"].far = pipe[v]["L"].far
      /\ pipe'[v]["L"].fwd = pipe[v]["L"].fwd + 1 /\ pipe'[v]["L"].bwd = pipe[v]["L"].bwd
  BY <1>2, Zenon DEF Chunk, Other, Pipe, ConnTyped, PipeTyped, SamePipes
<1>4. cp'[v]["npc"]["fwd"] = cp[v]["npc"]["fwd"] /\ cp'[v]["npc"]["bwd"] = cp[v]["npc"]["bwd"] /\ cp'[v]["nps"]["bwd"] = cp[v]["nps"]["bwd"]
  BY Zenon DEF CopyGoes, Joint, Dir
<1>6. AtTargetEnd(v)'
  BY <1>1, <1>3, TargetEndKept, ZenonT(30) DEF Linked, CopyGoes, SamePipes
<1>7. AtNpcEnd(v)'
  BY <1>1, <1>3, <1>4, NpcEndKept, Zenon DEF Linked, CopyGoes, SamePipes, TargetRead
<1>8. AtNpsEnd(v)'
  <2>1. LinkRead(v) => LinkRead(v)'
    BY <1>2, <1>3, Zenon DEF LinkRead, SamePipes, ConnTyped, PipeTyped, Pipe
  <2>2. ~cp[v]["nps"]["fwd"].eof
    BY <1>1, Zenon DEF Linked, AtNpsEnd
  <2> QED
    BY <1>1, <1>3, <1>4, <2>1, <2>2, NpsFwdMoves, ZenonT(30) DEF Linked, CopyGoes, SamePipes
<1>9. NothingLost(v)'
  <2>1. InHand(v, "npc", "fwd")' = InHand(v, "npc", "fwd") /\ InHand(v, "npc", "bwd")' = InHand(v, "npc", "bwd") /\ InHand(v, "nps", "bwd")' = InHand(v, "nps", "bwd")
    BY <1>4, Zenon DEF InHand
  <2>2. InHand(v, "nps", "fwd")' = 0 /\ InHand(v, "nps", "fwd") = 1
    BY Zenon DEF InHand, CopyGoes
  <2>3. InHand(v, "npc", "fwd") \in Nat /\ InHand(v, "npc", "bwd") \in Nat /\ InHand(v, "nps", "bwd") \in Nat
    BY Zenon DEF InHand
  <2>4. \A p \in Pipe : pipe[v][p].fwd \in Nat /\ pipe[v][p].bwd \in Nat
    BY <1>2, Zenon DEF ConnTyped, PipeTyped
  <2>5. user[v].sent \in Nat /\ user[v].got \in Nat /\ tgt[v].sent \in Nat /\ tgt[v].got \in Nat
    BY <1>2, Zenon DEF ConnTyped
  <2>6. user'[v] = user[v] /\ tgt'[v] = tgt[v]
    BY Zenon DEF CopyGoes
  <2>7. pipe'[v]["U"].fwd = pipe[v]["U"].fwd /\ pipe'[v]["U"].bwd = pipe[v]["U"].bwd /\ pipe'[v]["T"].fwd = pipe[v]["T"].fwd /\ pipe'[v]["T"].bwd = pipe[v]["T"].bwd
    BY <1>3, Zenon DEF SamePipes
  <2>8. user[v].sent = pipe[v]["U"].fwd + InHand(v, "nps", "fwd") + pipe[v]["L"].fwd + InHand(v, "npc", "fwd") + pipe[v]["T"].fwd + tgt[v].got
    BY <1>1, Zenon DEF NothingLost, Linked
  <2>9. user'[v].sent = (pipe[v]["U"].fwd + InHand(v, "nps", "fwd") + pipe[v]["L"].fwd + InHand(v, "npc", "fwd") + pipe[v]["T"].fwd + tgt[v].got)'
    BY <1>3, <2>1, <2>2, <2>3, <2>4, <2>5, <2>6, <2>7, <2>8 DEF Pipe
  <2>10. tgt[v].sent = pipe[v]["T"].bwd + InHand(v, "npc", "bwd") + pipe[v]["L"].bwd + InHand(v, "nps", "bwd") + pipe[v]["U"].bwd + user[v].got
    BY <1>1, Zenon DEF NothingLost, Linked
  <2>11. tgt'[v].sent = (pipe[v]["T"].bwd + InHand(v, "npc", "bwd") + pipe[v]["L"].bwd + InHand(v, "nps", "bwd") + pipe[v]["U"].bwd + user[v].got)'
    BY <1>3, <2>1, <2>6, <2>7, <2>10, Zenon
  <2> QED
    BY <2>9, <2>11, Zenon DEF NothingLost
<1> QED
  BY <1>1, <1>3, <1>6, <1>7, <1>8, <1>9, ZenonT(30) DEF InOrder, Linked, CopyGoes, SamePipes, Pre

LEMMA WriteAtNpsBwd ==
    ASSUME NEW v \in Visitor, Pre(v), NEW l, CopyGoes(v, "nps", "bwd", l), cp[v]["nps"]["bwd"].pc = "write", Chunk(v, "U", "bwd", 1),
           l = "task", cp'[v]["nps"]["bwd"].eof = cp[v]["nps"]["bwd"].eof
    PROVE  InOrder(v)'
<1>1. npc[v] # "none" /\ Linked(v) /\ h[v] = "copy"
  BY CopyIsLinked, Zenon DEF Joint, Dir
<1>2. ConnTyped(v)
  BY Typed, Zenon DEF Pre
<1>3. /\ SamePipes(v, {"L", "T"}) /\ pipe'[v]["U"].near = pipe[v]["U"].near /\ pipe'[v]["U"].far = pipe[v]["U"].far
      /\ pipe'[v]["U"].bwd = pipe[v]["U"].bwd + 1 /\ pipe'[v]["U"].fwd = pipe[v]["U"].fwd
  BY <1>2, Zenon DEF Chunk, Other, Pipe, ConnTyped, PipeTyped, SamePipes
<1>4. cp'[v]["npc"]["fwd"] = cp[v]["npc"]["fwd"] /\ cp'[v]["npc"]["bwd"] = cp[v]["npc"]["bwd"] /\ cp'[v]["nps"]["fwd"] = cp[v]["nps"]["fwd"]
  BY Zenon DEF CopyGoes, Joint, Dir
<1>6. AtTargetEnd(v)'
  BY <1>1, <1>3, TargetEndKept, ZenonT(30) DEF Linked, CopyGoes, SamePipes
<1>7. AtNpcEnd(v)'
  BY <1>1, <1>3, <1>4, NpcEndKept, Zenon DEF Linked, CopyGoes, SamePipes, TargetRead
<1>8. AtNpsEnd(v)'
  <2>1. LinkRead(v) => LinkRead(v)'
    BY <1>2, <1>3, Zenon DEF LinkRead, SamePipes, ConnTyped, PipeTyped, Pipe
  <2>2. cp[v]["nps"]["bwd"].eof => LinkRead(v)
    BY <1>1, Zenon DEF Linked, AtNpsEnd
  <2> QED
    BY <1>1, <1>3, <1>4, <2>1, <2>2, NpsBwdMoves, ZenonT(30) DEF Linked, CopyGoes, SamePipes
<1>9. NothingLost(v)'
  <2>1. InHand(v, "npc", "fwd")' = InHand(v, "npc", "fwd") /\ InHand(v, "npc", "bwd")' = InHand(v, "npc", "bwd") /\ InHand(v, "nps", "fwd")' = InHand(v, "nps", "fwd")
    BY <1>4, Zenon DEF InHand
  <2>2. InHand(v, "nps", "bwd")' = 0 /\ InHand(v, "nps", "bwd") = 1
    BY Zenon DEF InHand, CopyGoes
  <2>3. InHand(v, "npc", "fwd") \in Nat /\ InHand(v, "npc", "bwd") \in Nat /\ InHand(v, "nps", "fwd") \in Nat
    BY Zenon DEF InHand
  <2>4. \A p \in Pipe : pipe[v][p].fwd \in Nat /\ pipe[v][p].bwd \in Nat
    BY <1>2, Zenon DEF ConnTyped, PipeTyped
  <2>5. user[v].sent \in Nat /\ user[v].got \in Nat /\ tgt[v].sent \in Nat /\ tgt[v].got \in Nat
    BY <1>2, Zenon DEF ConnTyped
  <2>6. user'[v] = user[v] /\ tgt'[v] = tgt[v]
    BY Zenon DEF CopyGoes
  <2>7. pipe'[v]["L"].fwd = pipe[v]["L"].fwd /\ pipe'[v]["L"].bwd = pipe[v]["L"].bwd /\ pipe'[v]["T"].fwd = pipe[v]["T"].fwd /\ pipe'[v]["T"].bwd = pipe[v]["T"].bwd
    BY <1>3, Zenon DEF SamePipes
  <2>8. user[v].sent = pipe[v]["U"].fwd + InHand(v, "nps", "fwd") + pipe[v]["L"].fwd + InHand(v, "npc", "fwd") + pipe[v]["T"].fwd + tgt[v].got
    BY <1>1, Zenon DEF NothingLost, Linked
  <2>9. user'[v].sent = (pipe[v]["U"].fwd + InHand(v, "nps", "fwd") + pipe[v]["L"].fwd + InHand(v, "npc", "fwd") + pipe[v]["T"].fwd + tgt[v].got)'
    BY <1>3, <2>1, <2>6, <2>7, <2>8, Zenon
  <2>10. tgt[v].sent = pipe[v]["T"].bwd + InHand(v, "npc", "bwd") + pipe[v]["L"].bwd + InHand(v, "nps", "bwd") + pipe[v]["U"].bwd + user[v].got
    BY <1>1, Zenon DEF NothingLost, Linked
  <2>11. tgt'[v].sent = (pipe[v]["T"].bwd + InHand(v, "npc", "bwd") + pipe[v]["L"].bwd + InHand(v, "nps", "bwd") + pipe[v]["U"].bwd + user[v].got)'
    BY <1>3, <2>1, <2>2, <2>3, <2>4, <2>5, <2>6, <2>7, <2>10 DEF Pipe
  <2> QED
    BY <2>9, <2>11, Zenon DEF NothingLost
<1> QED
  BY <1>1, <1>3, <1>6, <1>7, <1>8, <1>9, Zenon DEF InOrder, Linked, CopyGoes, SamePipes, Pre

LEMMA WriteAtNpcFwd ==
    ASSUME NEW v \in Visitor, Pre(v), NEW l, CopyGoes(v, "npc", "fwd", l), cp[v]["npc"]["fwd"].pc = "write", Chunk(v, "T", "fwd", 1),
           l = (IF cp[v]["npc"]["fwd"].eof THEN "close" ELSE "read"), cp'[v]["npc"]["fwd"].eof = cp[v]["npc"]["fwd"].eof
    PROVE  InOrder(v)'
<1>1. npc[v] # "none" /\ Linked(v) /\ npc[v] = "copy"
  BY CopyIsLinked, Zenon DEF Joint, Dir
<1>2. ConnTyped(v)
  BY Typed, Zenon DEF Pre
<1>3. /\ SamePipes(v, {"U", "L"}) /\ pipe'[v]["T"].near = pipe[v]["T"].near /\ pipe'[v]["T"].far = pipe[v]["T"].far
      /\ pipe'[v]["T"].fwd = pipe[v]["T"].fwd + 1 /\ pipe'[v]["T"].bwd = pipe[v]["T"].bwd
  BY <1>2, Zenon DEF Chunk, Other, Pipe, ConnTyped, PipeTyped, SamePipes
<1>4. cp'[v]["npc"]["bwd"] = cp[v]["npc"]["bwd"] /\ cp'[v]["nps"]["fwd"] = cp[v]["nps"]["fwd"] /\ cp'[v]["nps"]["bwd"] = cp[v]["nps"]["bwd"]
  BY Zenon DEF CopyGoes, Joint, Dir
<1>6. AtTargetEnd(v)'
  BY <1>1, <1>3, TargetEndKept, ZenonT(30) DEF Linked, CopyGoes, SamePipes
<1>7. AtNpcEnd(v)'
  <2>1. TargetRead(v) => TargetRead(v)'
    BY <1>2, <1>3, Zenon DEF TargetRead, SamePipes, ConnTyped, PipeTyped, Pipe
  <2>2. ~cp[v]["npc"]["fwd"].eof
    BY <1>1, Zenon DEF Linked, AtNpcEnd
  <2> QED
    BY <1>1, <1>3, <1>4, <2>1, <2>2, NpcFwdMoves, ZenonT(30) DEF Linked, CopyGoes, SamePipes
<1>8. AtNpsEnd(v)'
  BY <1>1, <1>3, <1>4, NpsEndKept, ZenonT(30) DEF Linked, CopyGoes, SamePipes, LinkRead
<1>9. NothingLost(v)'
  <2>1. InHand(v, "npc", "bwd")' = InHand(v, "npc", "bwd") /\ InHand(v, "nps", "fwd")' = InHand(v, "nps", "fwd") /\ InHand(v, "nps", "bwd")' = InHand(v, "nps", "bwd")
    BY <1>4, Zenon DEF InHand
  <2>2. InHand(v, "npc", "fwd")' = 0 /\ InHand(v, "npc", "fwd") = 1
    BY Zenon DEF InHand, CopyGoes
  <2>3. InHand(v, "npc", "bwd") \in Nat /\ InHand(v, "nps", "fwd") \in Nat /\ InHand(v, "nps", "bwd") \in Nat
    BY Zenon DEF InHand
  <2>4. \A p \in Pipe : pipe[v][p].fwd \in Nat /\ pipe[v][p].bwd \in Nat
    BY <1>2, Zenon DEF ConnTyped, PipeTyped
  <2>5. user[v].sent \in Nat /\ user[v].got \in Nat /\ tgt[v].sent \in Nat /\ tgt[v].got \in Nat
    BY <1>2, Zenon DEF ConnTyped
  <2>6. user'[v] = user[v] /\ tgt'[v] = tgt[v]
    BY Zenon DEF CopyGoes
  <2>7. pipe'[v]["U"].fwd = pipe[v]["U"].fwd /\ pipe'[v]["U"].bwd = pipe[v]["U"].bwd /\ pipe'[v]["L"].fwd = pipe[v]["L"].fwd /\ pipe'[v]["L"].bwd = pipe[v]["L"].bwd
    BY <1>3, Zenon DEF SamePipes
  <2>8. user[v].sent = pipe[v]["U"].fwd + InHand(v, "nps", "fwd") + pipe[v]["L"].fwd + InHand(v, "npc", "fwd") + pipe[v]["T"].fwd + tgt[v].got
    BY <1>1, Zenon DEF NothingLost, Linked
  <2>9. user'[v].sent = (pipe[v]["U"].fwd + InHand(v, "nps", "fwd") + pipe[v]["L"].fwd + InHand(v, "npc", "fwd") + pipe[v]["T"].fwd + tgt[v].got)'
    BY <1>3, <2>1, <2>2, <2>3, <2>4, <2>5, <2>6, <2>7, <2>8 DEF Pipe
  <2>10. tgt[v].sent = pipe[v]["T"].bwd + InHand(v, "npc", "bwd") + pipe[v]["L"].bwd + InHand(v, "nps", "bwd") + pipe[v]["U"].bwd + user[v].got
    BY <1>1, Zenon DEF NothingLost, Linked
  <2>11. tgt'[v].sent = (pipe[v]["T"].bwd + InHand(v, "npc", "bwd") + pipe[v]["L"].bwd + InHand(v, "nps", "bwd") + pipe[v]["U"].bwd + user[v].got)'
    BY <1>3, <2>1, <2>6, <2>7, <2>10, Zenon
  <2> QED
    BY <2>9, <2>11, Zenon DEF NothingLost
<1> QED
  BY <1>1, <1>3, <1>6, <1>7, <1>8, <1>9, ZenonT(30) DEF InOrder, Linked, CopyGoes, SamePipes, Pre

LEMMA WriteAtNpcBwd ==
    ASSUME NEW v \in Visitor, Pre(v), NEW l, CopyGoes(v, "npc", "bwd", l), cp[v]["npc"]["bwd"].pc = "write", Chunk(v, "L", "bwd", 1),
           l = (IF cp[v]["npc"]["bwd"].eof THEN "close" ELSE "read"), cp'[v]["npc"]["bwd"].eof = cp[v]["npc"]["bwd"].eof,
           pipe[v]["L"].far = "open"
    PROVE  InOrder(v)'
<1>1. npc[v] # "none" /\ Linked(v) /\ npc[v] = "copy"
  BY CopyIsLinked, Zenon DEF Joint, Dir
<1>2. ConnTyped(v)
  BY Typed, Zenon DEF Pre
<1>3. /\ SamePipes(v, {"U", "T"}) /\ pipe'[v]["L"].near = pipe[v]["L"].near /\ pipe'[v]["L"].far = pipe[v]["L"].far
      /\ pipe'[v]["L"].bwd = pipe[v]["L"].bwd + 1 /\ pipe'[v]["L"].fwd = pipe[v]["L"].fwd
  BY <1>2, Zenon DEF Chunk, Other, Pipe, ConnTyped, PipeTyped, SamePipes
<1>4. cp'[v]["npc"]["fwd"] = cp[v]["npc"]["fwd"] /\ cp'[v]["nps"]["fwd"] = cp[v]["nps"]["fwd"] /\ cp'[v]["nps"]["bwd"] = cp[v]["nps"]["bwd"]
  BY Zenon DEF CopyGoes, Joint, Dir
<1>6. AtTargetEnd(v)'
  BY <1>1, <1>3, TargetEndKept, ZenonT(30) DEF Linked, CopyGoes, SamePipes
<1>7. AtNpcEnd(v)'
  <2>1. TargetRead(v) => TargetRead(v)'
    BY <1>2, <1>3, Zenon DEF TargetRead, SamePipes, ConnTyped, PipeTyped, Pipe
  <2>2. cp[v]["npc"]["bwd"].eof => TargetRead(v)
    BY <1>1, Zenon DEF Linked, AtNpcEnd
  <2> QED
    BY <1>1, <1>3, <1>4, <2>1, <2>2, NpcBwdMoves, ZenonT(30) DEF Linked, CopyGoes, SamePipes
<1>8. AtNpsEnd(v)'
  BY <1>1, <1>3, <1>4, NpsEndKept, ZenonT(30) DEF Linked, CopyGoes, SamePipes, LinkRead
<1>9. NothingLost(v)'
  <2>1. InHand(v, "npc", "fwd")' = InHand(v, "npc", "fwd") /\ InHand(v, "nps", "fwd")' = InHand(v, "nps", "fwd") /\ InHand(v, "nps", "bwd")' = InHand(v, "nps", "bwd")
    BY <1>4, Zenon DEF InHand
  <2>2. InHand(v, "npc", "bwd")' = 0 /\ InHand(v, "npc", "bwd") = 1
    BY Zenon DEF InHand, CopyGoes
  <2>3. InHand(v, "npc", "fwd") \in Nat /\ InHand(v, "nps", "fwd") \in Nat /\ InHand(v, "nps", "bwd") \in Nat
    BY Zenon DEF InHand
  <2>4. \A p \in Pipe : pipe[v][p].fwd \in Nat /\ pipe[v][p].bwd \in Nat
    BY <1>2, Zenon DEF ConnTyped, PipeTyped
  <2>5. user[v].sent \in Nat /\ user[v].got \in Nat /\ tgt[v].sent \in Nat /\ tgt[v].got \in Nat
    BY <1>2, Zenon DEF ConnTyped
  <2>6. user'[v] = user[v] /\ tgt'[v] = tgt[v]
    BY Zenon DEF CopyGoes
  <2>7. pipe'[v]["U"].fwd = pipe[v]["U"].fwd /\ pipe'[v]["U"].bwd = pipe[v]["U"].bwd /\ pipe'[v]["T"].fwd = pipe[v]["T"].fwd /\ pipe'[v]["T"].bwd = pipe[v]["T"].bwd
    BY <1>3, Zenon DEF SamePipes
  <2>8. user[v].sent = pipe[v]["U"].fwd + InHand(v, "nps", "fwd") + pipe[v]["L"].fwd + InHand(v, "npc", "fwd") + pipe[v]["T"].fwd + tgt[v].got
    BY <1>1, Zenon DEF NothingLost, Linked
  <2>9. user'[v].sent = (pipe[v]["U"].fwd + InHand(v, "nps", "fwd") + pipe[v]["L"].fwd + InHand(v, "npc", "fwd") + pipe[v]["T"].fwd + tgt[v].got)'
    BY <1>3, <2>1, <2>6, <2>7, <2>8, Zenon
  <2>10. tgt[v].sent = pipe[v]["T"].bwd + InHand(v, "npc", "bwd") + pipe[v]["L"].bwd + InHand(v, "nps", "bwd") + pipe[v]["U"].bwd + user[v].got
    BY <1>1, Zenon DEF NothingLost, Linked
  <2>11. tgt'[v].sent = (pipe[v]["T"].bwd + InHand(v, "npc", "bwd") + pipe[v]["L"].bwd + InHand(v, "nps", "bwd") + pipe[v]["U"].bwd + user[v].got)'
    BY <1>3, <2>1, <2>2, <2>3, <2>4, <2>5, <2>6, <2>7, <2>10 DEF Pipe
  <2> QED
    BY <2>9, <2>11, Zenon DEF NothingLost
<1> QED
  BY <1>1, <1>3, <1>6, <1>7, <1>8, <1>9, Zenon DEF InOrder, Linked, CopyGoes, SamePipes, Pre

-----------------------------------------------------------------------------
(* CopyBuffer as a whole *)

\* The target has closed only after it has read every chunk of the request.
LEMMA AllArrived ==
    ASSUME NEW v \in Visitor, Pre(v), npc[v] # "none", Linked(v), pipe[v]["T"].far = "closed"
    PROVE  /\ pipe[v]["U"].fwd = 0 /\ pipe[v]["L"].fwd = 0 /\ pipe[v]["T"].fwd = 0
           /\ cp[v]["nps"]["fwd"].pc # "write" /\ cp[v]["npc"]["fwd"].pc # "write"
<1>1. ConnTyped(v)
  BY Typed, Zenon DEF Pre
<1>2. /\ pipe[v]["U"].fwd \in Nat /\ pipe[v]["L"].fwd \in Nat /\ pipe[v]["T"].fwd \in Nat
      /\ user[v].sent \in Nat /\ tgt[v].got \in Nat /\ setup.req \in Nat
  BY <1>1, Zenon DEF ConnTyped, PipeTyped, Pipe
<1>3. tgt[v].got = setup.req /\ user[v].sent <= setup.req
  BY Zenon DEF Linked, AtTargetEnd, InOrder, Pre
<1>4. InHand(v, "nps", "fwd") \in Nat /\ InHand(v, "npc", "fwd") \in Nat
  BY Zenon DEF InHand
<1>5. user[v].sent = pipe[v]["U"].fwd + InHand(v, "nps", "fwd") + pipe[v]["L"].fwd + InHand(v, "npc", "fwd") + pipe[v]["T"].fwd + tgt[v].got
  BY Zenon DEF NothingLost, Linked
<1>6. /\ pipe[v]["U"].fwd = 0 /\ pipe[v]["L"].fwd = 0 /\ pipe[v]["T"].fwd = 0
      /\ InHand(v, "nps", "fwd") = 0 /\ InHand(v, "npc", "fwd") = 0
  BY <1>2, <1>3, <1>4, <1>5
<1> QED
  BY <1>6 DEF InHand

\* In an orderly setup no copy writes to a pipe that is closed.
LEMMA WriteNeverFails ==
    ASSUME NEW v \in Visitor, Pre(v), NEW j \in Joint, NEW d \in Dir, cp[v][j][d].pc = "write"
    PROVE  ~WriteFails(pipe[v][Dst(j, d)[1]], Dst(j, d)[2])
<1>1. npc[v] # "none" /\ Linked(v) /\ (j = "npc" => npc[v] = "copy") /\ (j = "nps" => h[v] = "copy")
  BY CopyIsLinked, Zenon
<1>2. PipeTyped(v)
  BY Typed, Zenon DEF Pre, ConnTyped
<1>3. ASSUME j = "nps", d = "fwd" PROVE ~WriteFails(pipe[v]["L"], "near")
  <2>1. pipe[v]["T"].far # "closed"
    BY <1>1, <1>3, AllArrived, Zenon
  <2>2. pipe[v]["L"].far # "closed" /\ pipe[v]["L"].near # "closed"
    BY <1>1, <2>1, Zenon DEF Linked, AtNpcEnd, AtNpsEnd, TargetRead, LinkRead
  <2> QED
    BY <1>1, <1>2, <2>2, Zenon DEF Linked, AtNpcEnd, AtNpsEnd, WriteFails, Peer, PipeTyped, PipeEnd, Pipe
<1>4. ASSUME j = "npc", d = "fwd" PROVE ~WriteFails(pipe[v]["T"], "near")
  <2>1. pipe[v]["T"].far # "closed"
    BY <1>1, <1>4, AllArrived, Zenon
  <2>2. pipe[v]["L"].far # "closed" /\ npc[v] = "copy"
    BY <1>1, <1>4, <2>1, Zenon DEF Linked, AtNpcEnd, TargetRead
  <2> QED
    BY <1>1, <1>2, <2>1, <2>2, Zenon DEF Linked, AtTargetEnd, AtNpcEnd, WriteFails, Peer, PipeTyped, PipeEnd, Pipe
<1>5. ASSUME j = "nps", d = "bwd" PROVE ~WriteFails(pipe[v]["U"], "far")
  <2>1. pipe[v]["U"].far # "closed" /\ pipe[v]["U"].near # "closed"
    BY <1>1, <1>5, ZenonT(30) DEF Linked, AtNpsEnd, InOrder, Pre
  <2> QED
    BY <1>1, <1>2, <2>1, Zenon DEF Linked, AtNpsEnd, WriteFails, Peer, PipeTyped, PipeEnd, Pipe
<1>6. ASSUME j = "npc", d = "bwd" PROVE ~WriteFails(pipe[v]["L"], "far")
  <2>1. pipe[v]["L"].far # "closed" /\ pipe[v]["L"].near # "closed"
    BY <1>1, <1>6, ZenonT(30) DEF Linked, AtNpcEnd, AtNpsEnd, LinkRead
  <2> QED
    BY <1>1, <1>2, <2>1, ZenonT(30) DEF Linked, AtNpcEnd, AtNpsEnd, WriteFails, Peer, PipeTyped, PipeEnd, Pipe
<1> QED
  BY <1>3, <1>4, <1>5, <1>6, SrcDst, Zenon DEF Joint, Dir

\* One chunk more or less in a pipe.
LEMMA ChunkMoves ==
    ASSUME ProxyTypes, NEW v \in Visitor, NEW p \in Pipe, NEW d \in Dir, NEW y, pipe' = [pipe EXCEPT ![v][p] = y]
    PROVE  /\ y = [pipe[v][p] EXCEPT ![d] = pipe[v][p][d] - 1] => Chunk(v, p, d, -1)
           /\ y = [pipe[v][p] EXCEPT ![d] = pipe[v][p][d] + 1] => Chunk(v, p, d, 1)
<1>1. pipe[v][p] \in PipeType
  BY DEF ProxyTypes
<1>2. pipe[v][p][d] \in Nat /\ pipe[v][p][d] - 1 = pipe[v][p][d] + (-1)
  BY <1>1, Zenon DEF PipeType, Dir
<1>3. ASSUME NEW k, y = [pipe[v][p] EXCEPT ![d] = k]
      PROVE  /\ y[d] = k /\ y[Other(d)] = pipe[v][p][Other(d)] /\ y.near = pipe[v][p].near /\ y.far = pipe[v][p].far
  BY <1>1, <1>3, Zenon DEF PipeType, Dir, Other
<1>4. pipe'[v][p] = y /\ \A q \in Pipe \ {p} : pipe'[v][q] = pipe[v][q]
  BY Zenon DEF ProxyTypes
<1>5. SamePipes(v, Pipe \ {p})
  BY <1>4, Zenon DEF SamePipes
<1>6. PICK m, n : m = pipe[v][p][d] - 1 /\ n = pipe[v][p][d] + 1
  BY Zenon
<1>7. y = [pipe[v][p] EXCEPT ![d] = m] => Chunk(v, p, d, -1)
  BY <1>2, <1>3, <1>4, <1>5, <1>6, ZenonT(30) DEF Chunk
<1>8. y = [pipe[v][p] EXCEPT ![d] = n] => Chunk(v, p, d, 1)
  BY <1>3, <1>4, <1>5, <1>6, Zenon DEF Chunk
<1> QED
  BY <1>6, <1>7, <1>8, Zenon

\* What CopyRead and CopyWrite do to a copy and to a pipe, part by part.
LEMMA CopyReads ==
    ASSUME ProxyTypes, NEW v \in Visitor, NEW j \in Joint, NEW d \in Dir, NEW p, NEW e, p = Src(j, d)[1], e = Src(j, d)[2],
           CopyRead(v, j, d), ~(ReadFails(pipe[v][p], e) /\ CopyTo(v, j, d, "close") /\ UNCHANGED pipe)
    PROVE  /\ CopyGoes(v, j, d, "write") /\ Chunk(v, p, d, -1) /\ pipe[v][p][e] = "open" /\ pipe[v][p][d] > 0
           /\ cp'[v][j][d].eof => pipe[v][p][d] = 1 /\ pipe[v][p][Peer(e)] # "open"
<1>1. p \in Pipe /\ To(e) = d
  BY Zenon DEF Src, Dst, Joint, Dir, Pipe, To, Other
<1>2. UNCHANGED <<setup, h, npc, user, tgt>>
  BY Zenon DEF CopyRead
<1>4. /\ HasData(pipe[v][p], e)
      /\ \E eof \in {FALSE, pipe[v][p][To(e)] = 1 /\ pipe[v][p][Peer(e)] # "open"} :
            cp' = [cp EXCEPT ![v][j][d] = [@ EXCEPT !.pc = "write", !.eof = eof]]
      /\ pipe' = [pipe EXCEPT ![v][p][To(e)] = @ - 1]
  BY Zenon DEF CopyRead
<1>5. PICK eof \in {FALSE, pipe[v][p][To(e)] = 1 /\ pipe[v][p][Peer(e)] # "open"} :
            cp' = [cp EXCEPT ![v][j][d] = [@ EXCEPT !.pc = "write", !.eof = eof]]
  BY <1>4, Zenon
<1> DEFINE x == [cp[v][j][d] EXCEPT !.pc = "write", !.eof = eof]
<1>6. cp[v][j][d] \in CopyType
  BY DEF ProxyTypes
<1>7. x.pc = "write" /\ x.eof = eof
  BY <1>6, Zenon DEF CopyType
<1>8. cp' = [cp EXCEPT ![v][j][d] = x]
  BY <1>5, Zenon
<1> HIDE DEF x
<1>9. cp'[v][j][d] = x /\ \A k \in Joint, f \in Dir : k # j \/ f # d => cp'[v][k][f] = cp[v][k][f]
  BY <1>8 DEF ProxyTypes
<1>10. CopyGoes(v, j, d, "write")
  BY <1>2, <1>7, <1>9, Zenon DEF CopyGoes
<1>11. PICK y : y = [pipe[v][p] EXCEPT ![d] = pipe[v][p][d] - 1]
  BY Zenon
<1>12. pipe' = [pipe EXCEPT ![v][p] = y]
  BY <1>1, <1>4, <1>11, Zenon
<1>13. Chunk(v, p, d, -1)
  BY <1>1, <1>11, <1>12, ChunkMoves, ZenonT(30)
<1> QED
  BY <1>1, <1>4, <1>5, <1>7, <1>9, <1>10, <1>13, ZenonT(30) DEF HasData

\* What CopyWrite does when it does not fail.
LEMMA CopyWrites ==
    ASSUME ProxyTypes, NEW v \in Visitor, NEW j \in Joint, NEW d \in Dir, NEW p, NEW e, p = Dst(j, d)[1], e = Dst(j, d)[2],
           CopyWrite(v, j, d), ~WriteFails(pipe[v][p], e)
    PROVE  /\ Chunk(v, p, d, 1) /\ cp'[v][j][d].eof = cp[v][j][d].eof
           /\ j = "nps" => CopyGoes(v, j, d, "task")
           /\ j # "nps" => CopyGoes(v, j, d, IF cp[v][j][d].eof THEN "close" ELSE "read")
<1>1. p \in Pipe /\ To(Peer(e)) = d
  BY Zenon DEF Src, Dst, Joint, Dir, Pipe, To, Other, Peer
<1>2. UNCHANGED <<setup, h, npc, user, tgt>>
  BY Zenon DEF CopyWrite
<1>3. /\ pipe' = [pipe EXCEPT ![v][p][To(Peer(e))] = @ + 1]
      /\ IF j = "nps" THEN cp' = [cp EXCEPT ![v][j][d] = [@ EXCEPT !.pc = "task", !.n = cp[v][j][d].n + 1]]
                      ELSE cp' = [cp EXCEPT ![v][j][d] = [@ EXCEPT !.pc = IF cp[v][j][d].eof THEN "close" ELSE "read"]]
  BY Zenon DEF CopyWrite
<1>4. PICK y : y = [pipe[v][p] EXCEPT ![d] = pipe[v][p][d] + 1]
  BY Zenon
<1>5. pipe' = [pipe EXCEPT ![v][p] = y]
  BY <1>1, <1>3, <1>4, Zenon
<1>6. Chunk(v, p, d, 1)
  BY <1>1, <1>4, <1>5, ChunkMoves, ZenonT(30)
<1>7. cp[v][j][d] \in CopyType
  BY DEF ProxyTypes
<1>8. CASE j = "nps"
  <2> DEFINE x == [cp[v][j][d] EXCEPT !.pc = "task", !.n = cp[v][j][d].n + 1]
  <2>1. x.pc = "task" /\ x.eof = cp[v][j][d].eof
    BY <1>7, Zenon DEF CopyType
  <2>2. cp' = [cp EXCEPT ![v][j][d] = x]
    BY <1>3, <1>8, Zenon
  <2> HIDE DEF x
  <2>3. cp'[v][j][d] = x /\ \A k \in Joint, f \in Dir : k # j \/ f # d => cp'[v][k][f] = cp[v][k][f]
    BY <2>2 DEF ProxyTypes
  <2> QED
    BY <1>2, <1>6, <1>8, <2>1, <2>3, Zenon DEF CopyGoes
<1>9. CASE j # "nps"
  <2>1. CopyTo(v, j, d, IF cp[v][j][d].eof THEN "close" ELSE "read")
    BY <1>3, <1>9, Zenon DEF CopyTo
  <2> QED
    BY <1>2, <1>6, <1>9, <2>1, CopyToGoes, Zenon
<1> QED
  BY <1>8, <1>9, Zenon

\* Reads and writes keep the order.
LEMMA CopyReadInOrder == ASSUME NEW v \in Visitor, Pre(v), NEW j \in Joint, NEW d \in Dir, CopyRead(v, j, d) PROVE InOrder(v)'
<1>0. cp[v][j][d].pc = "read" /\ UNCHANGED <<setup, h, npc, user, tgt>> /\ ProxyTypes
  BY Zenon DEF CopyRead, Pre
<1>1. PICK p, e : p = Src(j, d)[1] /\ e = Src(j, d)[2]
  BY Zenon
<1>2. CASE ReadFails(pipe[v][p], e) /\ CopyTo(v, j, d, "close") /\ UNCHANGED pipe
  BY <1>0, <1>1, <1>2, ReadErrorInOrder, Zenon
<1>3. CASE ~(ReadFails(pipe[v][p], e) /\ CopyTo(v, j, d, "close") /\ UNCHANGED pipe)
  <2>1. /\ CopyGoes(v, j, d, "write") /\ Chunk(v, p, d, -1) /\ pipe[v][p][e] = "open" /\ pipe[v][p][d] > 0
        /\ cp'[v][j][d].eof => pipe[v][p][d] = 1 /\ pipe[v][p][Peer(e)] # "open"
    BY <1>0, <1>1, <1>3, CopyReads
  <2>2. CASE j = "nps" /\ d = "fwd"
    BY <1>0, <1>1, <2>1, <2>2, SrcDst, ReadAtNpsFwd, Zenon DEF Peer
  <2>3. CASE j = "nps" /\ d = "bwd"
    BY <1>0, <1>1, <2>1, <2>3, SrcDst, ReadAtNpsBwd, Zenon DEF Peer
  <2>4. CASE j = "npc" /\ d = "fwd"
    BY <1>0, <1>1, <2>1, <2>4, SrcDst, ReadAtNpcFwd, Zenon DEF Peer
  <2>5. CASE j = "npc" /\ d = "bwd"
    BY <1>0, <1>1, <2>1, <2>5, SrcDst, ReadAtNpcBwd DEF Peer
  <2> QED
    BY <2>2, <2>3, <2>4, <2>5, Zenon DEF Joint, Dir
<1> QED
  BY <1>2, <1>3, Zenon

LEMMA CopyWriteInOrder == ASSUME NEW v \in Visitor, Pre(v), NEW j \in Joint, NEW d \in Dir, CopyWrite(v, j, d) PROVE InOrder(v)'
<1>0. cp[v][j][d].pc = "write" /\ UNCHANGED <<setup, h, npc, user, tgt>> /\ ProxyTypes
  BY Zenon DEF CopyWrite, Pre
<1>1. PICK p, e : p = Dst(j, d)[1] /\ e = Dst(j, d)[2]
  BY Zenon
<1>2. ~WriteFails(pipe[v][p], e)
  BY <1>0, <1>1, WriteNeverFails, Zenon
<1>3. /\ Chunk(v, p, d, 1) /\ cp'[v][j][d].eof = cp[v][j][d].eof
      /\ j = "nps" => CopyGoes(v, j, d, "task")
      /\ j # "nps" => CopyGoes(v, j, d, IF cp[v][j][d].eof THEN "close" ELSE "read")
  BY <1>0, <1>1, <1>2, CopyWrites, Zenon
<1>4. PICK l : l = IF cp[v][j][d].eof THEN "close" ELSE "read"
  BY Zenon
<1>5. CASE j = "nps" /\ d = "fwd"
  BY <1>0, <1>1, <1>3, <1>5, SrcDst, WriteAtNpsFwd, Zenon
<1>6. CASE j = "nps" /\ d = "bwd"
  BY <1>0, <1>1, <1>3, <1>6, SrcDst, WriteAtNpsBwd, Zenon
<1>7. CASE j = "npc" /\ d = "fwd"
  BY <1>0, <1>1, <1>3, <1>4, <1>7, SrcDst, WriteAtNpcFwd, Zenon
<1>8. CASE j = "npc" /\ d = "bwd"
  BY <1>0, <1>1, <1>2, <1>3, <1>4, <1>8, SrcDst, WriteAtNpcBwd, Zenon DEF WriteFails
<1> QED
  BY <1>5, <1>6, <1>7, <1>8, Zenon DEF Joint, Dir

-----------------------------------------------------------------------------
(* A direction that is over *)

\* A copy that ends closes both connections of its joint, and nothing is lost in
\* them.
LEMMA ClosesAtNpsInOrder ==
    ASSUME NEW v \in Visitor, Pre(v), NEW d \in Dir, cp[v]["nps"][d].pc = "close", CopyGoes(v, "nps", d, "done"),
           ClosedFar(pipe[v]["U"], pipe'[v]["U"]), ClosedNear(pipe[v]["L"], pipe'[v]["L"]), pipe'[v]["T"] = pipe[v]["T"]
    PROVE  InOrder(v)'
<1>1. npc[v] # "none" /\ Linked(v) /\ h[v] = "copy"
  BY CopyIsLinked, Zenon DEF Joint
<1>2. ConnTyped(v)
  BY Typed, Zenon DEF Pre
<1>3. LinkRead(v)
  BY <1>1, Zenon DEF Linked, AtNpsEnd, Dir
<1>4. pipe[v]["T"].far = "closed"
  BY <1>1, <1>3, Zenon DEF Linked, AtNpcEnd, LinkRead, TargetRead
<1>5. pipe[v]["U"].fwd = 0
  BY <1>1, <1>4, AllArrived, Zenon
<1>6. pipe[v]["U"].far \in {"open", "closed"} /\ pipe[v]["L"].near = pipe[v]["U"].far /\ pipe[v]["L"].bwd = 0 /\ pipe[v]["L"].far = "closed"
  BY <1>1, <1>2, <1>3, Zenon DEF Linked, AtNpsEnd, LinkRead, ConnTyped, PipeTyped, PipeEnd, Pipe
<1>7. /\ pipe'[v]["U"].far = "closed" /\ pipe'[v]["U"].near = pipe[v]["U"].near /\ pipe'[v]["U"].fwd = pipe[v]["U"].fwd /\ pipe'[v]["U"].bwd = pipe[v]["U"].bwd
      /\ pipe'[v]["L"].near = "closed" /\ pipe'[v]["L"].far = pipe[v]["L"].far /\ pipe'[v]["L"].fwd = pipe[v]["L"].fwd /\ pipe'[v]["L"].bwd = pipe[v]["L"].bwd
  BY <1>5, <1>6, Zenon DEF ClosedFar, ClosedNear
<1>8. AtTargetEnd(v)'
  BY <1>1, <1>7, TargetEndKept, Zenon DEF Linked, CopyGoes, SamePipes
<1>9. AtNpcEnd(v)'
  BY <1>1, <1>7, NpcEndKept, ZenonT(30) DEF Linked, CopyGoes, TargetRead, Joint, Dir
<1>10. AtNpsEnd(v)'
  <2>1. LinkRead(v)'
    BY <1>6, <1>7, Zenon DEF LinkRead
  <2>2. \A e \in Dir : cp'[v]["nps"][e].pc \in {cp[v]["nps"][e].pc, "done"} /\ (cp'[v]["nps"][e].pc # "done" => cp'[v]["nps"][e] = cp[v]["nps"][e])
    BY Zenon DEF CopyGoes, Joint
  <2>3. cp'[v]["nps"]["bwd"].pc # "write"
    <3>1. CASE d = "bwd"
      BY <3>1, Zenon DEF CopyGoes
    <3>2. CASE d = "fwd"
      <4>1. pipe[v]["U"].far = "closed"
        BY <1>1, <3>2, Zenon DEF Linked, AtNpsEnd
      <4>2. cp'[v]["nps"]["bwd"] = cp[v]["nps"]["bwd"]
        BY <3>2, Zenon DEF CopyGoes, Joint, Dir
      <4> QED
        BY <1>1, <4>1, <4>2, Zenon DEF Linked, AtNpsEnd
    <3> QED
      BY <3>1, <3>2, Zenon DEF Dir
  <2>4. h'[v] = "copy"
    BY <1>1, Zenon DEF CopyGoes
  <2> QED
    BY <1>1, <1>7, <2>1, <2>2, <2>3, <2>4, ZenonT(30) DEF Linked, AtNpsEnd, Dir
<1>11. NothingLost(v)'
  <2>1. \A k \in Joint, e \in Dir : InHand(v, k, e)' = InHand(v, k, e)
    BY Zenon DEF CopyGoes, InHand
  <2> QED
    BY <1>1, <1>7, <2>1, ZenonT(30) DEF NothingLost, Linked, CopyGoes, Joint, Dir
<1> QED
  BY <1>1, <1>7, <1>8, <1>9, <1>10, <1>11, Zenon DEF InOrder, Linked, CopyGoes, Pre

LEMMA ClosesAtNpcInOrder ==
    ASSUME NEW v \in Visitor, Pre(v), NEW d \in Dir, cp[v]["npc"][d].pc = "close", CopyGoes(v, "npc", d, "done"),
           pipe'[v]["U"] = pipe[v]["U"], ClosedFar(pipe[v]["L"], pipe'[v]["L"]), ClosedNear(pipe[v]["T"], pipe'[v]["T"])
    PROVE  InOrder(v)'
<1>1. npc[v] = "copy" /\ Linked(v)
  BY CopyIsLinked, Zenon DEF Joint
<1>2. ConnTyped(v)
  BY Typed, Zenon DEF Pre
<1>3. TargetRead(v)
  BY <1>1, Zenon DEF Linked, AtNpcEnd, Dir
<1>5. pipe[v]["L"].fwd = 0
  BY <1>1, <1>3, AllArrived, Zenon DEF TargetRead
<1>6. pipe[v]["L"].far \in {"open", "closed"} /\ pipe[v]["T"].near = pipe[v]["L"].far /\ pipe[v]["T"].bwd = 0 /\ pipe[v]["T"].far = "closed"
  BY <1>1, <1>2, <1>3, Zenon DEF Linked, AtNpcEnd, AtTargetEnd, TargetRead, ConnTyped, PipeTyped, PipeEnd, Pipe
<1>7. /\ pipe'[v]["L"].far = "closed" /\ pipe'[v]["L"].near = pipe[v]["L"].near /\ pipe'[v]["L"].fwd = pipe[v]["L"].fwd /\ pipe'[v]["L"].bwd = pipe[v]["L"].bwd
      /\ pipe'[v]["T"].near = "closed" /\ pipe'[v]["T"].far = pipe[v]["T"].far /\ pipe'[v]["T"].fwd = pipe[v]["T"].fwd /\ pipe'[v]["T"].bwd = pipe[v]["T"].bwd
  BY <1>5, <1>6, Zenon DEF ClosedFar, ClosedNear
<1>8. AtTargetEnd(v)'
  BY <1>1, <1>7, Zenon DEF Linked, CopyGoes, AtTargetEnd
<1>9. AtNpcEnd(v)'
  <2>1. TargetRead(v)'
    BY <1>6, <1>7, Zenon DEF TargetRead
  <2>2. \A e \in Dir : cp'[v]["npc"][e].pc \in {cp[v]["npc"][e].pc, "done"} /\ (cp'[v]["npc"][e].pc # "done" => cp'[v]["npc"][e] = cp[v]["npc"][e])
    BY Zenon DEF CopyGoes, Joint
  <2>3. cp'[v]["npc"]["bwd"].pc # "write"
    <3>1. CASE d = "bwd"
      BY <3>1, Zenon DEF CopyGoes
    <3>2. CASE d = "fwd"
      <4>1. pipe[v]["L"].far = "closed"
        BY <1>1, <3>2, Zenon DEF Linked, AtNpcEnd
      <4>2. cp'[v]["npc"]["bwd"] = cp[v]["npc"]["bwd"]
        BY <3>2, Zenon DEF CopyGoes, Joint, Dir
      <4> QED
        BY <1>1, <4>1, <4>2, Zenon DEF Linked, AtNpcEnd
    <3> QED
      BY <3>1, <3>2, Zenon DEF Dir
  <2>4. npc'[v] = "copy"
    BY <1>1, Zenon DEF CopyGoes
  <2> QED
    BY <1>1, <1>7, <2>1, <2>2, <2>3, <2>4, ZenonT(30) DEF Linked, AtNpcEnd, Dir
<1>10. AtNpsEnd(v)'
  BY <1>1, <1>7, NpsEndKept, ZenonT(30) DEF Linked, CopyGoes, LinkRead, Joint, Dir
<1>11. NothingLost(v)'
  <2>1. \A k \in Joint, e \in Dir : InHand(v, k, e)' = InHand(v, k, e)
    BY Zenon DEF CopyGoes, InHand
  <2> QED
    BY <1>1, <1>7, <2>1, Zenon DEF NothingLost, Linked, CopyGoes, Joint, Dir
<1> QED
  BY <1>1, <1>7, <1>8, <1>9, <1>10, <1>11, Zenon DEF InOrder, Linked, CopyGoes, Pre

LEMMA copyConnGroupInOrder == ASSUME NEW v \in Visitor, Pre(v), NEW j \in Joint, NEW d \in Dir, copyConnGroup(v, j, d) PROVE InOrder(v)'
<1>1. /\ cp[v][j][d].pc = "close" /\ CopyTo(v, j, d, "done") /\ UNCHANGED <<setup, h, npc, user, tgt>> /\ ProxyTypes
      /\ pipe' = [pipe EXCEPT ![v] = CloseBoth(@, j)]
  BY Zenon DEF copyConnGroup, Pre
<1>2. CopyGoes(v, j, d, "done")
  BY <1>1, CopyToGoes, Zenon
<1>3. CASE j = "nps"
  BY <1>1, <1>2, <1>3, ClosedAtNps, ClosesAtNpsInOrder, ZenonT(30)
<1>4. CASE j = "npc"
  BY <1>1, <1>2, <1>4, ClosedAtNpc, ClosesAtNpcInOrder, ZenonT(30)
<1> QED
  BY <1>3, <1>4, Zenon DEF Joint

\* Every step of a copy keeps the order.
LEMMA CopyInOrder == ASSUME NEW v \in Visitor, Pre(v), NEW j \in Joint, NEW d \in Dir, Copy(v, j, d) PROVE InOrder(v)'
  BY CopyStartInOrder, CopyReadInOrder, CopyWriteInOrder, CopyTaskInOrder, CopyClientInOrder, copyConnGroupInOrder, Zenon DEF Copy

-----------------------------------------------------------------------------
(* The user and the target *)

\* A step of the user or of the target moves a chunk and closes nothing.
EndMoves(v) ==
    /\ setup' = setup /\ h'[v] = h[v] /\ npc'[v] = npc[v] /\ cp'[v] = cp[v] /\ pipe'[v]["L"] = pipe[v]["L"]
    /\ \A p \in {"U", "T"} : pipe'[v][p].near = pipe[v][p].near /\ pipe'[v][p].far = pipe[v][p].far

\* User and target move data at the ends only.
LEMMA EndMovesLinked ==
    ASSUME NEW v \in Visitor, Linked(v), EndMoves(v), npc[v] = "info" => SamePipes(v, {"T"}),
           pipe[v]["T"].far = "closed" => tgt'[v].got = tgt[v].got /\ pipe'[v]["T"].bwd = pipe[v]["T"].bwd, NothingLost(v)'
    PROVE  Linked(v)'
<1>1. AtTargetEnd(v)'
  BY Zenon DEF Linked, AtTargetEnd, EndMoves, SamePipes, NoneYet
<1>2. AtNpcEnd(v)'
  BY NpcEndKept, Zenon DEF Linked, EndMoves, TargetRead
<1>3. AtNpsEnd(v)'
  BY NpsEndKept, Zenon DEF Linked, EndMoves, LinkRead
<1> QED
  BY <1>1, <1>2, <1>3, Zenon DEF Linked

\* They leave the copies alone.
LEMMA SameHands == ASSUME NEW v \in Visitor, cp'[v] = cp[v]
                   PROVE  /\ InHand(v, "nps", "fwd")' = InHand(v, "nps", "fwd") /\ InHand(v, "nps", "bwd")' = InHand(v, "nps", "bwd")
                          /\ InHand(v, "npc", "fwd")' = InHand(v, "npc", "fwd") /\ InHand(v, "npc", "bwd")' = InHand(v, "npc", "bwd")
                          /\ InHand(v, "nps", "fwd") \in Nat /\ InHand(v, "nps", "bwd") \in Nat /\ InHand(v, "npc", "fwd") \in Nat /\ InHand(v, "npc", "bwd") \in Nat
  BY Zenon DEF InHand

\* The steps of user and target keep the order.
LEMMA UserSendInOrder == ASSUME NEW v \in Visitor, Pre(v), UserSend(v) PROVE InOrder(v)'
<1>1. /\ user[v].sent < setup.req /\ HasRoom(pipe[v]["U"], "near") /\ UNCHANGED <<setup, h, cp, npc, tgt>>
  BY Zenon DEF UserSend
<1>2. ConnTyped(v) /\ ProxyTypes
  BY Typed, Zenon DEF Pre
<1>3. PICK y : y = [pipe[v]["U"] EXCEPT !["fwd"] = pipe[v]["U"]["fwd"] + 1]
  BY Zenon
<1>4. pipe' = [pipe EXCEPT ![v]["U"] = y]
  BY <1>3, Zenon DEF UserSend
<1>5. Chunk(v, "U", "fwd", 1)
  BY <1>2, <1>3, <1>4, ChunkMoves, ZenonT(30) DEF Pipe, Dir
<1>6. /\ pipe'[v]["U"].near = pipe[v]["U"].near /\ pipe'[v]["U"].far = pipe[v]["U"].far
      /\ pipe'[v]["U"].fwd = pipe[v]["U"].fwd + 1 /\ pipe'[v]["U"].bwd = pipe[v]["U"].bwd
  BY <1>5, Zenon DEF Chunk, Other
<1>7. pipe'[v]["L"] = pipe[v]["L"] /\ pipe'[v]["T"] = pipe[v]["T"]
  BY <1>2, <1>4 DEF ProxyTypes, Pipe
<1>8. user'[v].sent = user[v].sent + 1 /\ user'[v].got = user[v].got
  BY <1>2 DEF UserSend, ProxyTypes, UserType
<1>9. user'[v].sent <= setup'.req
  BY <1>1, <1>2, <1>8 DEF ConnTyped
<1>10. EndMoves(v)
  BY <1>1, <1>6, <1>7, Zenon DEF EndMoves
<1>11. CASE npc[v] = "none"
  <2>1. Unlinked(v) /\ h[v] # "idle"
    BY <1>1, <1>11, ZenonT(30) DEF InOrder, Pre, Unlinked, NoneYet, HasRoom, WriteFails
  <2>2. Unlinked(v)'
    BY <1>1, <1>2, <1>6, <1>7, <1>8, <2>1, ZenonT(30) DEF Unlinked, NoneYet, NotLinkedYet, ConnTyped, PipeTyped, Pipe
  <2> QED
    BY <1>1, <1>6, <1>9, <1>11, <2>2, Zenon DEF InOrder, Pre
<1>12. CASE npc[v] # "none"
  <2>1. Linked(v)
    BY <1>12, Zenon DEF InOrder, Pre
  <2>2. /\ pipe[v]["U"].fwd \in Nat /\ pipe[v]["L"].fwd \in Nat /\ pipe[v]["T"].fwd \in Nat /\ user[v].sent \in Nat /\ tgt[v].got \in Nat
    BY <1>2, Zenon DEF ConnTyped, PipeTyped, Pipe
  <2>3. NothingLost(v)'
    BY <1>1, <1>6, <1>7, <1>8, <2>1, <2>2, SameHands DEF Linked, NothingLost
  <2>4. Linked(v)'
    BY <1>1, <1>7, <1>10, <2>1, <2>3, EndMovesLinked DEF SamePipes
  <2> QED
    BY <1>1, <1>6, <1>9, <1>12, <2>4, ZenonT(30) DEF InOrder, Pre
<1> QED
  BY <1>11, <1>12, Zenon

LEMMA UserRecvInOrder == ASSUME NEW v \in Visitor, Pre(v), UserRecv(v) PROVE InOrder(v)'
<1>1. /\ HasData(pipe[v]["U"], "near") /\ UNCHANGED <<setup, h, cp, npc, tgt>>
  BY Zenon DEF UserRecv
<1>2. ConnTyped(v) /\ ProxyTypes
  BY Typed, Zenon DEF Pre
<1>3. PICK y : y = [pipe[v]["U"] EXCEPT !["bwd"] = pipe[v]["U"]["bwd"] - 1]
  BY Zenon
<1>4. pipe' = [pipe EXCEPT ![v]["U"] = y]
  BY <1>3, Zenon DEF UserRecv
<1>5. Chunk(v, "U", "bwd", -1)
  BY <1>2, <1>3, <1>4, ChunkMoves, ZenonT(30) DEF Pipe, Dir
<1>6. /\ pipe'[v]["U"].near = pipe[v]["U"].near /\ pipe'[v]["U"].far = pipe[v]["U"].far
      /\ pipe'[v]["U"].bwd = pipe[v]["U"].bwd + (-1) /\ pipe'[v]["U"].fwd = pipe[v]["U"].fwd
  BY <1>5, Zenon DEF Chunk, Other
<1>7. pipe'[v]["L"] = pipe[v]["L"] /\ pipe'[v]["T"] = pipe[v]["T"]
  BY <1>2, <1>4, Zenon DEF ProxyTypes, Pipe
<1>8. user'[v].sent = user[v].sent /\ user'[v].got = user[v].got + 1
  BY <1>2 DEF UserRecv, ProxyTypes, UserType
<1>9. EndMoves(v)
  BY <1>1, <1>6, <1>7, Zenon DEF EndMoves
<1>10. npc[v] # "none" /\ Linked(v)
  BY <1>1 DEF InOrder, Pre, Unlinked, HasData, To
<1>11. /\ pipe[v]["U"].bwd \in Nat /\ pipe[v]["L"].bwd \in Nat /\ pipe[v]["T"].bwd \in Nat /\ user[v].got \in Nat /\ tgt[v].sent \in Nat
  BY <1>2, Zenon DEF ConnTyped, PipeTyped, Pipe
<1>12. NothingLost(v)'
  BY <1>1, <1>6, <1>7, <1>8, <1>10, <1>11, SameHands, SMTT(60) DEF Linked, NothingLost
<1>13. Linked(v)'
  BY <1>1, <1>7, <1>9, <1>10, <1>12, EndMovesLinked DEF SamePipes
<1> QED
  BY <1>1, <1>6, <1>8, <1>10, <1>13 DEF InOrder, Pre

LEMMA TargetRecvInOrder == ASSUME NEW v \in Visitor, Pre(v), TargetRecv(v) PROVE InOrder(v)'
<1>1. /\ HasData(pipe[v]["T"], "far") /\ UNCHANGED <<setup, h, cp, npc, user>>
  BY Zenon DEF TargetRecv
<1>2. ConnTyped(v) /\ ProxyTypes
  BY Typed, Zenon DEF Pre
<1>3. PICK y : y = [pipe[v]["T"] EXCEPT !["fwd"] = pipe[v]["T"]["fwd"] - 1]
  BY Zenon
<1>4. pipe' = [pipe EXCEPT ![v]["T"] = y]
  BY <1>3, Zenon DEF TargetRecv
<1>5. Chunk(v, "T", "fwd", -1)
  BY <1>2, <1>3, <1>4, ChunkMoves, ZenonT(30) DEF Pipe, Dir
<1>6. /\ pipe'[v]["T"].near = pipe[v]["T"].near /\ pipe'[v]["T"].far = pipe[v]["T"].far
      /\ pipe'[v]["T"].fwd = pipe[v]["T"].fwd + (-1) /\ pipe'[v]["T"].bwd = pipe[v]["T"].bwd
  BY <1>5, Zenon DEF Chunk, Other
<1>7. pipe'[v]["L"] = pipe[v]["L"] /\ pipe'[v]["U"] = pipe[v]["U"]
  BY <1>2, <1>4 DEF ProxyTypes, Pipe
<1>8. tgt'[v].got = tgt[v].got + 1 /\ tgt'[v].sent = tgt[v].sent
  BY <1>2, Zenon DEF TargetRecv, ProxyTypes
<1>9. EndMoves(v)
  BY <1>1, <1>6, <1>7, Zenon DEF EndMoves
<1>10. npc[v] # "none" /\ Linked(v) /\ pipe[v]["T"].far = "open"
  BY <1>1, Zenon DEF InOrder, Pre, Unlinked, NoneYet, HasData
<1>11. npc[v] # "info"
  BY <1>10 DEF Linked, AtTargetEnd, NoneYet
<1>12. /\ pipe[v]["U"].fwd \in Nat /\ pipe[v]["L"].fwd \in Nat /\ pipe[v]["T"].fwd \in Nat /\ user[v].sent \in Nat /\ tgt[v].got \in Nat
  BY <1>2, Zenon DEF ConnTyped, PipeTyped, Pipe
<1>13. NothingLost(v)'
  BY <1>1, <1>6, <1>7, <1>8, <1>10, <1>12, SameHands, SMTT(60) DEF Linked, NothingLost
<1>14. Linked(v)'
  BY <1>9, <1>10, <1>11, <1>13, EndMovesLinked
<1> QED
  BY <1>1, <1>7, <1>10, <1>14, Zenon DEF InOrder, Pre

LEMMA TargetSendInOrder == ASSUME NEW v \in Visitor, Pre(v), TargetSend(v) PROVE InOrder(v)'
<1>1. /\ HasRoom(pipe[v]["T"], "far") /\ UNCHANGED <<setup, h, cp, npc, user>>
  BY Zenon DEF TargetSend
<1>2. ConnTyped(v) /\ ProxyTypes
  BY Typed, Zenon DEF Pre
<1>3. PICK y : y = [pipe[v]["T"] EXCEPT !["bwd"] = pipe[v]["T"]["bwd"] + 1]
  BY Zenon
<1>4. pipe' = [pipe EXCEPT ![v]["T"] = y]
  BY <1>3, Zenon DEF TargetSend
<1>5. Chunk(v, "T", "bwd", 1)
  BY <1>2, <1>3, <1>4, ChunkMoves, ZenonT(30) DEF Pipe, Dir
<1>6. /\ pipe'[v]["T"].near = pipe[v]["T"].near /\ pipe'[v]["T"].far = pipe[v]["T"].far
      /\ pipe'[v]["T"].bwd = pipe[v]["T"].bwd + 1 /\ pipe'[v]["T"].fwd = pipe[v]["T"].fwd
  BY <1>5, Zenon DEF Chunk, Other
<1>7. pipe'[v]["L"] = pipe[v]["L"] /\ pipe'[v]["U"] = pipe[v]["U"]
  BY <1>2, <1>4, Zenon DEF ProxyTypes, Pipe
<1>8. tgt'[v].sent = tgt[v].sent + 1 /\ tgt'[v].got = tgt[v].got
  BY <1>2, Zenon DEF TargetSend, ProxyTypes
<1>9. EndMoves(v)
  BY <1>1, <1>6, <1>7, Zenon DEF EndMoves
<1>10. npc[v] # "none" /\ Linked(v) /\ pipe[v]["T"].far = "open"
  BY <1>1 DEF InOrder, Pre, Unlinked, NoneYet, HasRoom, WriteFails
<1>11. npc[v] # "info"
  BY <1>10, Zenon DEF Linked, AtTargetEnd, NoneYet
<1>12. /\ pipe[v]["U"].bwd \in Nat /\ pipe[v]["L"].bwd \in Nat /\ pipe[v]["T"].bwd \in Nat /\ user[v].got \in Nat /\ tgt[v].sent \in Nat
  BY <1>2, Zenon DEF ConnTyped, PipeTyped, Pipe
<1>13. NothingLost(v)'
  BY <1>1, <1>6, <1>7, <1>8, <1>10, <1>12, SameHands DEF Linked, NothingLost
<1>14. Linked(v)'
  BY <1>9, <1>10, <1>11, <1>13, EndMovesLinked, Zenon
<1> QED
  BY <1>1, <1>7, <1>10, <1>14, Zenon DEF InOrder, Pre

-----------------------------------------------------------------------------
(* The user and the target close *)

LEMMA UserCloseInOrder == ASSUME NEW v \in Visitor, Pre(v), UserClose(v) PROVE InOrder(v)'
<1>1. /\ pipe[v]["U"].near = "open" /\ ReadFails(pipe[v]["U"], "near") /\ UNCHANGED <<setup, h, cp, npc, user, tgt>>
  BY Zenon DEF UserClose, Pre, Orderly
<1>2. ConnTyped(v) /\ ProxyTypes
  BY Typed, Zenon DEF Pre
<1>3. PICK y : y = CloseEnd(pipe[v]["U"], "near")
  BY Zenon
<1>4. pipe' = [pipe EXCEPT ![v]["U"] = y]
  BY <1>3, Zenon DEF UserClose
<1>5. pipe'[v]["U"] = y /\ pipe'[v]["L"] = pipe[v]["L"] /\ pipe'[v]["T"] = pipe[v]["T"]
  BY <1>2, <1>4 DEF ProxyTypes, Pipe
<1>6. pipe[v]["U"] \in PipeType
  BY <1>2 DEF ProxyTypes, Pipe
<1>7. ClosedNear(pipe[v]["U"], pipe'[v]["U"])
  BY <1>3, <1>5, <1>6, ClosedEnds, Zenon
<1>8. pipe[v]["U"].bwd = 0 /\ pipe[v]["U"].far = "closed"
  BY <1>1, <1>6, Zenon DEF ReadFails, To, Peer, PipeType, PipeEnd, Pre, InOrder
<1>9. /\ pipe'[v]["U"].near = "closed" /\ pipe'[v]["U"].far = pipe[v]["U"].far
      /\ pipe'[v]["U"].fwd = pipe[v]["U"].fwd /\ pipe'[v]["U"].bwd = pipe[v]["U"].bwd
  BY <1>1, <1>7, <1>8, Zenon DEF ClosedNear
<1>10. CASE npc[v] = "none"
  <2>1. Unlinked(v) /\ h[v] # "idle" /\ h[v] \notin NotLinkedYet
    BY <1>1, <1>8, <1>10 DEF InOrder, Pre, Unlinked, NoneYet
  <2>2. Unlinked(v)'
    BY <1>1, <1>5, <1>9, <2>1, Zenon DEF Unlinked, NoneYet
  <2> QED
    BY <1>1, <1>8, <1>9, <1>10, <2>2 DEF InOrder, Pre
<1>11. CASE npc[v] # "none"
  <2>1. Linked(v)
    BY <1>11, Zenon DEF InOrder, Pre
  <2>2. AtTargetEnd(v)'
    BY <1>1, <1>5, <2>1, TargetEndKept, Zenon DEF Linked, SamePipes
  <2>3. AtNpcEnd(v)'
    BY <1>1, <1>5, <2>1, NpcEndKept, Zenon DEF Linked, TargetRead
  <2>4. AtNpsEnd(v)'
    BY <1>1, <1>5, <1>9, <2>1, Zenon DEF Linked, AtNpsEnd, LinkRead
  <2>5. NothingLost(v)'
    BY <1>1, <1>5, <1>9, <2>1, SameHands, ZenonT(30) DEF Linked, NothingLost
  <2> QED
    BY <1>1, <1>8, <1>9, <1>11, <2>2, <2>3, <2>4, <2>5 DEF InOrder, Pre, Linked
<1> QED
  BY <1>10, <1>11, Zenon

\* Numbers that add up to no more than the last of them are 0.
LEMMA NoneOnTheWay == ASSUME NEW a \in Nat, NEW b \in Nat, NEW c \in Nat, NEW d \in Nat, NEW e \in Nat, NEW g \in Nat, a + b + c + d + e + g <= g
                      PROVE  e = 0
  OBVIOUS

\* The target closes once it has sent the response.
LEMMA TargetCloseInOrder == ASSUME NEW v \in Visitor, Pre(v), TargetClose(v) PROVE InOrder(v)'
<1>1. /\ pipe[v]["T"].far = "open" /\ UNCHANGED <<setup, h, cp, npc, user, tgt>>
      /\ ReadFails(pipe[v]["T"], "far") \/ tgt[v].got = setup.req
  BY Zenon DEF TargetClose, Pre, Orderly
<1>2. ConnTyped(v) /\ ProxyTypes
  BY Typed, Zenon DEF Pre
<1>3. npc[v] # "none" /\ Linked(v)
  BY <1>1, ZenonT(30) DEF InOrder, Pre, Unlinked, NoneYet
<1>4. npc[v] # "info" /\ pipe[v]["T"].near = pipe[v]["L"].far
  BY <1>1, <1>3, ZenonT(30) DEF Linked, AtTargetEnd, NoneYet
<1>5. pipe[v]["T"].near = "open"
  BY <1>1, <1>2, <1>3, <1>4, ZenonT(30) DEF Linked, AtNpcEnd, TargetRead, ConnTyped, PipeTyped, PipeEnd, Pipe
<1>6. tgt[v].got = setup.req
  BY <1>1, <1>5, ZenonT(30) DEF ReadFails, Peer
<1>7. pipe[v]["T"].fwd = 0
  <2>1. /\ pipe[v]["U"].fwd \in Nat /\ pipe[v]["L"].fwd \in Nat /\ pipe[v]["T"].fwd \in Nat
        /\ user[v].sent \in Nat /\ tgt[v].got \in Nat /\ setup.req \in Nat
    BY <1>2, Zenon DEF ConnTyped, PipeTyped, Pipe
  <2>2. user[v].sent <= setup.req
    BY Zenon DEF InOrder, Pre
  <2>3. user[v].sent = pipe[v]["U"].fwd + InHand(v, "nps", "fwd") + pipe[v]["L"].fwd + InHand(v, "npc", "fwd") + pipe[v]["T"].fwd + tgt[v].got
    BY <1>3, Zenon DEF NothingLost, Linked
  <2>4. InHand(v, "nps", "fwd") \in Nat /\ InHand(v, "npc", "fwd") \in Nat
    BY Zenon DEF InHand
  <2> QED
    BY <1>6, <2>1, <2>2, <2>3, <2>4, NoneOnTheWay, SMTT(60)
<1>8. PICK y : y = CloseEnd(pipe[v]["T"], "far")
  BY Zenon
<1>9. pipe' = [pipe EXCEPT ![v]["T"] = y]
  BY <1>8, Zenon DEF TargetClose
<1>10. pipe'[v]["T"] = y /\ pipe'[v]["L"] = pipe[v]["L"] /\ pipe'[v]["U"] = pipe[v]["U"]
  BY <1>2, <1>9 DEF ProxyTypes, Pipe
<1>11. pipe[v]["T"] \in PipeType
  BY <1>2 DEF ProxyTypes, Pipe
<1>12. ClosedFar(pipe[v]["T"], pipe'[v]["T"])
  BY <1>8, <1>10, <1>11, ClosedEnds, Zenon
<1>13. /\ pipe'[v]["T"].far = "closed" /\ pipe'[v]["T"].near = pipe[v]["T"].near
       /\ pipe'[v]["T"].fwd = pipe[v]["T"].fwd /\ pipe'[v]["T"].bwd = pipe[v]["T"].bwd
  BY <1>1, <1>7, <1>12, Zenon DEF ClosedFar
<1>14. AtTargetEnd(v)'
  BY <1>1, <1>3, <1>4, <1>6, <1>10, <1>13, Zenon DEF Linked, AtTargetEnd
<1>15. AtNpcEnd(v)'
  BY <1>1, <1>3, <1>10, <1>13, NpcEndKept, Zenon DEF Linked, TargetRead
<1>16. AtNpsEnd(v)'
  BY <1>1, <1>3, <1>10, NpsEndKept, Zenon DEF Linked, LinkRead
<1>17. NothingLost(v)'
  BY <1>1, <1>3, <1>10, <1>13, SameHands, Zenon DEF Linked, NothingLost
<1> QED
  BY <1>1, <1>3, <1>10, <1>14, <1>15, <1>16, <1>17, ZenonT(30) DEF InOrder, Pre, Linked

-----------------------------------------------------------------------------
(* All together *)

\* A step of one connection leaves the others as they are.
LEMMA OthersStay ==
    ASSUME ProxyTypes, NEW v \in Visitor,
           \/ Accept(v) \/ Handler(v) \/ AtNpc(v) \/ Ends(v) \/ Closes(v) \/ \E j \in Joint, d \in Dir : Copy(v, j, d)
    PROVE  setup' = setup /\ \A u \in Visitor \ {v} : SameConn(u)
<1> USE DEF ProxyTypes
<1>1. CASE Accept(v)
  BY <1>1, Zenon DEF Accept, Goto, SameConn
<1>2. CASE Handler(v)
  <2>1. setup' = setup /\ tgt' = tgt
    BY <1>2, Zenon DEF Handler, handleConn, HandleSecret, CheckFlowAndConnNum, AddConn, ProcessTunnel, ProcessMix, DealClient, SecretLink, Invoke, copyConns, CutConn, Deleted
  <2>2. \E l : h' = [h EXCEPT ![v] = l]
    BY <1>2, Zenon DEF Handler, handleConn, HandleSecret, CheckFlowAndConnNum, AddConn, ProcessTunnel, ProcessMix, DealClient, SecretLink, Invoke, copyConns, CutConn, Deleted,
                Goto, Return
  <2>3. pipe' = pipe \/ (\E x : pipe' = [pipe EXCEPT ![v] = x]) \/ (\E p \in Pipe : \E x : pipe' = [pipe EXCEPT ![v][p] = x])
    BY <1>2, ZenonT(30) DEF Handler, handleConn, HandleSecret, CheckFlowAndConnNum, AddConn, ProcessTunnel, ProcessMix, DealClient, SecretLink, Invoke, copyConns, CutConn, Deleted,
                Return, Pipe
  <2>4. cp' = cp \/ \E x : cp' = [cp EXCEPT ![v]["nps"] = x]
    BY <1>2, ZenonT(30) DEF Handler, handleConn, HandleSecret, CheckFlowAndConnNum, AddConn, ProcessTunnel, ProcessMix, DealClient, SecretLink, Invoke, copyConns, CutConn, Deleted
  <2>5. npc' = npc \/ npc' = [npc EXCEPT ![v] = "info"]
    BY <1>2, Zenon DEF Handler, handleConn, HandleSecret, CheckFlowAndConnNum, AddConn, ProcessTunnel, ProcessMix, DealClient, SecretLink, Invoke, copyConns, CutConn, Deleted
  <2>6. user' = user \/ \E t : user' = [user EXCEPT ![v].told = t]
    BY <1>2, ZenonT(30) DEF Handler, handleConn, HandleSecret, CheckFlowAndConnNum, AddConn, ProcessTunnel, ProcessMix, DealClient, SecretLink, Invoke, copyConns, CutConn, Deleted
  <2>7. \A u \in Visitor \ {v} : h'[u] = h[u]
    BY <2>2, Zenon
  <2>8. \A u \in Visitor \ {v} : pipe'[u] = pipe[u]
    BY <2>3, Zenon
  <2>9. \A u \in Visitor \ {v} : cp'[u] = cp[u]
    BY <2>4, Zenon
  <2>10. \A u \in Visitor \ {v} : npc'[u] = npc[u] /\ user'[u] = user[u]
    BY <2>5, <2>6, Zenon
  <2> QED
    BY <2>1, <2>7, <2>8, <2>9, <2>10, Zenon DEF SameConn
<1>3. CASE AtNpc(v)
  BY <1>3, Zenon DEF AtNpc, handleChan, InvokeAtNpc, CopyWaitGroup, SameConn
<1>4. CASE Ends(v)
  BY <1>4, Zenon DEF Ends, UserSend, UserRecv, TargetSend, TargetRecv, SameConn
<1>5. CASE Closes(v)
  BY <1>5, Zenon DEF Closes, UserClose, TargetClose, SameConn
<1>6. ASSUME NEW j \in Joint, NEW d \in Dir, Copy(v, j, d) PROVE setup' = setup /\ \A u \in Visitor \ {v} : SameConn(u)
  <2>1. UNCHANGED <<setup, h, npc, user, tgt>>
    BY <1>6, ZenonT(30) DEF Copy, CopyStart, CopyRead, CopyWrite, CopyTask, CopyClient, copyConnGroup
  <2>2. \A u \in Visitor \ {v} : pipe'[u] = pipe[u]
    BY <1>6, ZenonT(30) DEF Copy, CopyStart, CopyRead, CopyWrite, CopyTask, CopyClient, copyConnGroup
  <2>3. \A u \in Visitor \ {v} : cp'[u] = cp[u]
    BY <1>6, ZenonT(30) DEF Copy, CopyStart, CopyRead, CopyWrite, CopyTask, CopyClient, copyConnGroup, CopyTo
  <2> QED
    BY <2>1, <2>2, <2>3, Zenon DEF SameConn
<1> QED
  BY <1>1, <1>2, <1>3, <1>4, <1>5, <1>6, Zenon

\* Every step of a connection keeps its order.
LEMMA ConnInOrder ==
    ASSUME NEW v \in Visitor, Pre(v),
           \/ Accept(v) \/ Handler(v) \/ AtNpc(v) \/ Ends(v) \/ Closes(v) \/ \E j \in Joint, d \in Dir : Copy(v, j, d)
    PROVE  InOrder(v)'
<1>1. CASE Accept(v) \/ Handler(v)
  BY <1>1, AcceptInOrder, MovesInOrder, CheckInOrder, ProcessInOrder, DealInOrder, InvokeInOrder, copyConnsInOrder, EndInOrder, Zenon DEF Handler
<1>2. CASE AtNpc(v)
  BY <1>2, handleChanInOrder, InvokeAtNpcInOrder, CopyWaitGroupInOrder, Zenon DEF AtNpc
<1>3. CASE Ends(v) \/ Closes(v)
  BY <1>3, UserSendInOrder, UserRecvInOrder, TargetSendInOrder, TargetRecvInOrder, UserCloseInOrder, TargetCloseInOrder, Zenon DEF Ends, Closes
<1>4. CASE \E j \in Joint, d \in Dir : Copy(v, j, d)
  BY <1>4, CopyInOrder, Zenon
<1> QED
  BY <1>1, <1>2, <1>3, <1>4, Zenon

\* Every step keeps the invariant.
LEMMA StepData == ASSUME DataInv, [Next]_vars PROVE DataInv'
<1>1. ProxyTypes'
  BY StepProxyTypes, Zenon DEF DataInv
<1>2. ProxyTypes
  BY Zenon DEF DataInv
<1>3. setup' = setup
  <2>1. ASSUME NEW v \in Visitor, \/ Accept(v) \/ Handler(v) \/ AtNpc(v) \/ Ends(v) \/ Closes(v) \/ \E j \in Joint, d \in Dir : Copy(v, j, d)
        PROVE  setup' = setup
    BY <1>2, <2>1, OthersStay, Zenon
  <2> QED
    BY <2>1, Zenon DEF Next, CloseConns, CloseListener, vars
<1>4. ASSUME Orderly', NEW u \in Visitor PROVE InOrder(u)'
  <2>1. Orderly /\ InOrder(u)
    BY <1>3, <1>4, Zenon DEF DataInv, Orderly
  <2>2. Pre(u)
    BY <1>2, <2>1, Zenon DEF Pre
  <2>3. ASSUME NEW v \in Visitor, \/ Accept(v) \/ Handler(v) \/ AtNpc(v) \/ Ends(v) \/ Closes(v) \/ \E j \in Joint, d \in Dir : Copy(v, j, d)
        PROVE  InOrder(u)'
    <3>1. CASE u = v
      BY <2>2, <2>3, <3>1, ConnInOrder, Zenon
    <3>2. CASE u # v
      BY <1>2, <1>3, <2>1, <2>3, <3>2, OthersStay, SameInOrder
    <3> QED
      BY <3>1, <3>2, Zenon
  <2>4. ~CloseConns
    BY <2>1, Zenon DEF CloseConns, Orderly
  <2>5. ASSUME CloseListener \/ UNCHANGED vars PROVE InOrder(u)'
    BY <1>3, <2>1, <2>5, SameInOrder, Zenon DEF CloseListener, vars, SameConn
  <2> QED
    BY <2>3, <2>4, <2>5, Zenon DEF Next
<1> QED
  BY <1>1, <1>4, Zenon DEF DataInv

\* It holds before anyone connects.
LEMMA InitData == Init => DataInv
<1> SUFFICES ASSUME Init PROVE DataInv
  BY Zenon
<1>1. ProxyTypes
  BY InitProxyTypes, Zenon
<1>2. ASSUME NEW v \in Visitor PROVE InOrder(v)
  <2>1. h[v] = "idle" /\ npc[v] = "none" /\ user[v].sent = 0 /\ user[v].got = 0 /\ tgt[v].got = 0 /\ tgt[v].sent = 0
    BY Zenon DEF Init
  <2>2. \A p \in Pipe : pipe[v][p].near = "none" /\ pipe[v][p].far = "none" /\ pipe[v][p].fwd = 0 /\ pipe[v][p].bwd = 0
    BY Zenon DEF Init, NoPipe
  <2>3. \A j \in Joint, d \in Dir : cp[v][j][d].pc = "idle"
    BY Zenon DEF Init, NoCopies, Ready
  <2>4. Unlinked(v)
    BY <2>1, <2>2, <2>3, Zenon DEF Unlinked, NoneYet, NotLinkedYet, Pipe, Joint
  <2>5. setup.req \in Nat
    BY <1>1, Typed, Zenon DEF ConnTyped
  <2> QED
    BY <2>1, <2>2, <2>4, <2>5 DEF InOrder, Pipe
<1> QED
  BY <1>1, <1>2, Zenon DEF DataInv

\* A connection in order that the user has seen closed has brought the whole
\* response.
LEMMA DataArrives == DataInv => ResponseArrives
<1> SUFFICES ASSUME DataInv, NEW v \in Visitor,
                    ~setup.abort, ~setup.refuse, ~setup.close, setup.tlimit + setup.climit = 0,
                    pipe[v]["U"].near = "open", pipe[v]["U"].far = "closed", pipe[v]["U"].bwd = 0
             PROVE  user[v].got = tgt[v].sent
  BY Zenon DEF ResponseArrives
<1>1. ProxyTypes
  BY Zenon DEF DataInv
<1>2. setup.tlimit \in Nat /\ setup.climit \in Nat
  BY <1>1, SetupTypes, Zenon DEF ProxyTypes, SetupType
<1>3. Orderly
  BY <1>2 DEF Orderly
<1>4. InOrder(v) /\ ConnTyped(v)
  BY <1>1, <1>3, Typed, Zenon DEF DataInv
<1>5. CASE npc[v] = "none"
  BY <1>4, <1>5, Zenon DEF InOrder, Unlinked
<1>6. CASE npc[v] # "none"
  <2>1. Linked(v) /\ LinkRead(v) /\ cp[v]["nps"]["bwd"].pc # "write"
    BY <1>4, <1>6, ZenonT(30) DEF InOrder, Linked, AtNpsEnd
  <2>2. TargetRead(v) /\ cp[v]["npc"]["bwd"].pc # "write"
    BY <2>1, ZenonT(30) DEF Linked, AtNpcEnd, LinkRead
  <2>3. InHand(v, "npc", "bwd") = 0 /\ InHand(v, "nps", "bwd") = 0
    BY <2>1, <2>2, Zenon DEF InHand
  <2>4. user[v].got \in Nat
    BY <1>4, Zenon DEF ConnTyped
  <2> QED
    BY <2>1, <2>2, <2>3, <2>4 DEF Linked, NothingLost, LinkRead, TargetRead
<1> QED
  BY <1>5, <1>6, Zenon

\* copyConnGroup and CopyBuffer: if nobody aborts, refuses, stops the task or meets a
\* limit, a user whose connection was closed by nps has received all that the target
\* sent, through four copies with any number of chunks, pipes of any capacity and pools of
\* any size.
THEOREM ResponseComplete == Spec => []ResponseArrives
<1>1. Init => DataInv
  BY InitData, Zenon
<1>2. DataInv /\ [Next]_vars => DataInv'
  BY StepData, Zenon
<1> QED
  BY <1>1, <1>2, DataArrives, PTL DEF Spec
=============================================================================
