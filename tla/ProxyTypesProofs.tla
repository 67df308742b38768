-------------------------- MODULE ProxyTypesProofs --------------------------
(***************************************************************************)
(* What the handlers, the copies and the pipes of the proxy connections    *)
(* hold, for any number of users, any capacity, any size of the pools and  *)
(* any setup: the ground of ProxyProofs and ProxyDataProofs.               *)
(***************************************************************************)
EXTENDS Proxy, TLAPS

\* Where a handler, a copy and an end of a pipe may be, and the records built of
\* them.
HandlerLabels == {"idle", "handle", "secret", "check", "add", "process", "deal", "invoke", "copy",
                  "defer", "gone", "done"}
CopyLabels == {"idle", "queued", "read", "write", "task", "client", "close", "done"}
PipeEnd == {"none", "open", "closed"}

CopyType == [pc : CopyLabels, n : Nat, eof : BOOLEAN]
PipeType == [near : PipeEnd, far : PipeEnd, fwd : Nat, bwd : Nat]
CountType == [in : Nat, out : Nat]
UserType == [ask : Ask \cup {"none"}, told : {"none", "ok", "closed", "refused"}, sent : Nat, got : Nat]

\* The types of what the argument looks at. The pool and what only the user sees are
\* left out.
ProxyTypes ==
    /\ setup \in Setups
    /\ h \in [Visitor -> HandlerLabels]
    /\ now \in [client : Int, task : Int]
    /\ flow \in [client : CountType, task : CountType]
    /\ carried \in CountType
    /\ pipe \in [Visitor -> [Pipe -> PipeType]]
    /\ cp \in [Visitor -> [Joint -> [Dir -> CopyType]]]
    /\ npc \in [Visitor -> {"none", "info", "invoke", "copy", "done"}]
    /\ user \in [Visitor -> UserType]
    /\ tgt \in [Visitor -> [got : Nat, sent : Nat]]

-----------------------------------------------------------------------------
\* A joint copies between ends of pipes.
LEMMA EndsOf == ASSUME NEW j \in Joint, NEW d \in Dir
                PROVE  /\ Src(j, d)[1] \in Pipe /\ Src(j, d)[2] \in {"near", "far"}
                       /\ Dst(j, d)[1] \in Pipe /\ Dst(j, d)[2] \in {"near", "far"}
                       /\ To(Src(j, d)[2]) \in Dir /\ To(Peer(Dst(j, d)[2])) \in Dir
  BY Zenon DEF Joint, Dir, Src, Dst, Other, Pipe, To, Peer

\* Closing ends of pipes gives pipes.
LEMMA CloseEndType == ASSUME NEW p \in PipeType, NEW e \in {"near", "far"} PROVE CloseEnd(p, e) \in PipeType
  BY Zenon DEF CloseEnd, PipeType, PipeEnd, To

\* What a close at either joint does to the pipes.
LEMMA ClosesAt ==
    ASSUME NEW ps \in [Pipe -> PipeType]
    PROVE  /\ CloseBoth(ps, "nps") = [ps EXCEPT !["U"] = CloseEnd(ps["U"], "far"), !["L"] = CloseEnd(ps["L"], "near")]
           /\ CloseBoth(ps, "npc") = [ps EXCEPT !["L"] = CloseEnd(ps["L"], "far"), !["T"] = CloseEnd(ps["T"], "near")]
<1>1. /\ Src("nps", "fwd") = <<"U", "far">> /\ Dst("nps", "fwd") = <<"L", "near">>
      /\ Src("npc", "fwd") = <<"L", "far">> /\ Dst("npc", "fwd") = <<"T", "near">>
  BY Zenon DEF Src, Dst, Other
<1>0. /\ Src("nps", "fwd")[1] = "U" /\ Src("nps", "fwd")[2] = "far" /\ Dst("nps", "fwd")[1] = "L" /\ Dst("nps", "fwd")[2] = "near"
      /\ Src("npc", "fwd")[1] = "L" /\ Src("npc", "fwd")[2] = "far" /\ Dst("npc", "fwd")[1] = "T" /\ Dst("npc", "fwd")[2] = "near"
  BY <1>1
<1>2. CloseBoth(ps, "nps") = [ps EXCEPT !["U"] = CloseEnd(ps["U"], "far"), !["L"] = CloseEnd(ps["L"], "near")]
  BY <1>0, Zenon DEF CloseBoth
<1>3. CloseBoth(ps, "npc") = [ps EXCEPT !["L"] = CloseEnd(ps["L"], "far"), !["T"] = CloseEnd(ps["T"], "near")]
  BY <1>0, Zenon DEF CloseBoth
<1> QED
  BY <1>2, <1>3, Zenon

LEMMA CloseBothType == ASSUME NEW ps \in [Pipe -> PipeType], NEW j \in Joint PROVE CloseBoth(ps, j) \in [Pipe -> PipeType]
<1>1. \A p \in Pipe : \A e \in {"near", "far"} : CloseEnd(ps[p], e) \in PipeType
  BY CloseEndType, Zenon
<1> QED
  BY <1>1, ClosesAt DEF Joint, Pipe

\* New pipes and copies are well typed.
LEMMA NewPipeType == NewPipe \in PipeType /\ NoPipe \in PipeType
  BY Zenon DEF NewPipe, NoPipe, PipeType, PipeEnd

LEMMA ReadyType == /\ Queued \in [Dir -> CopyType] /\ [d \in Dir |-> Ready] \in [Dir -> CopyType] /\ NoCopies \in [Joint -> [Dir -> CopyType]]
  BY ZenonT(30) DEF Queued, Ready, NoCopies, CopyType, CopyLabels

\* The types hold before anyone connects.
LEMMA InitProxyTypes == Init => ProxyTypes
<1> SUFFICES ASSUME Init PROVE ProxyTypes
  BY Zenon
<1> QED
  BY NewPipeType, ReadyType DEF Init, ProxyTypes, HandlerLabels, CountType, UserType

\* One connection's pipes are replaced.
LEMMA PipesType == ASSUME ProxyTypes, NEW v \in Visitor, NEW ps \in [Pipe -> PipeType], pipe' = [pipe EXCEPT ![v] = ps]
                   PROVE  pipe' \in [Visitor -> [Pipe -> PipeType]]
  BY Zenon DEF ProxyTypes

\* Each kind of assignment of Proxy keeps the type of its variable.
LEMMA PipeOneType == ASSUME ProxyTypes, NEW v \in Visitor, NEW p \in Pipe, NEW x \in PipeType, pipe' = [pipe EXCEPT ![v][p] = x]
                   PROVE  pipe' \in [Visitor -> [Pipe -> PipeType]]
  BY Zenon DEF ProxyTypes

LEMMA ReturnType == ASSUME ProxyTypes, NEW v \in Visitor, Return(v)
                    PROVE  /\ pipe' \in [Visitor -> [Pipe -> PipeType]] /\ h' \in [Visitor -> HandlerLabels]
<1>1. CloseBoth(pipe[v], "nps") \in [Pipe -> PipeType]
  BY CloseBothType, Zenon DEF ProxyTypes, Joint
<1>2. pipe' = [pipe EXCEPT ![v] = CloseBoth(pipe[v], "nps")]
  BY Zenon DEF Return
<1>3. pipe' \in [Visitor -> [Pipe -> PipeType]]
  BY <1>1, <1>2, PipesType, ZenonT(30)
<1> QED
  BY <1>3, Zenon DEF Return, Goto, ProxyTypes, HandlerLabels

LEMMA GotoType == ASSUME ProxyTypes, NEW v \in Visitor, NEW l \in HandlerLabels, Goto(v, l) PROVE h' \in [Visitor -> HandlerLabels]
  BY Zenon DEF ProxyTypes, Goto

LEMMA CopyToType == ASSUME ProxyTypes, NEW v \in Visitor, NEW j \in Joint, NEW d \in Dir, NEW x \in CopyType,
                          cp' = [cp EXCEPT ![v][j][d] = x]
                    PROVE cp' \in [Visitor -> [Joint -> [Dir -> CopyType]]]
  BY Zenon DEF ProxyTypes

LEMMA CopyAllType == ASSUME ProxyTypes, NEW v \in Visitor, NEW j \in Joint, NEW x \in [Dir -> CopyType],
                          cp' = [cp EXCEPT ![v][j] = x]
                    PROVE cp' \in [Visitor -> [Joint -> [Dir -> CopyType]]]
  BY Zenon DEF ProxyTypes

LEMMA UserOneType == ASSUME ProxyTypes, NEW v \in Visitor, NEW x \in UserType, user' = [user EXCEPT ![v] = x]
                     PROVE  user' \in [Visitor -> UserType]
  BY Zenon DEF ProxyTypes

LEMMA ToldType == ASSUME ProxyTypes, NEW v \in Visitor, NEW t \in {"none", "ok", "closed", "refused"},
                         user' = [user EXCEPT ![v].told = t]
                 PROVE  user' \in [Visitor -> UserType]
<1> DEFINE x == [user[v] EXCEPT !.told = t]
<1>0. user[v] \in UserType
  BY Zenon DEF ProxyTypes
<1>3. user[v] = [ask |-> user[v].ask, told |-> user[v].told, sent |-> user[v].sent, got |-> user[v].got]
  BY <1>0, Zenon DEF UserType
<1>4. x = [ask |-> user[v].ask, told |-> t, sent |-> user[v].sent, got |-> user[v].got]
  BY <1>3
<1>5. user[v].ask \in Ask \cup {"none"} /\ user[v].sent \in Nat /\ user[v].got \in Nat
  BY <1>0, Zenon DEF UserType
<1> HIDE DEF x
<1>1. x \in UserType
  BY <1>4, <1>5, Zenon DEF UserType
<1> USE DEF x
<1>2. user' = [user EXCEPT ![v] = x]
  BY Zenon
<1> HIDE DEF x
<1> QED
  BY <1>1, <1>2, UserOneType, ZenonT(30)

LEMMA AskType == ASSUME ProxyTypes, NEW v \in Visitor, NEW a \in Ask, user' = [user EXCEPT ![v].ask = a]
                 PROVE  user' \in [Visitor -> UserType]
<1> DEFINE x == [user[v] EXCEPT !.ask = a]
<1>0. user[v] \in UserType
  BY Zenon DEF ProxyTypes
<1>3. user[v] = [ask |-> user[v].ask, told |-> user[v].told, sent |-> user[v].sent, got |-> user[v].got]
  BY <1>0, Zenon DEF UserType
<1>4. x = [ask |-> a, told |-> user[v].told, sent |-> user[v].sent, got |-> user[v].got]
  BY <1>3
<1>5. user[v].told \in {"none", "ok", "closed", "refused"} /\ user[v].sent \in Nat /\ user[v].got \in Nat /\ a \in Ask \cup {"none"}
  BY <1>0, Zenon DEF UserType
<1> HIDE DEF x
<1>1. x \in UserType
  BY <1>4, <1>5, Zenon DEF UserType
<1> USE DEF x
<1>2. user' = [user EXCEPT ![v] = x]
  BY Zenon
<1> HIDE DEF x
<1> QED
  BY <1>1, <1>2, UserOneType, ZenonT(30)

\* A setup is what ProxyAssumption says.
LEMMA SetupTypes == ASSUME setup \in Setups PROVE setup \in SetupType
  BY ProxyAssumption, Zenon

\* The types are kept, action by action.
LEMMA AcceptTypes == ASSUME ProxyTypes, NEW v \in Visitor, Accept(v) PROVE ProxyTypes'
<1>1. pipe' \in [Visitor -> [Pipe -> PipeType]]
  BY PipeOneType, NewPipeType, ZenonT(30) DEF Accept, Pipe
<1>2. h' \in [Visitor -> HandlerLabels]
  BY Zenon DEF Accept, Goto, ProxyTypes, HandlerLabels
<1>3. setup.asks \subseteq Ask
  BY SetupTypes, Zenon DEF ProxyTypes, SetupType
<1>4. \E a \in Ask : user' = [user EXCEPT ![v].ask = a]
  BY <1>3, ZenonT(30) DEF Accept
<1>5. user' \in [Visitor -> UserType]
  BY <1>4, AskType, ZenonT(30)
<1> QED
  BY <1>1, <1>2, <1>5, Zenon DEF Accept, ProxyTypes

LEMMA HandlerTypes == ASSUME ProxyTypes, NEW v \in Visitor, Handler(v) PROVE ProxyTypes'
<1>1. CASE handleConn(v)
  BY <1>1, GotoType, Zenon DEF handleConn, ProxyTypes, HandlerLabels
<1>2. CASE HandleSecret(v)
  <2>1. h' \in [Visitor -> HandlerLabels]
    BY <1>2, GotoType, Zenon DEF HandleSecret, HandlerLabels
  <2>2. now' \in [client : Int, task : Int]
    BY <1>2 DEF HandleSecret, ProxyTypes
  <2> QED
    BY <1>2, <2>1, <2>2, Zenon DEF HandleSecret, ProxyTypes
<1>3. CASE CheckFlowAndConnNum(v)
  <2>1. h' \in [Visitor -> HandlerLabels]
    BY <1>3, ZenonT(30) DEF CheckFlowAndConnNum, HandlerLabels, Goto, ProxyTypes
  <2>2. now' \in [client : Int, task : Int]
    BY <1>3 DEF CheckFlowAndConnNum, ProxyTypes
  <2>3. CloseEnd(pipe[v]["U"], "far") \in PipeType
    BY CloseEndType DEF ProxyTypes, Pipe
  <2>4. pipe' \in [Visitor -> [Pipe -> PipeType]]
    BY <1>3, <2>3, PipeOneType, Zenon DEF CheckFlowAndConnNum, Pipe, ProxyTypes
  <2> QED
    BY <1>3, <2>1, <2>2, <2>4, Zenon DEF CheckFlowAndConnNum, ProxyTypes
<1>4. CASE AddConn(v)
  <2>1. h' \in [Visitor -> HandlerLabels]
    BY <1>4, GotoType, Zenon DEF AddConn, HandlerLabels
  <2>2. now' \in [client : Int, task : Int]
    BY <1>4 DEF AddConn, ProxyTypes
  <2> QED
    BY <1>4, <2>1, <2>2, Zenon DEF AddConn, ProxyTypes
<1>5. CASE ProcessTunnel(v)
  <2>1. CASE Goto(v, "deal") /\ UNCHANGED pipe
    BY <1>5, <2>1, GotoType, Zenon DEF ProcessTunnel, ProxyTypes, HandlerLabels
  <2>2. CASE Return(v)
    BY <1>5, <2>2, ReturnType, Zenon DEF ProcessTunnel, ProxyTypes
  <2> QED
    BY <1>5, <2>1, <2>2, Zenon DEF ProcessTunnel
<1>6. CASE ProcessMix(v)
  <2>1. PICK r \in {Reply(user[v].ask, MixTask)} :
          \/ /\ Goto(v, "deal")
             /\ user' = [user EXCEPT ![v].told = IF MixTask.socks THEN @ ELSE "ok"]
             /\ UNCHANGED pipe
          \/ /\ r # "deal"
             /\ Return(v)
             /\ user' = [user EXCEPT ![v].told = r]
    BY <1>6, Zenon DEF ProcessMix
  <2>2. r \in {"closed", "refused", "deal"}
    BY <2>1, Zenon DEF Reply
  <2>3. user' \in [Visitor -> UserType]
    <3>1. user[v].told \in {"none", "ok", "closed", "refused"}
      BY Zenon DEF ProxyTypes, UserType
    <3>2. \E t \in {"none", "ok", "closed", "refused"} : user' = [user EXCEPT ![v].told = t]
      BY <2>1, <2>2, <3>1, Zenon
    <3> QED
      BY <3>2, ToldType, ZenonT(30)
  <2>4. pipe' \in [Visitor -> [Pipe -> PipeType]] /\ h' \in [Visitor -> HandlerLabels]
    BY <2>1, ReturnType, GotoType, Zenon DEF ProxyTypes, HandlerLabels
  <2> QED
    BY <1>6, <2>3, <2>4, Zenon DEF ProcessMix, ProxyTypes
<1>7. CASE DealClient(v)
  <2>1. CASE /\ npc' = [npc EXCEPT ![v] = "info"]
             /\ pipe' = [pipe EXCEPT ![v]["L"] = NewPipe]
             /\ user' = [user EXCEPT ![v].told = IF task.socks THEN "ok" ELSE @]
             /\ Goto(v, "invoke")
    <3>0. user[v].told \in {"none", "ok", "closed", "refused"}
      BY Zenon DEF ProxyTypes, UserType
    <3>3. \E t \in {"none", "ok", "closed", "refused"} : user' = [user EXCEPT ![v].told = t]
      BY <2>1, <3>0, ZenonT(30)
    <3>1. user' \in [Visitor -> UserType]
      BY <3>3, ToldType, ZenonT(30)
    <3>2. pipe' \in [Visitor -> [Pipe -> PipeType]] /\ h' \in [Visitor -> HandlerLabels]
      BY <2>1, PipeOneType, NewPipeType, GotoType, ZenonT(30) DEF Pipe, HandlerLabels
    <3> QED
      BY <1>7, <2>1, <3>1, <3>2, Zenon DEF DealClient, ProxyTypes
  <2>2. CASE Return(v) /\ UNCHANGED <<npc, user>>
    BY <1>7, <2>2, ReturnType, Zenon DEF DealClient, ProxyTypes
  <2> QED
    BY <1>7, <2>1, <2>2, Zenon DEF DealClient
<1>8. CASE SecretLink(v)
  <2>1. CASE /\ npc' = [npc EXCEPT ![v] = "info"]
             /\ pipe' = [pipe EXCEPT ![v]["L"] = NewPipe]
             /\ user' = [user EXCEPT ![v].told = "ok"]
             /\ Goto(v, "invoke")
    <3>1. user' \in [Visitor -> UserType]
      BY <2>1, ToldType, ZenonT(30)
    <3>2. pipe' \in [Visitor -> [Pipe -> PipeType]] /\ h' \in [Visitor -> HandlerLabels]
      BY <2>1, PipeOneType, NewPipeType, GotoType, ZenonT(30) DEF Pipe, HandlerLabels
    <3> QED
      BY <1>8, <2>1, <3>1, <3>2, Zenon DEF SecretLink, ProxyTypes
  <2>2. CASE /\ npc' = [npc EXCEPT ![v] = "info"]
             /\ pipe' = [pipe EXCEPT ![v] = CloseBoth([pipe[v] EXCEPT !["L"] = NewPipe], "nps")]
             /\ Goto(v, "defer")
             /\ UNCHANGED user
    <3>1. [pipe[v] EXCEPT !["L"] = NewPipe] \in [Pipe -> PipeType]
      BY NewPipeType, ZenonT(30) DEF ProxyTypes
    <3>2. CloseBoth([pipe[v] EXCEPT !["L"] = NewPipe], "nps") \in [Pipe -> PipeType]
      BY <3>1, CloseBothType, Zenon DEF Joint
    <3>3. pipe' \in [Visitor -> [Pipe -> PipeType]] /\ h' \in [Visitor -> HandlerLabels]
      BY <2>2, <3>2, PipesType, GotoType, ZenonT(30) DEF HandlerLabels
    <3> QED
      BY <1>8, <2>2, <3>3, ZenonT(30) DEF SecretLink, ProxyTypes
  <2>3. CASE Return(v) /\ UNCHANGED <<npc, user>>
    BY <1>8, <2>3, ReturnType, Zenon DEF SecretLink, ProxyTypes
  <2> QED
    BY <1>8, <2>1, <2>2, <2>3, Zenon DEF SecretLink
<1>9. CASE Invoke(v)
  <2>1. h' \in [Visitor -> HandlerLabels]
    BY <1>9, GotoType, Zenon DEF Invoke, HandlerLabels
  <2>2. cp' \in [Visitor -> [Joint -> [Dir -> CopyType]]]
    BY <1>9, CopyAllType, ReadyType, ZenonT(30) DEF Invoke, Joint
  <2> QED
    BY <1>9, <2>1, <2>2, Zenon DEF Invoke, ProxyTypes
<1>10. CASE copyConns(v)
  <2>1. pipe' \in [Visitor -> [Pipe -> PipeType]] /\ h' \in [Visitor -> HandlerLabels]
    BY <1>10, ReturnType, Zenon DEF copyConns
  <2>2. cp' \in [Visitor -> [Joint -> [Dir -> CopyType]]]
    BY <1>10, CopyAllType, ReadyType, ZenonT(30) DEF copyConns, Joint
  <2>3. \A d \in Dir : cp[v]["nps"][d].n \in Nat
    BY DEF ProxyTypes, CopyType, Joint
  <2> DEFINE Pos(i) == IF i < 0 THEN 0 ELSE i
             x == [in |-> Pos(flow.task.in - cp[v]["nps"]["bwd"].n), out |-> Pos(flow.task.out - cp[v]["nps"]["fwd"].n)]
  <2>5. x \in CountType
    BY <2>3 DEF ProxyTypes, CountType, Dir
  <2>6. flow' = [flow EXCEPT !.task = x]
    BY <1>10, Zenon DEF copyConns
  <2> HIDE DEF x
  <2>4. flow' \in [client : CountType, task : CountType]
    BY <2>5, <2>6, ZenonT(30) DEF ProxyTypes
  <2> QED
    BY <1>10, <2>1, <2>2, <2>4, Zenon DEF copyConns, ProxyTypes
<1>11. CASE CutConn(v)
  <2>1. h' \in [Visitor -> HandlerLabels]
    BY <1>11, GotoType, Zenon DEF CutConn, HandlerLabels
  <2>2. now' \in [client : Int, task : Int]
    BY <1>11 DEF CutConn, ProxyTypes
  <2> QED
    BY <1>11, <2>1, <2>2, Zenon DEF CutConn, ProxyTypes
<1>12. CASE Deleted(v)
  BY <1>12, GotoType, Zenon DEF Deleted, ProxyTypes, HandlerLabels
<1> QED
  BY <1>1, <1>2, <1>3, <1>4, <1>5, <1>6, <1>7, <1>8, <1>9, <1>10, <1>11, <1>12 DEF Handler

LEMMA AtNpcTypes == ASSUME ProxyTypes, NEW v \in Visitor, AtNpc(v) PROVE ProxyTypes'
<1>1. CASE handleChan(v)
  <2>1. CloseEnd(pipe[v]["L"], "far") \in PipeType
    BY CloseEndType DEF ProxyTypes, Pipe
  <2>2. pipe' \in [Visitor -> [Pipe -> PipeType]]
    BY <1>1, <2>1, PipeOneType, NewPipeType, Zenon DEF handleChan, Pipe
  <2> QED
    BY <1>1, <2>2, ZenonT(30) DEF handleChan, ProxyTypes
<1>2. CASE InvokeAtNpc(v)
  <2>1. cp' \in [Visitor -> [Joint -> [Dir -> CopyType]]]
    BY <1>2, CopyAllType, ReadyType, ZenonT(30) DEF InvokeAtNpc, Joint
  <2> QED
    BY <1>2, <2>1, Zenon DEF InvokeAtNpc, ProxyTypes
<1>3. CASE CopyWaitGroup(v)
  <2>1. cp' \in [Visitor -> [Joint -> [Dir -> CopyType]]]
    BY <1>3, CopyAllType, ReadyType, ZenonT(30) DEF CopyWaitGroup, Joint
  <2>2. CloseBoth(pipe[v], "npc") \in [Pipe -> PipeType]
    BY CloseBothType, Zenon DEF ProxyTypes, Joint
  <2>3. pipe' \in [Visitor -> [Pipe -> PipeType]]
    BY <1>3, <2>2, PipesType, ZenonT(30) DEF CopyWaitGroup
  <2> QED
    BY <1>3, <2>1, <2>3, Zenon DEF CopyWaitGroup, ProxyTypes
<1> QED
  BY <1>1, <1>2, <1>3, Zenon DEF AtNpc

\* The assignments of a copy keep the types.
LEMMA CopyPcType == ASSUME ProxyTypes, NEW v \in Visitor, NEW j \in Joint, NEW d \in Dir, NEW l \in CopyLabels, CopyTo(v, j, d, l)
                    PROVE  cp' \in [Visitor -> [Joint -> [Dir -> CopyType]]]
<1> DEFINE x == [cp[v][j][d] EXCEPT !.pc = l]
<1>1. cp[v][j][d] \in CopyType
  BY DEF ProxyTypes
<1>2. x \in CopyType
  BY <1>1, Zenon DEF CopyType
<1>3. cp' = [cp EXCEPT ![v][j][d] = x]
  BY Zenon DEF CopyTo
<1> HIDE DEF x
<1> QED
  BY <1>2, <1>3, CopyToType, ZenonT(30)

LEMMA PipeCountType ==
    ASSUME ProxyTypes, NEW v \in Visitor, NEW p \in Pipe, NEW d \in Dir, NEW k \in Nat,
           pipe' = [pipe EXCEPT ![v][p][d] = k]
    PROVE  pipe' \in [Visitor -> [Pipe -> PipeType]]
<1> DEFINE x == [pipe[v][p] EXCEPT ![d] = k]
<1>1. pipe[v][p] \in PipeType
  BY DEF ProxyTypes
<1>2. x \in PipeType
  BY <1>1, Zenon DEF PipeType, Dir
<1>3. pipe' = [pipe EXCEPT ![v][p] = x]
  BY Zenon
<1> HIDE DEF x
<1> QED
  BY <1>2, <1>3, PipeOneType, ZenonT(30)

LEMMA CountsNat == ASSUME ProxyTypes, NEW v \in Visitor, NEW p \in Pipe, NEW d \in Dir PROVE pipe[v][p][d] \in Nat
  BY DEF ProxyTypes, PipeType, Dir

LEMMA CopyAnother == ASSUME NEW c \in CopyType, NEW k \in Nat PROVE [c EXCEPT !.pc = "task", !.n = k] \in CopyType
  BY ZenonT(30) DEF CopyType, CopyLabels

\* A copy, the two ends and Close keep the types.
LEMMA CopyTypes == ASSUME ProxyTypes, NEW v \in Visitor, NEW j \in Joint, NEW d \in Dir, Copy(v, j, d) PROVE ProxyTypes'
<1>0. cp[v][j][d] \in CopyType
  BY DEF ProxyTypes
<1>1. CASE CopyStart(v, j, d)
  BY <1>1, CopyPcType, Zenon DEF CopyStart, ProxyTypes, CopyLabels
<1>2. CASE CopyRead(v, j, d)
  <2>1. PICK p, e : p = pipe[v][Src(j, d)[1]] /\ e = Src(j, d)[2]
    BY Zenon
  <2>2. CASE HasData(p, e) /\ (\E eof \in {FALSE, p[To(e)] = 1 /\ p[Peer(e)] # "open"} :
                    cp' = [cp EXCEPT ![v][j][d] = [@ EXCEPT !.pc = "write", !.eof = eof]])
               /\ pipe' = [pipe EXCEPT ![v][Src(j, d)[1]][To(e)] = @ - 1]
    <3>1. PICK eof \in BOOLEAN : cp' = [cp EXCEPT ![v][j][d] = [@ EXCEPT !.pc = "write", !.eof = eof]]
      BY <2>2, ZenonT(30)
    <3> DEFINE x == [cp[v][j][d] EXCEPT !.pc = "write", !.eof = eof]
    <3>2. x \in CopyType
      BY <1>0, <3>1, ZenonT(30) DEF CopyType, CopyLabels
    <3>3. cp' = [cp EXCEPT ![v][j][d] = x]
      BY <3>1, Zenon
    <3> HIDE DEF x
    <3>4. cp' \in [Visitor -> [Joint -> [Dir -> CopyType]]]
      BY <3>2, <3>3, CopyToType, ZenonT(30)
    <3>5. pipe[v][Src(j, d)[1]][To(e)] - 1 \in Nat
      <4>1. To(e) \in Dir /\ Src(j, d)[1] \in Pipe
        BY <2>1, EndsOf, Zenon
      <4>2. pipe[v][Src(j, d)[1]][To(e)] \in Nat
        BY <4>1, CountsNat, Zenon
      <4> QED
        BY <2>1, <2>2, <4>2 DEF HasData
    <3>6. pipe' = [pipe EXCEPT ![v][Src(j, d)[1]][To(e)] = pipe[v][Src(j, d)[1]][To(e)] - 1]
      BY <2>2, Zenon
    <3>7. pipe' \in [Visitor -> [Pipe -> PipeType]]
      BY <2>1, <3>5, <3>6, EndsOf, PipeCountType, ZenonT(30)
    <3> QED
      BY <1>2, <3>4, <3>7, Zenon DEF CopyRead, ProxyTypes
  <2>3. CASE CopyTo(v, j, d, "close") /\ UNCHANGED pipe
    BY <1>2, <2>3, CopyPcType, Zenon DEF CopyRead, ProxyTypes, CopyLabels
  <2> QED
    BY <1>2, <2>1, <2>2, <2>3, Zenon DEF CopyRead
<1>3. CASE CopyWrite(v, j, d)
  <2>1. PICK p, e : p = pipe[v][Dst(j, d)[1]] /\ e = Dst(j, d)[2]
    BY Zenon
  <2>2. CASE CopyTo(v, j, d, "close") /\ UNCHANGED <<pipe, carried>>
    BY <1>3, <2>2, CopyPcType, Zenon DEF CopyWrite, ProxyTypes, CopyLabels
  <2>3. CASE /\ HasRoom(p, e)
             /\ pipe' = [pipe EXCEPT ![v][Dst(j, d)[1]][To(Peer(e))] = @ + 1]
    <3>1. pipe[v][Dst(j, d)[1]][To(Peer(e))] + 1 \in Nat
      <4>1. To(Peer(e)) \in Dir /\ Dst(j, d)[1] \in Pipe
        BY <2>1, EndsOf, Zenon
      <4>2. pipe[v][Dst(j, d)[1]][To(Peer(e))] \in Nat
        BY <4>1, CountsNat, Zenon
      <4> QED
        BY <4>2
    <3>2. pipe' = [pipe EXCEPT ![v][Dst(j, d)[1]][To(Peer(e))] = pipe[v][Dst(j, d)[1]][To(Peer(e))] + 1]
      BY <2>3, Zenon
    <3>3. pipe' \in [Visitor -> [Pipe -> PipeType]]
      BY <2>1, <3>1, <3>2, EndsOf, PipeCountType, ZenonT(30)
    <3>4. carried' \in CountType
      BY <1>3 DEF CopyWrite, ProxyTypes, CountType
    <3> DEFINE x == [cp[v][j][d] EXCEPT !.pc = "task", !.n = cp[v][j][d].n + 1]
    <3>8. cp[v][j][d].n + 1 \in Nat
      BY <1>0 DEF CopyType
    <3>5. x \in CopyType
      BY <1>0, <3>8, CopyAnother, ZenonT(30)
    <3>6. \/ cp' = [cp EXCEPT ![v][j][d] = x]
          \/ CopyTo(v, j, d, "read")
          \/ CopyTo(v, j, d, "close")
      BY <1>3, <2>1, <2>3, ZenonT(30) DEF CopyWrite, CopyTo
    <3> HIDE DEF x
    <3>7. cp' \in [Visitor -> [Joint -> [Dir -> CopyType]]]
      BY <3>5, <3>6, CopyToType, CopyPcType DEF CopyLabels
    <3> QED
      BY <1>3, <3>3, <3>4, <3>7, Zenon DEF CopyWrite, ProxyTypes
  <2> QED
    BY <1>3, <2>1, <2>2, <2>3, Zenon DEF CopyWrite
<1>4. CASE copyConnGroup(v, j, d)
  <2>1. CloseBoth(pipe[v], j) \in [Pipe -> PipeType]
    BY CloseBothType, Zenon DEF ProxyTypes
  <2>2. pipe' \in [Visitor -> [Pipe -> PipeType]]
    BY <1>4, <2>1, PipesType, ZenonT(30) DEF copyConnGroup
  <2>3. cp' \in [Visitor -> [Joint -> [Dir -> CopyType]]]
    BY <1>4, CopyPcType, Zenon DEF copyConnGroup, CopyLabels
  <2> QED
    BY <1>4, <2>2, <2>3, Zenon DEF copyConnGroup, ProxyTypes
<1>5. CASE CopyTask(v, d)
  <2>1. Counted(flow.task) \in CountType
    BY DEF ProxyTypes, CountType, Counted
  <2>2. flow' \in [client : CountType, task : CountType]
    BY <1>5, <2>1, ZenonT(30) DEF CopyTask, ProxyTypes
  <2>3. cp' \in [Visitor -> [Joint -> [Dir -> CopyType]]]
    BY <1>5, CopyPcType, Zenon DEF CopyTask, CopyLabels, Joint
  <2> QED
    BY <1>5, <2>2, <2>3, Zenon DEF CopyTask, ProxyTypes
<1>6. CASE CopyClient(v, d)
  <2>1. Counted(flow.client) \in CountType
    BY DEF ProxyTypes, CountType, Counted
  <2>2. flow' \in [client : CountType, task : CountType]
    BY <1>6, <2>1, ZenonT(30) DEF CopyClient, ProxyTypes
  <2>3. cp' \in [Visitor -> [Joint -> [Dir -> CopyType]]]
    BY <1>6, CopyPcType, Zenon DEF CopyClient, CopyLabels, Joint
  <2> QED
    BY <1>6, <2>2, <2>3, Zenon DEF CopyClient, ProxyTypes
<1> QED
  BY <1>1, <1>2, <1>3, <1>4, <1>5, <1>6, Zenon DEF Copy

LEMMA EndsTypes == ASSUME ProxyTypes, NEW v \in Visitor, Ends(v) \/ Closes(v) PROVE ProxyTypes'
<1>0. /\ \A p \in Pipe : pipe[v][p].fwd \in Nat /\ pipe[v][p].bwd \in Nat
      /\ user[v].sent \in Nat /\ user[v].got \in Nat /\ tgt[v].sent \in Nat /\ tgt[v].got \in Nat
      /\ user[v] \in UserType /\ tgt[v] \in [got : Nat, sent : Nat]
  BY DEF ProxyTypes, PipeType, UserType
<1>1. CASE UserSend(v)
  <2>0. pipe[v]["U"].fwd + 1 \in Nat
    BY <1>0, <1>1 DEF UserSend, Pipe
  <2>1. pipe' = [pipe EXCEPT ![v]["U"]["fwd"] = pipe[v]["U"].fwd + 1]
    BY <1>1, ZenonT(30) DEF UserSend
  <2>2. pipe' \in [Visitor -> [Pipe -> PipeType]]
    BY <2>0, <2>1, PipeCountType, ZenonT(30) DEF Pipe, Dir
  <2> DEFINE x == [user[v] EXCEPT !.sent = user[v].sent + 1]
  <2>3. x \in UserType
    <3>1. user[v].sent + 1 \in Nat
      BY <1>0
    <3> QED
      BY <1>0, <3>1, Zenon DEF UserType
  <2>4. user' = [user EXCEPT ![v] = x]
    BY <1>1, Zenon DEF UserSend
  <2> HIDE DEF x
  <2>5. user' \in [Visitor -> UserType]
    BY <2>3, <2>4, UserOneType, ZenonT(30)
  <2> QED
    BY <1>1, <2>2, <2>5, Zenon DEF UserSend, ProxyTypes
<1>2. CASE UserRecv(v)
  <2>0. pipe[v]["U"].bwd - 1 \in Nat
    BY <1>0, <1>2 DEF UserRecv, Pipe, HasData, To
  <2>1. pipe' = [pipe EXCEPT ![v]["U"]["bwd"] = pipe[v]["U"].bwd - 1]
    BY <1>2, ZenonT(30) DEF UserRecv
  <2>2. pipe' \in [Visitor -> [Pipe -> PipeType]]
    BY <2>0, <2>1, PipeCountType, ZenonT(30) DEF Pipe, Dir
  <2> DEFINE x == [user[v] EXCEPT !.got = user[v].got + 1]
  <2>3. x \in UserType
    <3>1. user[v].got + 1 \in Nat
      BY <1>0
    <3> QED
      BY <1>0, <3>1, Zenon DEF UserType
  <2>4. user' = [user EXCEPT ![v] = x]
    BY <1>2, Zenon DEF UserRecv
  <2> HIDE DEF x
  <2>5. user' \in [Visitor -> UserType]
    BY <2>3, <2>4, UserOneType, ZenonT(30)
  <2> QED
    BY <1>2, <2>2, <2>5, Zenon DEF UserRecv, ProxyTypes
<1>3. CASE TargetRecv(v)
  <2>0. pipe[v]["T"].fwd - 1 \in Nat
    BY <1>0, <1>3 DEF TargetRecv, Pipe, HasData, To
  <2>1. pipe' = [pipe EXCEPT ![v]["T"]["fwd"] = pipe[v]["T"].fwd - 1]
    BY <1>3, ZenonT(30) DEF TargetRecv
  <2>2. pipe' \in [Visitor -> [Pipe -> PipeType]]
    BY <2>0, <2>1, PipeCountType, ZenonT(30) DEF Pipe, Dir
  <2> DEFINE x == [tgt[v] EXCEPT !.got = tgt[v].got + 1]
  <2>4. tgt[v].got + 1 \in Nat
    BY <1>0
  <2>5. x \in [got : Nat, sent : Nat]
    BY <1>0, <2>4, Zenon
  <2>6. tgt' = [tgt EXCEPT ![v] = x]
    BY <1>3, Zenon DEF TargetRecv
  <2> HIDE DEF x
  <2>3. tgt' \in [Visitor -> [got : Nat, sent : Nat]]
    BY <2>5, <2>6, Zenon DEF ProxyTypes
  <2> QED
    BY <1>3, <2>2, <2>3, Zenon DEF TargetRecv, ProxyTypes
<1>4. CASE TargetSend(v)
  <2>0. pipe[v]["T"].bwd + 1 \in Nat
    BY <1>0, <1>4 DEF TargetSend, Pipe
  <2>1. pipe' = [pipe EXCEPT ![v]["T"]["bwd"] = pipe[v]["T"].bwd + 1]
    BY <1>4, ZenonT(30) DEF TargetSend
  <2>2. pipe' \in [Visitor -> [Pipe -> PipeType]]
    BY <2>0, <2>1, PipeCountType, ZenonT(30) DEF Pipe, Dir
  <2> DEFINE x == [tgt[v] EXCEPT !.sent = tgt[v].sent + 1]
  <2>4. tgt[v].sent + 1 \in Nat
    BY <1>0
  <2>5. x \in [got : Nat, sent : Nat]
    BY <1>0, <2>4, Zenon
  <2>6. tgt' = [tgt EXCEPT ![v] = x]
    BY <1>4, Zenon DEF TargetSend
  <2> HIDE DEF x
  <2>3. tgt' \in [Visitor -> [got : Nat, sent : Nat]]
    BY <2>5, <2>6, Zenon DEF ProxyTypes
  <2> QED
    BY <1>4, <2>2, <2>3, Zenon DEF TargetSend, ProxyTypes
<1>5. CASE UserClose(v)
  <2>1. CloseEnd(pipe[v]["U"], "near") \in PipeType
    BY CloseEndType DEF ProxyTypes, Pipe
  <2>2. pipe' \in [Visitor -> [Pipe -> PipeType]]
    BY <1>5, <2>1, PipeOneType, ZenonT(30) DEF UserClose, Pipe
  <2> QED
    BY <1>5, <2>2, Zenon DEF UserClose, ProxyTypes
<1>6. CASE TargetClose(v)
  <2>1. CloseEnd(pipe[v]["T"], "far") \in PipeType
    BY CloseEndType DEF ProxyTypes, Pipe
  <2>2. pipe' \in [Visitor -> [Pipe -> PipeType]]
    BY <1>6, <2>1, PipeOneType, ZenonT(30) DEF TargetClose, Pipe
  <2> QED
    BY <1>6, <2>2, Zenon DEF TargetClose, ProxyTypes
<1> QED
  BY <1>1, <1>2, <1>3, <1>4, <1>5, <1>6, Zenon DEF Ends, Closes

LEMMA CloseTypes == ASSUME ProxyTypes, CloseConns \/ CloseListener PROVE ProxyTypes'
<1>1. CASE CloseConns
  <2>1. \A v \in Visitor : CloseEnd(pipe[v]["U"], "far") \in PipeType
    BY CloseEndType DEF ProxyTypes, Pipe
  <2>2. \A v \in Visitor : [pipe[v] EXCEPT !["U"] = CloseEnd(pipe[v]["U"], "far")] \in [Pipe -> PipeType]
    BY <2>1, ZenonT(30) DEF ProxyTypes
  <2>3. pipe' \in [Visitor -> [Pipe -> PipeType]]
    BY <1>1, <2>2, Zenon DEF CloseConns, ProxyTypes
  <2> QED
    BY <1>1, <2>3, Zenon DEF CloseConns, ProxyTypes
<1>2. CASE CloseListener
  BY <1>2, Zenon DEF CloseListener, ProxyTypes
<1> QED
  BY <1>1, <1>2, Zenon

\* Every step keeps the types.
LEMMA StepProxyTypes == ASSUME ProxyTypes, [Next]_vars PROVE ProxyTypes'
<1>1. CASE UNCHANGED vars
  BY <1>1, Zenon DEF vars, ProxyTypes
<1>2. CASE Next
  BY <1>2, AcceptTypes, HandlerTypes, AtNpcTypes, CopyTypes, EndsTypes, CloseTypes, Zenon DEF Next
<1> QED
  BY <1>1, <1>2, Zenon

-----------------------------------------------------------------------------
(* One copy, and the copies of one joint *)

\* An assignment to one copy leaves the others.
LEMMA OneCopy ==
    ASSUME ProxyTypes, NEW v \in Visitor, NEW j \in Joint, NEW d \in Dir, NEW x, cp' = [cp EXCEPT ![v][j][d] = x]
    PROVE  /\ cp'[v][j][d] = x
           /\ \A u \in Visitor, k \in Joint, e \in Dir : <<u, k, e>> # <<v, j, d>> => cp'[u][k][e] = cp[u][k][e]
           /\ \A u \in Visitor, k \in Joint : u # v \/ k # j => cp'[u][k] = cp[u][k]
  BY DEF ProxyTypes

\* CopyTo moves one copy and leaves what it has counted.
LEMMA CopyToKeeps ==
    ASSUME ProxyTypes, NEW v \in Visitor, NEW j \in Joint, NEW d \in Dir, NEW l, CopyTo(v, j, d, l)
    PROVE  /\ cp'[v][j][d].pc = l /\ cp'[v][j][d].n = cp[v][j][d].n /\ cp'[v][j][d].eof = cp[v][j][d].eof
           /\ \A u \in Visitor, k \in Joint, e \in Dir : <<u, k, e>> # <<v, j, d>> => cp'[u][k][e] = cp[u][k][e]
           /\ \A u \in Visitor, k \in Joint : u # v \/ k # j => cp'[u][k] = cp[u][k]
<1> DEFINE x == [cp[v][j][d] EXCEPT !.pc = l]
<1>1. cp[v][j][d] \in CopyType
  BY DEF ProxyTypes
<1>2. x.pc = l /\ x.n = cp[v][j][d].n /\ x.eof = cp[v][j][d].eof
  BY <1>1, Zenon DEF CopyType
<1>3. cp' = [cp EXCEPT ![v][j][d] = x]
  BY Zenon DEF CopyTo
<1> HIDE DEF x
<1>4. cp'[v][j][d] = x
  BY <1>3 DEF ProxyTypes
<1>5. /\ \A u \in Visitor, k \in Joint, e \in Dir : <<u, k, e>> # <<v, j, d>> => cp'[u][k][e] = cp[u][k][e]
      /\ \A u \in Visitor, k \in Joint : u # v \/ k # j => cp'[u][k] = cp[u][k]
  BY <1>3, OneCopy
<1> QED
  BY <1>2, <1>4, <1>5, Zenon

\* Copies that wait for a worker have counted nothing.
LEMMA ReadyIs == \A d \in Dir : /\ [e \in Dir |-> Ready][d].pc = "idle" /\ [e \in Dir |-> Ready][d].n = 0
                                /\ Queued[d].pc = "queued" /\ Queued[d].n = 0
  BY Zenon DEF Ready, Queued

\* An assignment to the copies of one joint leaves the others.
LEMMA AtJoint == ASSUME ProxyTypes, NEW v \in Visitor, NEW j \in Joint, NEW x, cp' = [cp EXCEPT ![v][j] = x]
                 PROVE  /\ cp'[v][j] = x
                        /\ \A u \in Visitor, k \in Joint : u # v \/ k # j => cp'[u][k] = cp[u][k]
  BY Zenon DEF ProxyTypes
=============================================================================
