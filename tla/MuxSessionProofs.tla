-------------------------- MODULE MuxSessionProofs --------------------------
(* An accepted connection was accepted by the peer, and a close comes after  *)
(* the data: for any number of connections, opened at either end.            *)
EXTENDS MuxSession, TLAPS

-----------------------------------------------------------------------------
(* The inductive invariant                                                   *)

\* The connection is, or has been, in the connMap of end p.
Joined(p, c) == c \in connMap[p] \/ conn[p][c].isClose

\* A packet on its way to p, in the chain of its class.
InNet(p, flag, c) ==
    \E i \in 1 .. Len(net[p][PackClass(flag)]) :
       net[p][PackClass(flag)][i] = [flag |-> flag, c |-> c]

\* The data of c is on its way to p, and no close of c is ahead of it.
DataAhead(p, c) ==
    \E i \in 1 .. Len(net[p].low) :
       /\ net[p].low[i] = [flag |-> "data", c |-> c]
       /\ \A j \in 1 .. i - 1 : net[p].low[j] # [flag |-> "close", c |-> c]

\* Whoever has a connection knows that both ends have put it into their maps,
\* and an ok is on its way, or has arrived, only for one that was handed over.
Opened ==
    /\ \A p \in Peers, c \in Conns :
          /\ conn[p][c].app => Joined(p, c) /\ Joined(Other(p), c)
          /\ InNet(p, "new", c) => Joined(Other(p), c)
          /\ InNet(p, "ok", c) \/ conn[p][c].ok => conn[Other(p)][c].app
    /\ \A p \in Peers : \A i \in 1 .. Len(queue[p]) : Joined(Other(p), queue[p][i])
    /\ \A p \in Peers :
          /\ acc[p].pc \in {"set", "offer", "ok"} =>
                acc[p].c \in Conns /\ Joined(Other(p), acc[p].c)
          /\ acc[p].pc \in {"offer", "ok"} => Joined(p, acc[p].c)
          /\ acc[p].pc = "ok" => conn[p][acc[p].c].app
    /\ \A c \in Conns : call[c] \in {"wait", "ok", "failed"} => Joined(Opener[c], c)

\* A close is only sent for a closed connection, and the data sent before it
\* has arrived or is ahead of it, unless the receiver closed the connection.
Ordered ==
    \A p \in Peers, c \in Conns :
       /\ c \in sent[p] => conn[p][c].app
       /\ InNet(p, "close", c) => conn[Other(p)][c].isClose
       /\ c \in sent[Other(p)] /\ ~IsClosed(Other(p)) =>
             c \in rcvd[p] \/ conn[p][c].isClose \/ DataAhead(p, c)

SessionInv == SessionTypeOK /\ Opened /\ Ordered /\ OkMeansAccepted /\ EOFAfterData

-----------------------------------------------------------------------------
(* Facts about the operators                                                 *)

LEMMA OtherPeer ==
    /\ \A p \in Peers : Other(p) \in Peers /\ Other(p) # p /\ Other(Other(p)) = p
    /\ \A p, q \in Peers : q # p => q = Other(p)
    /\ \A c \in Conns : Opener[c] \in Peers /\ Remote(c) \in Peers
<1>1. Other("client") = "server"
  BY Zenon DEF Other, Peers
<1>2. Other("server") = "client"
  BY Zenon DEF Other, Peers
<1>3. \A c \in Conns : Opener[c] \in Peers
  BY SessionAssumption, Zenon
<1> QED
  BY <1>1, <1>2, <1>3, Zenon DEF Peers, Remote

\* Appending an element keeps those that are there.
LEMMA AppendKeeps ==
    ASSUME NEW S, NEW s \in Seq(S), NEW x \in S
    PROVE  /\ Append(s, x) \in Seq(S) /\ Len(Append(s, x)) = Len(s) + 1 /\ Len(s) \in Nat
           /\ \A i \in 1 .. Len(s) : Append(s, x)[i] = s[i]
           /\ Append(s, x)[Len(s) + 1] = x
  OBVIOUS

\* The tail of a sequence is the sequence moved by one.
LEMMA TailMoves ==
    ASSUME NEW S, NEW s \in Seq(S), s # <<>>
    PROVE  /\ Tail(s) \in Seq(S) /\ Len(Tail(s)) = Len(s) - 1 /\ Len(s) \in Nat \ {0}
           /\ Head(s) = s[1] /\ Head(s) \in S
           /\ \A i \in 1 .. Len(s) - 1 : Tail(s)[i] = s[i + 1]
  OBVIOUS

\* What release leaves on its way was on its way before.
LEMMA ReleaseKeeps ==
    ASSUME NEW S, NEW s \in Seq(S), NEW t \in WrittenOut(s) \cup OneMore(s)
    PROVE  /\ t \in Seq(S)
           /\ \A i \in 1 .. Len(t) : \E j \in 1 .. Len(s) : t[i] = s[j]
<1>l. Len(s) \in Nat /\ \A i \in 1 .. Len(s) : s[i] \in S
  OBVIOUS
<1>1. CASE t \in WrittenOut(s)
  <2>1. PICK k \in 0 .. Len(s) : t = SubSeq(s, 1, k)
    BY <1>1, Zenon DEF WrittenOut
  <2>2. t \in Seq(S) /\ Len(t) = k /\ \A i \in 1 .. k : t[i] = s[i]
    BY <1>l, <2>1
  <2> QED
    BY <1>l, <2>2
<1>2. CASE t \in OneMore(s)
  <2>1. PICK k \in 1 .. Len(s), m \in 1 .. Len(s) :
           k <= m /\ t = Append(SubSeq(s, 1, k - 1), s[m])
    BY <1>2, Zenon DEF OneMore
  <2> DEFINE u == SubSeq(s, 1, k - 1)
  <2>2. u \in Seq(S) /\ Len(u) = k - 1 /\ \A i \in 1 .. k - 1 : u[i] = s[i]
    BY <1>l
  <2>3. /\ t \in Seq(S) /\ Len(t) = k /\ t[k] = s[m]
        /\ \A i \in 1 .. k - 1 : t[i] = s[i]
    <3> HIDE DEF u
    <3> QED
      BY <1>l, <2>1, <2>2, AppendKeeps DEF u
  <2> QED
    BY <1>l, <2>3
<1> QED
  BY <1>1, <1>2, Zenon

-----------------------------------------------------------------------------
(* What the pieces of the actions do to the packets on their way             *)

LEMMA PackType ==
    /\ \A f \in Flag, c \in Conns : [flag |-> f, c |-> c] \in Pack
    /\ \A f \in Flag : PackClass(f) \in {"mid", "low"}
    /\ PackClass("new") = "mid" /\ PackClass("ok") = "mid"
    /\ PackClass("data") = "low" /\ PackClass("close") = "low"
  BY Zenon DEF Pack, Flag, PackClass

LEMMA NetType ==
    ASSUME SessionTypeOK, NEW p \in Peers
    PROVE  /\ net[p].mid \in Seq(Pack) /\ net[p].low \in Seq(Pack)
           /\ net[p] = [mid |-> net[p].mid, low |-> net[p].low]
           /\ \A f \in Flag : net[p][PackClass(f)] \in Seq(Pack)
  BY PackType, Zenon DEF SessionTypeOK

\* A packet goes to the end of its chain, and everything else stays.
LEMMA SendNet ==
    ASSUME SessionTypeOK, NEW p \in Peers, NEW f \in Flag, NEW c \in Conns, SendInfo(p, f, c)
    PROVE  /\ net' \in [Peers -> [mid : Seq(Pack), low : Seq(Pack)]]
           /\ \A q \in Peers, g \in Flag, d \in Conns :
                 InNet(q, g, d)' => \/ InNet(q, g, d)
                                    \/ q = Other(p) /\ g = f /\ d = c /\ ~IsClosed(p)
           /\ \A q \in Peers, d \in Conns : DataAhead(q, d) => DataAhead(q, d)'
<1>1. CASE IsClosed(p)
  <2>1. net' = net
    BY <1>1, Zenon DEF SendInfo
  <2> QED
    BY <2>1, ZenonT(30) DEF SessionTypeOK, InNet, DataAhead
<1>2. CASE ~IsClosed(p)
  <2> DEFINE o == Other(p)
             k == PackClass(f)
             m == [flag |-> f, c |-> c]
             s == net[o][k]
             t == Append(s, m)
  <2>o. o \in Peers /\ k \in {"mid", "low"} /\ m \in Pack /\ s \in Seq(Pack)
    BY OtherPeer, PackType, NetType, ZenonT(30)
  <2>1. net' = [net EXCEPT ![o] = [@ EXCEPT ![k] = t]]
    BY <1>2, Zenon DEF SendInfo
  <2>2. /\ t \in Seq(Pack) /\ Len(t) = Len(s) + 1 /\ Len(s) \in Nat
        /\ \A i \in 1 .. Len(s) : t[i] = s[i]
        /\ t[Len(s) + 1] = m
    BY <2>o, AppendKeeps
  <2> HIDE DEF t, s, o, k
  <2>3. net' \in [Peers -> [mid : Seq(Pack), low : Seq(Pack)]]
    BY <2>o, <2>1, <2>2, ZenonT(30) DEF SessionTypeOK
  <2>4. /\ net'[o][k] = t
        /\ \A q \in Peers, l \in {"mid", "low"} : q # o \/ l # k => net'[q][l] = net[q][l]
    BY <2>o, <2>1, Zenon DEF SessionTypeOK
  <2>5. ASSUME NEW q \in Peers, NEW g \in Flag, NEW d \in Conns, InNet(q, g, d)'
        PROVE  InNet(q, g, d) \/ (q = o /\ g = f /\ d = c)
    <3>1. CASE q # o \/ PackClass(g) # k
      BY <2>4, <2>5, <3>1, PackType, Zenon DEF InNet
    <3>2. CASE q = o /\ PackClass(g) = k
      <4>1. PICK i \in 1 .. Len(t) : t[i] = [flag |-> g, c |-> d]
        BY <2>4, <2>5, <3>2, Zenon DEF InNet
      <4>2. CASE i = Len(s) + 1
        BY <2>2, <3>2, <4>1, <4>2
      <4>3. CASE i # Len(s) + 1
        <5>1. i \in 1 .. Len(s) /\ s[i] = [flag |-> g, c |-> d]
          BY <2>2, <4>1, <4>3
        <5> QED
          BY <3>2, <5>1, Zenon DEF InNet, s
      <4> QED
        BY <4>2, <4>3, Zenon
    <3> QED
      BY <3>1, <3>2, Zenon
  <2>6. ASSUME NEW q \in Peers, NEW d \in Conns, DataAhead(q, d)
        PROVE  DataAhead(q, d)'
    <3>1. CASE q # o \/ "low" # k
      <4>1. net'[q].low = net[q].low
        BY <2>4, <3>1, Zenon
      <4> QED
        BY <2>6, <4>1, Zenon DEF DataAhead
    <3>2. CASE q = o /\ "low" = k
      <4>0. net'[q].low = t /\ net[q].low = s
        BY <2>4, <3>2, Zenon DEF s
      <4>1. PICK i \in 1 .. Len(s) :
               /\ s[i] = [flag |-> "data", c |-> d]
               /\ \A j \in 1 .. i - 1 : s[j] # [flag |-> "close", c |-> d]
        BY <2>6, <4>0, Zenon DEF DataAhead
      <4>2. i \in 1 .. Len(t) /\ t[i] = s[i] /\ \A j \in 1 .. i - 1 : t[j] = s[j]
        BY <2>2
      <4> QED
        BY <4>0, <4>1, <4>2, Zenon DEF DataAhead
    <3> QED
      BY <3>1, <3>2, Zenon
  <2> QED
    BY <1>2, <2>3, <2>5, <2>6, Zenon DEF o
<1> QED
  BY <1>1, <1>2, Zenon

\* A packet leaves the head of a chain; data that is not at the head keeps its place
\* before the close.
LEMMA ReceiveNet ==
    ASSUME SessionTypeOK, NEW p \in Peers, NEW f \in Flag, Receive(p, PackClass(f), f)
    PROVE  LET c == Head(net[p][PackClass(f)]).c IN
           /\ net' \in [Peers -> [mid : Seq(Pack), low : Seq(Pack)]]
           /\ c \in Conns /\ InNet(p, f, c) /\ ~IsClosed(p)
           /\ \A q \in Peers, g \in Flag, d \in Conns : InNet(q, g, d)' => InNet(q, g, d)
           /\ \A q \in Peers, d \in Conns :
                 DataAhead(q, d) => \/ DataAhead(q, d)'
                                    \/ q = p /\ d = c /\ f = "data"
           /\ f = "close" => ~DataAhead(p, c)
<1> DEFINE k == PackClass(f)
           s == net[p][k]
           c == Head(s).c
<1>k. k \in {"mid", "low"} /\ s \in Seq(Pack)
  BY PackType, NetType, ZenonT(30)
<1>1. /\ ~IsClosed(p) /\ s # <<>> /\ Head(s).flag = f
      /\ net' = [net EXCEPT ![p] = [@ EXCEPT ![k] = Tail(s)]]
  BY Zenon DEF Receive
<1>2. /\ Tail(s) \in Seq(Pack) /\ Len(Tail(s)) = Len(s) - 1 /\ Len(s) \in Nat \ {0}
      /\ Head(s) = s[1] /\ Head(s) \in Pack
      /\ \A i \in 1 .. Len(s) - 1 : Tail(s)[i] = s[i + 1]
  BY <1>k, <1>1, TailMoves, Zenon
<1>3. c \in Conns /\ s[1] = [flag |-> f, c |-> c]
  BY <1>1, <1>2, Zenon DEF Pack
<1> DEFINE t == Tail(s)
<1> HIDE DEF s, k, t, c
<1>4. net' \in [Peers -> [mid : Seq(Pack), low : Seq(Pack)]]
  BY <1>k, <1>1, <1>2, ZenonT(30) DEF SessionTypeOK, t
<1>5. /\ net'[p][k] = t
      /\ \A q \in Peers, l \in {"mid", "low"} : q # p \/ l # k => net'[q][l] = net[q][l]
  BY <1>k, <1>1, Zenon DEF SessionTypeOK, t
<1>6. InNet(p, f, c)
  BY <1>2, <1>3 DEF InNet, s, k
<1>7. ASSUME NEW q \in Peers, NEW g \in Flag, NEW d \in Conns, InNet(q, g, d)'
      PROVE  InNet(q, g, d)
  <2>1. CASE q # p \/ PackClass(g) # k
    BY <1>5, <1>7, <2>1, PackType, Zenon DEF InNet
  <2>2. CASE q = p /\ PackClass(g) = k
    <3>1. PICK i \in 1 .. Len(t) : t[i] = [flag |-> g, c |-> d]
      BY <1>5, <1>7, <2>2, Zenon DEF InNet
    <3>2. i + 1 \in 1 .. Len(s) /\ s[i + 1] = [flag |-> g, c |-> d]
      BY <1>2, <3>1 DEF t
    <3> QED
      BY <2>2, <3>2, Zenon DEF InNet, s
  <2> QED
    BY <2>1, <2>2, Zenon
<1>8. ASSUME NEW q \in Peers, NEW d \in Conns, DataAhead(q, d)
      PROVE  DataAhead(q, d)' \/ (q = p /\ d = c /\ f = "data")
  <2>1. CASE q # p \/ "low" # k
    <3>1. net'[q].low = net[q].low
      BY <1>5, <2>1, Zenon
    <3> QED
      BY <1>8, <3>1, Zenon DEF DataAhead
  <2>2. CASE q = p /\ "low" = k
    <3>0. net'[q].low = t /\ net[q].low = s
      BY <1>5, <2>2, Zenon DEF s
    <3>1. PICK i \in 1 .. Len(s) :
             /\ s[i] = [flag |-> "data", c |-> d]
             /\ \A j \in 1 .. i - 1 : s[j] # [flag |-> "close", c |-> d]
      BY <1>8, <3>0, Zenon DEF DataAhead
    <3>2. CASE i = 1
      BY <1>3, <2>2, <3>1, <3>2
    <3>3. CASE i # 1
      <4>1. /\ i - 1 \in 1 .. Len(t) /\ t[i - 1] = s[i]
            /\ \A j \in 1 .. (i - 1) - 1 : t[j] = s[j + 1] /\ j + 1 \in 1 .. i - 1
        BY <1>2, <3>3 DEF t
      <4> QED
        BY <3>0, <3>1, <4>1, Zenon DEF DataAhead
    <3> QED
      BY <3>2, <3>3, Zenon
  <2> QED
    BY <2>1, <2>2, Zenon
<1>9. ASSUME f = "close" PROVE ~DataAhead(p, c)
  <2>1. net[p].low = s
    BY <1>9, PackType, Zenon DEF s, k
  <2>2. s[1] = [flag |-> "close", c |-> c]
    BY <1>3, <1>9, Zenon
  <2> SUFFICES ASSUME DataAhead(p, c) PROVE FALSE
    BY Zenon
  <2>3. PICK i \in 1 .. Len(s) :
             /\ s[i] = [flag |-> "data", c |-> c]
             /\ \A j \in 1 .. i - 1 : s[j] # [flag |-> "close", c |-> c]
    BY <2>1, Zenon DEF DataAhead
  <2>4. i # 1
    BY <2>2, <2>3
  <2>5. 1 \in 1 .. i - 1
    BY <1>2, <2>4
  <2> QED
    BY <2>2, <2>3, <2>5, Zenon
<1> QED
  BY <1>1, <1>3, <1>4, <1>6, <1>7, <1>8, <1>9, Zenon DEF c, s, k

\* release throws packets away and adds none.
LEMMA ReleaseNet ==
    ASSUME SessionTypeOK, NEW p \in Peers, TryPopAll(p)
    PROVE  /\ net' \in [Peers -> [mid : Seq(Pack), low : Seq(Pack)]]
           /\ \A q \in Peers, g \in Flag, d \in Conns : InNet(q, g, d)' => InNet(q, g, d)
           /\ \A d \in Conns : DataAhead(p, d) => DataAhead(p, d)'
<1> DEFINE o == Other(p)
<1>o. o \in Peers /\ o # p /\ net[o].mid \in Seq(Pack) /\ net[o].low \in Seq(Pack)
  BY OtherPeer, NetType, ZenonT(30)
<1>1. PICK m \in WrittenOut(net[o].mid) \cup OneMore(net[o].mid),
           l \in WrittenOut(net[o].low) \cup OneMore(net[o].low) :
           net' = [net EXCEPT ![o] = [mid |-> m, low |-> l]]
  BY ZenonT(30) DEF TryPopAll
<1>2. /\ m \in Seq(Pack)
      /\ \A i \in 1 .. Len(m) : \E j \in 1 .. Len(net[o].mid) : m[i] = net[o].mid[j]
  <2> DEFINE s == net[o].mid
  <2>1. s \in Seq(Pack) /\ m \in WrittenOut(s) \cup OneMore(s)
    BY <1>o, Zenon
  <2> HIDE DEF s
  <2>2. m \in Seq(Pack) /\ \A i \in 1 .. Len(m) : \E j \in 1 .. Len(s) : m[i] = s[j]
    BY <2>1, ReleaseKeeps
  <2> QED
    BY <2>2, Zenon DEF s
<1>3. /\ l \in Seq(Pack)
      /\ \A i \in 1 .. Len(l) : \E j \in 1 .. Len(net[o].low) : l[i] = net[o].low[j]
  <2> DEFINE s == net[o].low
  <2>1. s \in Seq(Pack) /\ l \in WrittenOut(s) \cup OneMore(s)
    BY <1>o, Zenon
  <2> HIDE DEF s
  <2>2. l \in Seq(Pack) /\ \A i \in 1 .. Len(l) : \E j \in 1 .. Len(s) : l[i] = s[j]
    BY <2>1, ReleaseKeeps
  <2> QED
    BY <2>2, Zenon DEF s
<1> HIDE DEF o
<1>4. net' \in [Peers -> [mid : Seq(Pack), low : Seq(Pack)]]
  BY <1>o, <1>1, <1>2, <1>3, Zenon DEF SessionTypeOK
<1>5. net'[o].mid = m /\ net'[o].low = l /\ \A q \in Peers : q # o => net'[q] = net[q]
  BY <1>o, <1>1, Zenon DEF SessionTypeOK
<1>6. ASSUME NEW q \in Peers, NEW g \in Flag, NEW d \in Conns, InNet(q, g, d)'
      PROVE  InNet(q, g, d)
  <2>1. CASE q # o
    BY <1>5, <1>6, <2>1, Zenon DEF InNet
  <2>2. CASE q = o /\ PackClass(g) = "mid"
    BY <1>2, <1>5, <1>6, <2>2 DEF InNet
  <2>3. CASE q = o /\ PackClass(g) = "low"
    BY <1>3, <1>5, <1>6, <2>3 DEF InNet
  <2> QED
    BY <2>1, <2>2, <2>3, PackType, Zenon
<1>7. \A d \in Conns : DataAhead(p, d) => DataAhead(p, d)'
  BY <1>o, <1>5, Zenon DEF DataAhead
<1> QED
  BY <1>4, <1>6, <1>7, Zenon

-----------------------------------------------------------------------------
(* Steps                                                                     *)

\* What no step takes back.
Kept ==
    \A p \in Peers, c \in Conns :
       /\ conn[p][c].isClose => conn'[p][c].isClose
       /\ conn[p][c].app => conn'[p][c].app
       /\ Joined(p, c) => Joined(p, c)'
       /\ c \in rcvd[p] => c \in rcvd'[p]
       /\ IsClosed(p) => IsClosed(p)'

\* The steps that hand a connection over or announce it have what Opened asks for.
ConnOpens ==
    \A p \in Peers, c \in Conns :
       /\ conn'[p][c].app => conn[p][c].app \/ (Joined(p, c) /\ Joined(Other(p), c))
       /\ InNet(p, "new", c)' => InNet(p, "new", c) \/ Joined(Other(p), c)'
       /\ InNet(p, "ok", c)' => InNet(p, "ok", c) \/ conn[Other(p)][c].app
       /\ conn'[p][c].ok => conn[p][c].ok \/ InNet(p, "ok", c)

QueueOpens ==
    \A p \in Peers : \A i \in 1 .. Len(queue'[p]) :
       /\ queue'[p][i] \in Conns
       /\ \/ \E j \in 1 .. Len(queue[p]) : queue'[p][i] = queue[p][j]
          \/ InNet(p, "new", queue'[p][i])

AccOpens ==
    \A p \in Peers :
       \/ acc'[p].c = acc[p].c /\ acc'[p].pc = acc[p].pc
       \/ acc'[p].pc \notin {"set", "offer", "ok"}
       \/ /\ acc'[p].pc = "set" /\ acc'[p].c \in Conns
          /\ \E j \in 1 .. Len(queue[p]) : acc'[p].c = queue[p][j]
       \/ /\ acc[p].pc = "set" /\ acc'[p].pc = "offer" /\ acc'[p].c = acc[p].c
          /\ Joined(p, acc[p].c)'
       \/ /\ acc[p].pc = "offer" /\ acc'[p].pc = "ok" /\ acc'[p].c = acc[p].c
          /\ conn'[p][acc[p].c].app

CallOpens ==
    \A c \in Conns :
       /\ call'[c] \in {"wait", "ok", "failed"} =>
             call[c] \in {"wait", "ok", "failed"} \/ Joined(Opener[c], c)'
       /\ call'[c] = "ok" => call[c] = "ok" \/ conn[Opener[c]][c].ok

LEMMA OpenedKept ==
    ASSUME SessionTypeOK, Opened, OkMeansAccepted,
           Kept, ConnOpens, QueueOpens, AccOpens, CallOpens
    PROVE  Opened' /\ OkMeansAccepted'
<1>1. ASSUME NEW p \in Peers, NEW c \in Conns
      PROVE  /\ conn'[p][c].app => Joined(p, c)' /\ Joined(Other(p), c)'
             /\ InNet(p, "new", c)' => Joined(Other(p), c)'
             /\ InNet(p, "ok", c)' \/ conn'[p][c].ok => conn'[Other(p)][c].app
  <2>o. Other(p) \in Peers
    BY OtherPeer, Zenon
  <2>1. conn'[p][c].app => Joined(p, c)' /\ Joined(Other(p), c)'
    BY <2>o, Zenon DEF Opened, Kept, ConnOpens
  <2>2. InNet(p, "new", c)' => Joined(Other(p), c)'
    BY <2>o, Zenon DEF Opened, Kept, ConnOpens
  <2>3. InNet(p, "ok", c)' \/ conn'[p][c].ok => conn'[Other(p)][c].app
    BY <2>o, Zenon DEF Opened, Kept, ConnOpens
  <2> QED
    BY <2>1, <2>2, <2>3, Zenon
<1>2. ASSUME NEW p \in Peers, NEW i \in 1 .. Len(queue'[p])
      PROVE  Joined(Other(p), queue[p][i])'
  <2>1. Joined(Other(p), queue'[p][i])
    BY Zenon DEF Opened, QueueOpens
  <2> QED
    BY <2>1, OtherPeer, Zenon DEF Kept, QueueOpens, Joined
<1>3. ASSUME NEW p \in Peers
      PROVE  /\ acc'[p].pc \in {"set", "offer", "ok"} =>
                   acc'[p].c \in Conns /\ Joined(Other(p), acc[p].c)'
             /\ acc'[p].pc \in {"offer", "ok"} => Joined(p, acc[p].c)'
             /\ acc'[p].pc = "ok" => conn'[p][acc'[p].c].app
  <2>o. Other(p) \in Peers
    BY OtherPeer, Zenon
  <2>1. CASE acc'[p].c = acc[p].c /\ acc'[p].pc = acc[p].pc
    BY <2>o, <2>1 DEF Opened, Kept
  <2>2. CASE acc'[p].pc \notin {"set", "offer", "ok"}
    BY <2>2, Zenon
  <2>3. CASE /\ acc'[p].pc = "set" /\ acc'[p].c \in Conns
             /\ \E j \in 1 .. Len(queue[p]) : acc'[p].c = queue[p][j]
    BY <2>o, <2>3 DEF Opened, Kept
  <2>4. CASE /\ acc[p].pc = "set" /\ acc'[p].pc = "offer" /\ acc'[p].c = acc[p].c
             /\ Joined(p, acc[p].c)'
    BY <2>o, <2>4, Zenon DEF Opened, Kept
  <2>5. CASE /\ acc[p].pc = "offer" /\ acc'[p].pc = "ok" /\ acc'[p].c = acc[p].c
             /\ conn'[p][acc[p].c].app
    BY <2>o, <2>5 DEF Opened, Kept
  <2> QED
    BY <2>1, <2>2, <2>3, <2>4, <2>5, Zenon DEF AccOpens
<1>4. \A c \in Conns : call'[c] \in {"wait", "ok", "failed"} => Joined(Opener[c], c)'
  BY OtherPeer, Zenon DEF Opened, Kept, CallOpens
<1>5. ASSUME NEW c \in Conns, call'[c] = "ok"
      PROVE  conn'[Remote(c)][c].app
  <2>1. conn[Remote(c)][c].app
    BY <1>5, OtherPeer, Zenon DEF CallOpens, OkMeansAccepted, Opened, Remote
  <2> QED
    BY <2>1, OtherPeer, Zenon DEF Kept
<1> QED
  BY <1>1, <1>2, <1>3, <1>4, <1>5, Zenon DEF Opened, OkMeansAccepted

\* What is sent, received, closed and thrown away keeps the order.
StepOrders ==
    \A p \in Peers, c \in Conns :
       /\ c \in sent'[p] => \/ c \in sent[p]
                            \/ /\ conn[p][c].app /\ ~conn[p][c].isClose
                               /\ DataAhead(Other(p), c)'
       /\ InNet(p, "close", c)' => InNet(p, "close", c) \/ conn'[Other(p)][c].isClose
       /\ DataAhead(p, c) => \/ DataAhead(p, c)' \/ IsClosed(Other(p))
                             \/ c \in rcvd'[p] \/ ~Known(p, c)
       /\ conn'[p][c].closing => \/ conn[p][c].closing
                                 \/ /\ InNet(p, "close", c)
                                    /\ ~conn[p][c].isClose /\ ~DataAhead(p, c)
                                    /\ sent' = sent

LEMMA OrderedKept ==
    ASSUME SessionTypeOK, Opened, Ordered, EOFAfterData, Kept, StepOrders
    PROVE  Ordered' /\ EOFAfterData'
<1> SUFFICES ASSUME NEW p \in Peers, NEW c \in Conns
             PROVE  /\ c \in sent'[p] => conn'[p][c].app
                    /\ InNet(p, "close", c)' => conn'[Other(p)][c].isClose
                    /\ c \in sent'[Other(p)] /\ ~IsClosed(Other(p))' =>
                          c \in rcvd'[p] \/ conn'[p][c].isClose \/ DataAhead(p, c)'
                    /\ conn'[p][c].closing =>
                          /\ conn'[Other(p)][c].isClose
                          /\ c \in sent'[Other(p)] => c \in rcvd'[p] \/ IsClosed(Other(p))'
  BY Zenon DEF Ordered, EOFAfterData
<1> DEFINE q == Other(p)
<1>o. q \in Peers /\ Other(q) = p
  BY OtherPeer, Zenon
<1> HIDE DEF q
<1>1. c \in sent'[p] => conn'[p][c].app
  BY Zenon DEF Ordered, Kept, StepOrders
<1>2. InNet(p, "close", c)' => conn'[q][c].isClose
  BY <1>o, Zenon DEF Ordered, Kept, StepOrders, q
<1>3. ASSUME c \in sent'[q], ~IsClosed(q)'
      PROVE  c \in rcvd'[p] \/ conn'[p][c].isClose \/ DataAhead(p, c)'
  <2>1. ~IsClosed(q)
    BY <1>o, <1>3, Zenon DEF Kept
  <2>2. CASE c \notin sent[q]
    BY <1>o, <1>3, <2>2, Zenon DEF StepOrders
  <2>3. CASE c \in sent[q]
    <3>1. c \in rcvd[p] \/ conn[p][c].isClose \/ DataAhead(p, c)
      BY <2>1, <2>3, Zenon DEF Ordered, q
    <3>2. Joined(p, c)
      BY <1>o, <2>3, Zenon DEF Ordered, Opened
    <3>3. ~Known(p, c) => conn[p][c].isClose
      BY <3>2, Zenon DEF Known, Joined
    <3>4. DataAhead(p, c) => DataAhead(p, c)' \/ c \in rcvd'[p] \/ ~Known(p, c)
      BY <2>1, Zenon DEF StepOrders, q
    <3>5. /\ c \in rcvd[p] => c \in rcvd'[p]
          /\ conn[p][c].isClose => conn'[p][c].isClose
      BY Zenon DEF Kept
    <3> QED
      BY <3>1, <3>3, <3>4, <3>5, Zenon
  <2> QED
    BY <2>2, <2>3, Zenon
<1>4. ASSUME conn'[p][c].closing
      PROVE  /\ conn'[q][c].isClose
             /\ c \in sent'[q] => c \in rcvd'[p] \/ IsClosed(q)'
  <2>1. CASE conn[p][c].closing
    <3>1. conn[q][c].isClose /\ (c \in sent[q] => c \in rcvd[p] \/ IsClosed(q))
      BY <2>1, Zenon DEF EOFAfterData, q
    <3>2. c \in sent'[q] => c \in sent[q]
      BY <1>o, <3>1, Zenon DEF StepOrders
    <3> QED
      BY <1>o, <3>1, <3>2, Zenon DEF Kept
  <2>2. CASE InNet(p, "close", c) /\ ~conn[p][c].isClose /\ ~DataAhead(p, c) /\ sent' = sent
    <3>1. conn[q][c].isClose
      BY <2>2, Zenon DEF Ordered, q
    <3>2. c \in sent[q] => c \in rcvd[p] \/ IsClosed(q)
      BY <2>2, Zenon DEF Ordered, q
    <3> QED
      BY <1>o, <2>2, <3>1, <3>2, Zenon DEF Kept
  <2> QED
    BY <1>4, <2>1, <2>2, Zenon DEF StepOrders
<1> QED
  BY <1>1, <1>2, <1>3, <1>4, Zenon DEF q

\* What a step leaves alone it keeps.
LEMMA Untouched ==
    ASSUME SessionTypeOK
    PROVE  /\ UNCHANGED queue => QueueOpens
           /\ UNCHANGED acc => AccOpens
           /\ UNCHANGED call => CallOpens
           /\ UNCHANGED <<conn, net>> => ConnOpens
           /\ UNCHANGED <<conn, connMap, mux, rcvd>> => Kept
           /\ UNCHANGED <<conn, net, sent>> => StepOrders
<1>1. UNCHANGED queue => QueueOpens
  <2> SUFFICES ASSUME queue' = queue, NEW p \in Peers, NEW i \in 1 .. Len(queue[p])
               PROVE  queue[p][i] \in Conns
    BY Zenon DEF QueueOpens
  <2>1. queue[p] \in Seq(Conns)
    BY Zenon DEF SessionTypeOK
  <2> QED
    BY <2>1
<1>2. UNCHANGED acc => AccOpens
  BY Zenon DEF AccOpens
<1>3. UNCHANGED call => CallOpens
  BY Zenon DEF CallOpens
<1>4. UNCHANGED <<conn, net>> => ConnOpens
  BY Zenon DEF ConnOpens, InNet
<1>5. UNCHANGED <<conn, connMap, mux, rcvd>> => Kept
  BY Zenon DEF Kept, Joined, IsClosed
<1>6. UNCHANGED <<conn, net, sent>> => StepOrders
  BY DEF StepOrders, InNet, DataAhead
<1> QED
  BY <1>1, <1>2, <1>3, <1>4, <1>5, <1>6, Zenon

ConnType == [isClose : BOOLEAN, closing : BOOLEAN, ok : BOOLEAN, app : BOOLEAN]

\* One connection object is replaced.
LEMMA ConnUpdate ==
    ASSUME SessionTypeOK, NEW p \in Peers, NEW c \in Conns, NEW r \in ConnType,
           conn' = [conn EXCEPT ![p] = [@ EXCEPT ![c] = r]]
    PROVE  /\ conn' \in [Peers -> [Conns -> ConnType]]
           /\ conn'[p][c] = r
           /\ \A q \in Peers, d \in Conns : q # p \/ d # c => conn'[q][d] = conn[q][d]
<1>1. conn \in [Peers -> [Conns -> ConnType]]
  BY Zenon DEF SessionTypeOK, ConnType
<1> HIDE DEF ConnType
<1> QED
  BY <1>1, Zenon

\* One field of a connection object is set.
LEMMA ConnFields ==
    ASSUME NEW r \in ConnType
    PROVE  /\ [r EXCEPT !.isClose = TRUE] \in ConnType
           /\ [r EXCEPT !.isClose = TRUE].isClose
           /\ [r EXCEPT !.isClose = TRUE].closing = r.closing
           /\ [r EXCEPT !.isClose = TRUE].ok = r.ok
           /\ [r EXCEPT !.isClose = TRUE].app = r.app
  BY ZenonT(30) DEF ConnType

LEMMA ConnObj ==
    ASSUME SessionTypeOK, NEW p \in Peers, NEW c \in Conns
    PROVE  conn[p][c] \in ConnType
  BY DEF SessionTypeOK, ConnType

\* closeProcess, with or without a close for the peer.
LEMMA CloseKept ==
    ASSUME SessionTypeOK, NEW p \in Peers, NEW c \in Conns, NEW tell \in BOOLEAN,
           closeProcess(p, c, tell), UNCHANGED <<sent, rcvd>>,
           \A q \in Peers : IsClosed(q) => IsClosed(q)'
    PROVE  /\ conn' \in [Peers -> [Conns -> [isClose : BOOLEAN, closing : BOOLEAN,
                                             ok : BOOLEAN, app : BOOLEAN]]]
           /\ connMap' \in [Peers -> SUBSET Conns]
           /\ net' \in [Peers -> [mid : Seq(Pack), low : Seq(Pack)]]
           /\ Kept /\ ConnOpens /\ StepOrders
<1>1. CASE conn[p][c].isClose
  <2>1. UNCHANGED <<conn, connMap, net>>
    BY <1>1, Zenon DEF closeProcess
  <2>2. Kept
    BY <2>1, Zenon DEF Kept, Joined
  <2> QED
    BY <2>1, <2>2, Untouched, Zenon DEF SessionTypeOK
<1>2. CASE ~conn[p][c].isClose
  <2>1. /\ conn' = [conn EXCEPT ![p][c].isClose = TRUE]
        /\ connMap' = [connMap EXCEPT ![p] = @ \ {c}]
        /\ SendInfo(p, "close", c) \/ UNCHANGED net
    BY <1>2, Zenon DEF closeProcess
  <2> DEFINE r == [conn[p][c] EXCEPT !.isClose = TRUE]
  <2>x. conn[p][c] \in ConnType
    BY ConnObj, Zenon
  <2>t. r \in ConnType
    BY <2>x, ConnFields, Zenon
  <2>r. /\ r.isClose /\ r.closing = conn[p][c].closing
        /\ r.ok = conn[p][c].ok /\ r.app = conn[p][c].app
    BY <2>x, ConnFields, Zenon
  <2>e. conn' = [conn EXCEPT ![p] = [@ EXCEPT ![c] = r]]
    BY <2>1, Zenon
  <2> HIDE DEF r
  <2>c. /\ conn' \in [Peers -> [Conns -> ConnType]] /\ conn'[p][c] = r
        /\ \A q \in Peers, d \in Conns : q # p \/ d # c => conn'[q][d] = conn[q][d]
    BY <2>t, <2>e, ConnUpdate, ZenonT(30)
  <2>2. /\ conn' \in [Peers -> [Conns -> [isClose : BOOLEAN, closing : BOOLEAN,
                                          ok : BOOLEAN, app : BOOLEAN]]]
        /\ connMap' \in [Peers -> SUBSET Conns]
    BY <2>1, <2>c, Zenon DEF SessionTypeOK, ConnType
  <2>3. \A q \in Peers, d \in Conns :
           /\ conn'[q][d].isClose = (conn[q][d].isClose \/ (q = p /\ d = c))
           /\ conn'[q][d].closing = conn[q][d].closing
           /\ conn'[q][d].ok = conn[q][d].ok /\ conn'[q][d].app = conn[q][d].app
           /\ d \in connMap'[q] <=> d \in connMap[q] /\ ~(q = p /\ d = c)
    <3> SUFFICES ASSUME NEW q \in Peers, NEW d \in Conns
                 PROVE  /\ conn'[q][d].isClose = (conn[q][d].isClose \/ (q = p /\ d = c))
                        /\ conn'[q][d].closing = conn[q][d].closing
                        /\ conn'[q][d].ok = conn[q][d].ok /\ conn'[q][d].app = conn[q][d].app
                        /\ d \in connMap'[q] <=> d \in connMap[q] /\ ~(q = p /\ d = c)
      BY Zenon
    <3>1. d \in connMap'[q] <=> d \in connMap[q] /\ ~(q = p /\ d = c)
      BY <2>1, Zenon DEF SessionTypeOK
    <3>2. conn[q][d].isClose \in BOOLEAN
      BY DEF SessionTypeOK
    <3>3. CASE q = p /\ d = c
      BY <2>r, <2>c, <3>1, <3>3, ZenonT(30)
    <3>4. CASE q # p \/ d # c
      BY <2>c, <3>1, <3>2, <3>4, Zenon
    <3> QED
      BY <3>3, <3>4, Zenon
  <2>4. /\ net' \in [Peers -> [mid : Seq(Pack), low : Seq(Pack)]]
        /\ \A q \in Peers, g \in Flag, d \in Conns :
              InNet(q, g, d)' => InNet(q, g, d) \/ (q = Other(p) /\ g = "close" /\ d = c)
        /\ \A q \in Peers, d \in Conns : DataAhead(q, d) => DataAhead(q, d)'
    <3>1. CASE SendInfo(p, "close", c)
      BY <3>1, SendNet DEF Flag
    <3>2. CASE UNCHANGED net
      BY <3>2, ZenonT(30) DEF SessionTypeOK, InNet, DataAhead
    <3> QED
      BY <2>1, <3>1, <3>2, Zenon
  <2>5. Kept
    BY <2>3, ZenonT(30) DEF Kept, Joined
  <2>6. ConnOpens
    BY <2>3, <2>4 DEF ConnOpens, Flag
  <2>7. StepOrders
    <3>1. \A q \in Peers, d \in Conns :
             InNet(q, "close", d)' => InNet(q, "close", d) \/ conn'[Other(q)][d].isClose
      <4>1. conn'[p][c].isClose
        BY <2>r, <2>c, Zenon
      <4> QED
        BY <2>4, <4>1, OtherPeer, Zenon DEF Flag
    <3> QED
      BY <2>3, <2>4, <3>1 DEF StepOrders
  <2> QED
    BY <2>2, <2>4, <2>5, <2>6, <2>7, Zenon
<1> QED
  BY <1>1, <1>2, Zenon

LEMMA StepKept ==
    ASSUME SessionInv, SessionTypeOK', Kept, ConnOpens, QueueOpens, AccOpens, CallOpens, StepOrders
    PROVE  SessionInv'
  BY OpenedKept, OrderedKept, Zenon DEF SessionInv

\* The callers: NewConn, Write and Close.
LEMMA CallerInv ==
    ASSUME SessionInv, NEW c \in Conns, NEW p \in Peers,
           \/ NewConn(c) \/ CallStep(c) \/ AppClose(p, c) \/ Write(p, c)
    PROVE  SessionInv'
<1> SessionTypeOK
  BY Zenon DEF SessionInv
<1>o. Opener[c] \in Peers
  BY OtherPeer, Zenon
<1>1. CASE NewConn(c)
  <2>1. SessionTypeOK'
    BY <1>1, Zenon DEF NewConn, SessionTypeOK
  <2>2. CallOpens
    BY <1>1, Zenon DEF NewConn, CallOpens, SessionTypeOK
  <2> QED
    BY <1>1, <2>1, <2>2, StepKept, Untouched, Zenon DEF NewConn
<1>2. CASE NewConnSet(c)
  <2> DEFINE q == Opener[c]
  <2>1. /\ call' = [call EXCEPT ![c] = "wait"] /\ connMap' = [connMap EXCEPT ![q] = @ \cup {c}]
        /\ SendInfo(q, "new", c) /\ UNCHANGED <<conn, queue, acc, mux, sent, rcvd>>
    BY <1>2, Zenon DEF NewConnSet
  <2> HIDE DEF q
  <2>2. SessionTypeOK'
    <3>1. net' \in [Peers -> [mid : Seq(Pack), low : Seq(Pack)]]
      BY <1>o, <2>1, SendNet, Zenon DEF Flag, q
    <3>2. call' \in [Conns -> {"idle", "set", "wait", "ok", "failed"}]
      BY <2>1, Zenon DEF SessionTypeOK
    <3>3. connMap' \in [Peers -> SUBSET Conns]
      BY <1>o, <2>1, Zenon DEF SessionTypeOK, q
    <3> QED
      BY <2>1, <3>1, <3>2, <3>3, Zenon DEF SessionTypeOK
  <2>3. Kept /\ Joined(q, c)'
    BY <1>o, <2>1, Zenon DEF Kept, Joined, IsClosed, SessionTypeOK, q
  <2>4. CallOpens
    BY <2>1, <2>3, Zenon DEF CallOpens, SessionTypeOK, q
  <2>5. /\ \A r \in Peers, g \in Flag, d \in Conns :
              InNet(r, g, d)' => InNet(r, g, d) \/ (r = Other(q) /\ g = "new" /\ d = c)
        /\ \A r \in Peers, d \in Conns : DataAhead(r, d) => DataAhead(r, d)'
    BY <1>o, <2>1, SendNet DEF Flag, q
  <2>6. ConnOpens
    BY <1>o, <2>1, <2>3, <2>5, OtherPeer DEF ConnOpens, Flag, q
  <2>7. StepOrders
    BY <2>1, <2>5, Zenon DEF StepOrders, Flag
  <2> QED
    BY <2>1, <2>2, <2>3, <2>4, <2>6, <2>7, StepKept, Untouched, Zenon
<1>3. CASE NewConnOk(c)
  <2> DEFINE q == Opener[c]
  <2>1. /\ call[c] = "wait" /\ conn[q][c].ok
        /\ call' = [call EXCEPT ![c] = "ok"]
        /\ conn' = [conn EXCEPT ![q][c].ok = FALSE, ![q][c].app = TRUE]
        /\ UNCHANGED <<connMap, queue, acc, net, mux, sent, rcvd>>
    BY <1>3, Zenon DEF NewConnOk
  <2>q. q \in Peers
    BY <1>o, Zenon
  <2>2. CallOpens
    BY <2>1, Zenon DEF CallOpens, SessionTypeOK
  <2> HIDE DEF q
  <2> DEFINE r == [[conn[q][c] EXCEPT !.ok = FALSE] EXCEPT !.app = TRUE]
  <2>x. conn[q][c] \in ConnType
    BY <2>q, ConnObj, Zenon
  <2>t. r \in ConnType
    BY <2>x, ZenonT(30) DEF ConnType
  <2>r. /\ r.isClose = conn[q][c].isClose /\ r.closing = conn[q][c].closing
        /\ ~r.ok /\ r.app
    BY <2>x, Zenon DEF ConnType
  <2>e. conn' = [conn EXCEPT ![q] = [@ EXCEPT ![c] = r]]
    BY <2>1, <2>q, ZenonT(30) DEF SessionTypeOK
  <2> HIDE DEF r
  <2>c. /\ conn' \in [Peers -> [Conns -> ConnType]] /\ conn'[q][c] = r
        /\ \A x \in Peers, d \in Conns : x # q \/ d # c => conn'[x][d] = conn[x][d]
    <3>1. ASSUME NEW z \in Peers, z = q
          PROVE  /\ conn' \in [Peers -> [Conns -> ConnType]] /\ conn'[z][c] = r
                 /\ \A x \in Peers, d \in Conns : x # z \/ d # c => conn'[x][d] = conn[x][d]
      <4>1. conn' = [conn EXCEPT ![z] = [@ EXCEPT ![c] = r]]
        BY <2>e, <3>1, Zenon
      <4> QED
        BY <2>t, <4>1, ConnUpdate, ZenonT(30)
    <3> QED
      BY <2>q, <3>1, Zenon
  <2>3. SessionTypeOK'
    BY <2>1, <2>c, Zenon DEF SessionTypeOK, ConnType
  <2>4. ASSUME NEW x \in Peers, NEW d \in Conns
        PROVE  /\ conn'[x][d].isClose = conn[x][d].isClose
               /\ conn'[x][d].closing = conn[x][d].closing
               /\ conn'[x][d].ok => conn[x][d].ok
               /\ conn'[x][d].app <=> conn[x][d].app \/ (x = q /\ d = c)
    BY <2>c, <2>r, Zenon
  <2>5. Kept
    BY <2>1, <2>4, ZenonT(30) DEF Kept, Joined, IsClosed
  <2>6. Joined(q, c) /\ Joined(Other(q), c)
    <3>1. conn[Other(q)][c].app
      BY <2>1, <2>q, Zenon DEF SessionInv, Opened
    <3> QED
      BY <2>q, <3>1, OtherPeer DEF SessionInv, Opened
  <2>7. ConnOpens
    BY <2>1, <2>4, <2>6, ZenonT(30) DEF ConnOpens, InNet
  <2>8. StepOrders
    BY <2>1, <2>4, ZenonT(30) DEF StepOrders, InNet, DataAhead
  <2> QED
    BY <2>1, <2>2, <2>3, <2>5, <2>7, <2>8, StepKept, Untouched, Zenon
<1>4. CASE NewConnFails(c)
  <2>1. /\ call[c] = "wait" /\ call' = [call EXCEPT ![c] = "failed"]
        /\ closeProcess(Opener[c], c, FALSE) /\ UNCHANGED <<queue, acc, mux, sent, rcvd>>
    BY <1>4, ZenonT(30) DEF NewConnFails
  <2>2. /\ conn' \in [Peers -> [Conns -> [isClose : BOOLEAN, closing : BOOLEAN,
                                          ok : BOOLEAN, app : BOOLEAN]]]
        /\ connMap' \in [Peers -> SUBSET Conns]
        /\ net' \in [Peers -> [mid : Seq(Pack), low : Seq(Pack)]]
        /\ Kept /\ ConnOpens /\ StepOrders
    BY <1>o, <2>1, CloseKept, ZenonT(30) DEF IsClosed
  <2>3. SessionTypeOK'
    BY <2>1, <2>2, Zenon DEF SessionTypeOK
  <2>4. CallOpens
    BY <2>1, Zenon DEF CallOpens, SessionTypeOK
  <2> QED
    BY <2>1, <2>2, <2>3, <2>4, StepKept, Untouched, Zenon
<1>5. CASE AppClose(p, c)
  <2>1. closeProcess(p, c, TRUE) /\ UNCHANGED <<call, queue, acc, mux, sent, rcvd>>
    BY <1>5, ZenonT(30) DEF AppClose
  <2>2. /\ conn' \in [Peers -> [Conns -> [isClose : BOOLEAN, closing : BOOLEAN,
                                          ok : BOOLEAN, app : BOOLEAN]]]
        /\ connMap' \in [Peers -> SUBSET Conns]
        /\ net' \in [Peers -> [mid : Seq(Pack), low : Seq(Pack)]]
        /\ Kept /\ ConnOpens /\ StepOrders
    BY <2>1, CloseKept, ZenonT(30) DEF IsClosed
  <2>3. SessionTypeOK'
    BY <2>1, <2>2, Zenon DEF SessionTypeOK
  <2> QED
    BY <2>1, <2>2, <2>3, StepKept, Untouched, Zenon
<1>6. CASE Write(p, c)
  <2>1. /\ conn[p][c].app /\ ~conn[p][c].isClose /\ ~IsClosed(p)
        /\ SendInfo(p, "data", c) /\ sent' = [sent EXCEPT ![p] = @ \cup {c}]
        /\ UNCHANGED <<call, conn, connMap, queue, acc, mux, rcvd>>
    BY <1>6, Zenon DEF Write
  <2>2. /\ net' \in [Peers -> [mid : Seq(Pack), low : Seq(Pack)]]
        /\ \A r \in Peers, g \in Flag, d \in Conns :
              InNet(r, g, d)' => InNet(r, g, d) \/ g = "data"
        /\ \A r \in Peers, d \in Conns : DataAhead(r, d) => DataAhead(r, d)'
    BY <2>1, SendNet DEF Flag
  <2>3. SessionTypeOK'
    BY <2>1, <2>2, ZenonT(30) DEF SessionTypeOK
  <2>4. ConnOpens
    BY <2>1, <2>2, Zenon DEF ConnOpens, Flag
  <2>5. DataAhead(Other(p), c)'
    <3> DEFINE s == net[Other(p)].low
    <3>1. Other(p) \in Peers /\ s \in Seq(Pack) /\ [flag |-> "data", c |-> c] \in Pack
      BY OtherPeer, NetType, PackType, ZenonT(30) DEF Flag
    <3>2. net'[Other(p)].low = Append(s, [flag |-> "data", c |-> c])
      BY <2>1, <3>1, PackType DEF SendInfo, SessionTypeOK
    <3>3. \A j \in 1 .. Len(s) : s[j] # [flag |-> "close", c |-> c]
      <4>1. ~InNet(Other(p), "close", c)
        BY <2>1, OtherPeer, Zenon DEF SessionInv, Ordered
      <4> QED
        BY <4>1, PackType, Zenon DEF InNet
    <3> HIDE DEF s
    <3>4. /\ Len(s) \in Nat /\ Len(Append(s, [flag |-> "data", c |-> c])) = Len(s) + 1
          /\ \A i \in 1 .. Len(s) : Append(s, [flag |-> "data", c |-> c])[i] = s[i]
          /\ Append(s, [flag |-> "data", c |-> c])[Len(s) + 1] = [flag |-> "data", c |-> c]
      BY <3>1, AppendKeeps
    <3> QED
      BY <3>2, <3>3, <3>4 DEF DataAhead
  <2>6. StepOrders
    BY <2>1, <2>2, <2>5, Zenon DEF StepOrders, Flag, SessionTypeOK
  <2> QED
    BY <2>1, <2>3, <2>4, <2>6, StepKept, Untouched, Zenon
<1> QED
  BY <1>1, <1>2, <1>3, <1>4, <1>5, <1>6, Zenon DEF CallStep

\* The accept goroutine.
LEMMA QueueType ==
    ASSUME SessionTypeOK, NEW p \in Peers
    PROVE  queue[p] \in Seq(Conns) /\ \A i \in 1 .. Len(queue[p]) : queue[p][i] \in Conns
<1>1. queue[p] \in Seq(Conns)
  BY Zenon DEF SessionTypeOK
<1> QED
  BY <1>1

AccPc == {"pop", "checked", "asleep", "set", "offer", "ok", "exit"}

\* The goroutine goes on with the connection it has.
LEMMA AccGoes ==
    ASSUME SessionTypeOK, NEW p \in Peers, NEW l \in AccPc, AccGoto(p, l)
    PROVE  /\ acc' \in [Peers -> [pc : AccPc, c : Conns \cup {"none"}]]
           /\ acc'[p].pc = l /\ acc'[p].c = acc[p].c
           /\ \A q \in Peers : q # p => acc'[q] = acc[q]
<1> DEFINE r == [acc[p] EXCEPT !.pc = l]
<1>1. acc' = [acc EXCEPT ![p] = r]
  BY Zenon DEF AccGoto
<1>2. acc \in [Peers -> [pc : AccPc, c : Conns \cup {"none"}]]
  BY Zenon DEF SessionTypeOK, AccPc
<1>3. r \in [pc : AccPc, c : Conns \cup {"none"}] /\ r.pc = l /\ r.c = acc[p].c
  BY <1>2, Zenon
<1> HIDE DEF r
<1> QED
  BY <1>1, <1>2, <1>3, Zenon

LEMMA AccInv ==
    ASSUME SessionInv, NEW p \in Peers, AccStep(p)
    PROVE  SessionInv'
<1> SessionTypeOK
  BY Zenon DEF SessionInv
<1>d. Opened
  BY Zenon DEF SessionInv
<1>o. Other(p) \in Peers /\ Other(Other(p)) = p
  BY OtherPeer, Zenon
<1>1. CASE AccPop(p) /\ queue[p] # <<>>
  <2>1. /\ acc' = [acc EXCEPT ![p] = [pc |-> "set", c |-> Head(queue[p])]]
        /\ queue' = [queue EXCEPT ![p] = Tail(@)]
        /\ UNCHANGED <<call, conn, connMap, net, mux, sent, rcvd>>
    BY <1>1, Zenon DEF AccPop
  <2>2. /\ Tail(queue[p]) \in Seq(Conns) /\ Len(Tail(queue[p])) = Len(queue[p]) - 1
        /\ Len(queue[p]) \in Nat \ {0}
        /\ Head(queue[p]) = queue[p][1] /\ Head(queue[p]) \in Conns
        /\ \A i \in 1 .. Len(queue[p]) - 1 : Tail(queue[p])[i] = queue[p][i + 1]
    BY <1>1, QueueType, TailMoves, Zenon
  <2> DEFINE s == queue[p]
             h == Head(s)
             t == Tail(s)
  <2> HIDE DEF t, h
  <2>3. SessionTypeOK'
    BY <2>1, <2>2, Zenon DEF SessionTypeOK, h, t
  <2>4. /\ acc'[p].pc = "set" /\ acc'[p].c = h /\ queue'[p] = t
        /\ \A q \in Peers : q # p => acc'[q] = acc[q] /\ queue'[q] = queue[q]
    BY <2>1, <2>2, Zenon DEF SessionTypeOK, h, t
  <2>5. AccOpens
    BY <2>2, <2>4 DEF AccOpens, h
  <2>6. QueueOpens
    <3> SUFFICES ASSUME NEW q \in Peers, NEW i \in 1 .. Len(queue'[q])
                 PROVE  /\ queue'[q][i] \in Conns
                        /\ \E j \in 1 .. Len(queue[q]) : queue'[q][i] = queue[q][j]
      BY Zenon DEF QueueOpens
    <3>1. CASE q # p
      BY <2>4, <3>1, QueueType, Zenon
    <3>2. CASE q = p
      <4>0. queue'[q] = t /\ Len(t) = Len(s) - 1 /\ Len(s) \in Nat
        BY <2>2, <2>4, <3>2, Zenon DEF t
      <4>a. i \in 1 .. Len(s) - 1 /\ i + 1 \in 1 .. Len(s) /\ queue'[q][i] = t[i]
        BY <4>0
      <4>1. t[i] = s[i + 1]
        BY <2>2, <4>a, Zenon DEF t
      <4>2. s[i + 1] \in Conns
        BY <4>a, QueueType, Zenon
      <4> QED
        BY <3>2, <4>a, <4>1, <4>2, Zenon
    <3> QED
      BY <3>1, <3>2, Zenon
  <2> QED
    BY <2>1, <2>3, <2>5, <2>6, StepKept, Untouched, Zenon
<1>2. CASE \/ AccPop(p) /\ queue[p] = <<>>
           \/ AccWait(p) \/ AccClosed(p)
  <2>1. PICK l \in {"checked", "asleep", "exit"} :
           AccGoto(p, l) /\ UNCHANGED <<call, conn, connMap, queue, net, mux, sent, rcvd>>
    BY <1>2, Zenon DEF AccPop, AccWait, AccClosed
  <2>2. /\ acc' \in [Peers -> [pc : AccPc, c : Conns \cup {"none"}]]
        /\ acc'[p].pc = l /\ acc'[p].c = acc[p].c
        /\ \A q \in Peers : q # p => acc'[q] = acc[q]
    BY <2>1, AccGoes, Zenon DEF AccPc
  <2>3. SessionTypeOK'
    BY <2>1, <2>2, Zenon DEF SessionTypeOK, AccPc
  <2>4. AccOpens
    BY <2>2, Zenon DEF AccOpens
  <2> QED
    BY <2>1, <2>3, <2>4, StepKept, Untouched, Zenon
<1>3. CASE AccSet(p)
  <2>1. /\ acc[p].pc = "set" /\ AccGoto(p, "offer")
        /\ connMap' = [connMap EXCEPT ![p] = @ \cup {acc[p].c}]
        /\ UNCHANGED <<call, conn, queue, net, mux, sent, rcvd>>
    BY <1>3, Zenon DEF AccSet
  <2>2. /\ acc' \in [Peers -> [pc : AccPc, c : Conns \cup {"none"}]]
        /\ acc'[p].pc = "offer" /\ acc'[p].c = acc[p].c
        /\ \A q \in Peers : q # p => acc'[q] = acc[q]
    BY <2>1, AccGoes, Zenon DEF AccPc
  <2>3. acc[p].c \in Conns
    BY <1>d, <2>1, Zenon DEF Opened
  <2>4. connMap' \in [Peers -> SUBSET Conns] /\ acc[p].c \in connMap'[p]
    BY <2>1, <2>3, Zenon DEF SessionTypeOK
  <2>5. SessionTypeOK'
    BY <2>1, <2>2, <2>4, Zenon DEF SessionTypeOK, AccPc
  <2>s. \A q \in Peers : connMap[q] \subseteq connMap'[q]
    BY <2>1, Zenon DEF SessionTypeOK
  <2>6. Kept
    BY <2>1, <2>s, Zenon DEF Kept, Joined, IsClosed
  <2>7. AccOpens
    BY <2>1, <2>2, <2>4, Zenon DEF AccOpens, Joined
  <2> QED
    BY <2>1, <2>5, <2>6, <2>7, StepKept, Untouched, Zenon
<1>4. CASE Accept(p)
  <2> DEFINE c == acc[p].c
             r == [conn[p][c] EXCEPT !.app = TRUE]
  <2>1. /\ acc[p].pc = "offer" /\ AccGoto(p, "ok")
        /\ conn' = [conn EXCEPT ![p][acc[p].c].app = TRUE]
        /\ UNCHANGED <<call, connMap, queue, net, mux, sent, rcvd>>
    BY <1>4, Zenon DEF Accept
  <2>u. acc[p].pc = "offer" /\ UNCHANGED <<call, connMap, queue, net, mux, sent, rcvd>>
    BY <2>1, Zenon
  <2>2. c \in Conns /\ Joined(p, c) /\ Joined(Other(p), c)
    BY <1>d, <2>1, Zenon DEF Opened
  <2>3. conn[p][c] \in ConnType
    BY <2>2, ConnObj, Zenon
  <2>e. conn' = [conn EXCEPT ![p] = [@ EXCEPT ![c] = r]]
    BY <2>1, Zenon
  <2>a. /\ acc' \in [Peers -> [pc : AccPc, c : Conns \cup {"none"}]]
        /\ acc'[p].pc = "ok" /\ acc'[p].c = c
        /\ \A q \in Peers : q # p => acc'[q] = acc[q]
    BY <2>1, AccGoes, Zenon DEF AccPc
  <2> HIDE DEF c
  <2>t. r \in ConnType
    BY <2>3, ZenonT(30) DEF ConnType
  <2>r. /\ r.isClose = conn[p][c].isClose /\ r.closing = conn[p][c].closing
        /\ r.ok = conn[p][c].ok /\ r.app
    BY <2>3, Zenon DEF ConnType
  <2> HIDE DEF r
  <2>c. /\ conn' \in [Peers -> [Conns -> ConnType]] /\ conn'[p][c] = r
        /\ \A x \in Peers, d \in Conns : x # p \/ d # c => conn'[x][d] = conn[x][d]
    <3>1. ASSUME NEW z \in Conns, z = c
          PROVE  /\ conn' \in [Peers -> [Conns -> ConnType]] /\ conn'[p][z] = r
                 /\ \A x \in Peers, d \in Conns : x # p \/ d # z => conn'[x][d] = conn[x][d]
      <4>1. conn' = [conn EXCEPT ![p] = [@ EXCEPT ![z] = r]]
        BY <2>e, <3>1, Zenon
      <4> QED
        BY <2>t, <4>1, ConnUpdate, ZenonT(30)
    <3> QED
      BY <2>2, <3>1, Zenon
  <2>4. SessionTypeOK'
    BY <2>1, <2>a, <2>c, Zenon DEF SessionTypeOK, ConnType, AccPc
  <2>5. ASSUME NEW x \in Peers, NEW d \in Conns
        PROVE  /\ conn'[x][d].isClose = conn[x][d].isClose
               /\ conn'[x][d].closing = conn[x][d].closing
               /\ conn'[x][d].ok = conn[x][d].ok
               /\ conn[x][d].app => conn'[x][d].app
               /\ conn'[x][d].app => conn[x][d].app \/ (x = p /\ d = c)
    BY <2>c, <2>r, Zenon
  <2>6. Kept
    BY <2>u, <2>5, Zenon DEF Kept, Joined, IsClosed
  <2>7. ConnOpens
    BY <2>u, <2>2, <2>5 DEF ConnOpens, InNet
  <2>8. StepOrders
    BY <2>u, <2>5 DEF StepOrders, InNet, DataAhead
  <2>9. AccOpens
    <3>1. conn'[p][acc[p].c].app /\ acc'[p].c = acc[p].c
      BY <2>c, <2>r, <2>a, Zenon DEF c
    <3> QED
      BY <2>u, <2>a, <3>1, Zenon DEF AccOpens
  <2> QED
    BY <2>1, <2>4, <2>6, <2>7, <2>8, <2>9, StepKept, Untouched, Zenon
<1>5. CASE AccOk(p)
  <2>1. /\ acc[p].pc = "ok" /\ AccGoto(p, IF IsClosed(p) THEN "exit" ELSE "pop")
        /\ SendInfo(p, "ok", acc[p].c)
        /\ UNCHANGED <<call, conn, connMap, queue, mux, sent, rcvd>>
    BY <1>5, Zenon DEF AccOk
  <2>2. acc[p].c \in Conns /\ conn[p][acc[p].c].app
    BY <1>d, <2>1, Zenon DEF Opened
  <2> DEFINE l == IF IsClosed(p) THEN "exit" ELSE "pop"
  <2>l. l \in {"pop", "exit"}
    BY Zenon
  <2> HIDE DEF l
  <2>3. /\ acc' \in [Peers -> [pc : AccPc, c : Conns \cup {"none"}]]
        /\ acc'[p].pc = l
        /\ \A q \in Peers : q # p => acc'[q] = acc[q]
    <3>1. AccGoto(p, l)
      BY <2>1, Zenon DEF l
    <3> QED
      BY <2>l, <3>1, AccGoes, Zenon DEF AccPc
  <2>4. /\ net' \in [Peers -> [mid : Seq(Pack), low : Seq(Pack)]]
        /\ \A q \in Peers, g \in Flag, d \in Conns :
              InNet(q, g, d)' => InNet(q, g, d) \/ (q = Other(p) /\ g = "ok" /\ d = acc[p].c)
        /\ \A q \in Peers, d \in Conns : DataAhead(q, d) => DataAhead(q, d)'
    <3>1. "ok" \in Flag
      BY Zenon DEF Flag
    <3> QED
      BY <2>1, <2>2, <3>1, SendNet
  <2>5. SessionTypeOK'
    BY <2>1, <2>3, <2>4, ZenonT(30) DEF SessionTypeOK, AccPc
  <2>6. AccOpens
    BY <2>l, <2>3, Zenon DEF AccOpens
  <2>7. ConnOpens
    BY <1>o, <2>1, <2>2, <2>4, ZenonT(30) DEF ConnOpens, Flag
  <2>8. StepOrders
    BY <2>1, <2>4, Zenon DEF StepOrders, Flag
  <2> QED
    BY <2>1, <2>5, <2>6, <2>7, <2>8, StepKept, Untouched, Zenon
<1> QED
  BY <1>1, <1>2, <1>3, <1>4, <1>5, Zenon DEF AccStep

\* The packets of the peer.
LEMMA MidInv ==
    ASSUME SessionInv, NEW p \in Peers, RecvMid(p)
    PROVE  SessionInv'
<1> SessionTypeOK
  BY Zenon DEF SessionInv
<1> DEFINE c == Head(net[p].mid).c
<1>1. CASE RecvNewConn(p)
  <2> DEFINE s == queue[p]
             t == Append(s, c)
             l == IF acc[p].pc = "asleep" THEN "pop" ELSE acc[p].pc
  <2>1. /\ Receive(p, PackClass("new"), "new")
        /\ queue' = [queue EXCEPT ![p] = t]
        /\ AccGoto(p, l)
        /\ UNCHANGED <<call, conn, connMap, mux, sent, rcvd>>
    BY <1>1, PackType, Zenon DEF RecvNewConn, AccGoto
  <2>2. /\ net' \in [Peers -> [mid : Seq(Pack), low : Seq(Pack)]]
        /\ c \in Conns /\ InNet(p, "new", c)
        /\ \A q \in Peers, g \in Flag, d \in Conns : InNet(q, g, d)' => InNet(q, g, d)
        /\ \A q \in Peers, d \in Conns : DataAhead(q, d) => DataAhead(q, d)'
    <3>1. "new" \in Flag
      BY Zenon DEF Flag
    <3> QED
      BY <2>1, <3>1, ReceiveNet, PackType, ZenonT(30)
  <2> HIDE DEF c
  <2>3. /\ t \in Seq(Conns) /\ Len(t) = Len(s) + 1 /\ Len(s) \in Nat
        /\ \A i \in 1 .. Len(s) : t[i] = s[i]
        /\ t[Len(s) + 1] = c
    BY <2>2, QueueType, AppendKeeps, ZenonT(30)
  <2>4. l \in AccPc /\ (l = acc[p].pc \/ l = "pop")
    BY Zenon DEF SessionTypeOK, AccPc
  <2> HIDE DEF t, l
  <2>5. /\ acc' \in [Peers -> [pc : AccPc, c : Conns \cup {"none"}]]
        /\ acc'[p].pc = l /\ acc'[p].c = acc[p].c
        /\ \A q \in Peers : q # p => acc'[q] = acc[q]
    BY <2>1, <2>4, AccGoes, Zenon
  <2>6. /\ queue' \in [Peers -> Seq(Conns)] /\ queue'[p] = t
        /\ \A q \in Peers : q # p => queue'[q] = queue[q]
    BY <2>1, <2>3, Zenon DEF SessionTypeOK
  <2>7. SessionTypeOK'
    BY <2>1, <2>2, <2>5, <2>6, ZenonT(30) DEF SessionTypeOK, AccPc
  <2>8. AccOpens
    BY <2>4, <2>5, Zenon DEF AccOpens
  <2>9. QueueOpens
    <3> SUFFICES ASSUME NEW q \in Peers, NEW i \in 1 .. Len(queue'[q])
                 PROVE  /\ queue'[q][i] \in Conns
                        /\ \/ \E j \in 1 .. Len(queue[q]) : queue'[q][i] = queue[q][j]
                           \/ InNet(q, "new", queue'[q][i])
      BY Zenon DEF QueueOpens
    <3>1. CASE q # p
      BY <2>6, <3>1, QueueType, Zenon
    <3>2. CASE q = p /\ i = Len(s) + 1
      BY <2>2, <2>3, <2>6, <3>2, Zenon
    <3>3. CASE q = p /\ i # Len(s) + 1
      <4>1. i \in 1 .. Len(s) /\ queue'[q][i] = s[i]
        BY <2>3, <2>6, <3>3
      <4> QED
        BY <3>3, <4>1, QueueType, Zenon
    <3> QED
      BY <3>1, <3>2, <3>3, ZenonT(30)
  <2>a. ConnOpens
    BY <2>1, <2>2, Zenon DEF ConnOpens, Flag
  <2>b. StepOrders
    BY <2>1, <2>2, ZenonT(30) DEF StepOrders, Flag
  <2> QED
    BY <2>1, <2>7, <2>8, <2>9, <2>a, <2>b, StepKept, Untouched, Zenon
<1>2. CASE RecvNewConnOk(p)
  <2> DEFINE b == conn[p][c].ok \/ Known(p, c)
             r == [conn[p][c] EXCEPT !.ok = b]
  <2>1. /\ Receive(p, PackClass("ok"), "ok")
        /\ conn' = [conn EXCEPT ![p] = [@ EXCEPT ![c] = r]]
        /\ UNCHANGED <<call, connMap, queue, acc, mux, sent, rcvd>>
    BY <1>2, PackType, ZenonT(30) DEF RecvNewConnOk
  <2>2. /\ net' \in [Peers -> [mid : Seq(Pack), low : Seq(Pack)]]
        /\ c \in Conns /\ InNet(p, "ok", c)
        /\ \A q \in Peers, g \in Flag, d \in Conns : InNet(q, g, d)' => InNet(q, g, d)
        /\ \A q \in Peers, d \in Conns : DataAhead(q, d) => DataAhead(q, d)'
    <3>1. "ok" \in Flag
      BY Zenon DEF Flag
    <3> QED
      BY <2>1, <3>1, ReceiveNet, PackType, ZenonT(30)
  <2> HIDE DEF c
  <2>3. conn[p][c] \in ConnType
    BY <2>2, ConnObj, Zenon
  <2>b. b \in BOOLEAN
    BY Zenon DEF Known
  <2> HIDE DEF b
  <2>t. r \in ConnType
    BY <2>3, <2>b, Zenon DEF ConnType
  <2>r. r.isClose = conn[p][c].isClose /\ r.closing = conn[p][c].closing /\ r.app = conn[p][c].app
    BY <2>3, Zenon DEF ConnType
  <2> HIDE DEF r
  <2>c. /\ conn' \in [Peers -> [Conns -> ConnType]] /\ conn'[p][c] = r
        /\ \A x \in Peers, d \in Conns : x # p \/ d # c => conn'[x][d] = conn[x][d]
    <3>1. ASSUME NEW z \in Conns, z = c
          PROVE  /\ conn' \in [Peers -> [Conns -> ConnType]] /\ conn'[p][z] = r
                 /\ \A x \in Peers, d \in Conns : x # p \/ d # z => conn'[x][d] = conn[x][d]
      <4>1. conn' = [conn EXCEPT ![p] = [@ EXCEPT ![z] = r]]
        BY <2>1, <3>1, Zenon
      <4> QED
        BY <2>t, <4>1, ConnUpdate, ZenonT(30)
    <3> QED
      BY <2>2, <3>1, Zenon
  <2>4. SessionTypeOK'
    BY <2>1, <2>2, <2>c, ZenonT(30) DEF SessionTypeOK, ConnType
  <2>5. ASSUME NEW x \in Peers, NEW d \in Conns
        PROVE  /\ conn'[x][d].isClose = conn[x][d].isClose
               /\ conn'[x][d].closing = conn[x][d].closing
               /\ conn'[x][d].app = conn[x][d].app
               /\ conn'[x][d].ok => conn[x][d].ok \/ (x = p /\ d = c)
    BY <2>c, <2>r, Zenon
  <2>6. Kept
    BY <2>1, <2>5 DEF Kept, Joined, IsClosed
  <2>7. ConnOpens
    BY <2>1, <2>2, <2>5 DEF ConnOpens, Flag
  <2>8. StepOrders
    BY <2>1, <2>2, <2>5 DEF StepOrders, Flag
  <2> QED
    BY <2>1, <2>4, <2>6, <2>7, <2>8, StepKept, Untouched, Zenon
<1> QED
  BY <1>1, <1>2, Zenon DEF RecvMid

LEMMA LowInv ==
    ASSUME SessionInv, NEW p \in Peers, RecvLow(p)
    PROVE  SessionInv'
<1> SessionTypeOK
  BY Zenon DEF SessionInv
<1> DEFINE c == Head(net[p].low).c
<1>1. CASE RecvMsg(p)
  <2>1. /\ Receive(p, PackClass("data"), "data")
        /\ rcvd' = [rcvd EXCEPT ![p] = IF Known(p, c) THEN @ \cup {c} ELSE @]
        /\ UNCHANGED <<call, conn, connMap, queue, acc, mux, sent>>
    BY <1>1, PackType, Zenon DEF RecvMsg
  <2>2. /\ net' \in [Peers -> [mid : Seq(Pack), low : Seq(Pack)]]
        /\ c \in Conns
        /\ \A q \in Peers, g \in Flag, d \in Conns : InNet(q, g, d)' => InNet(q, g, d)
        /\ \A q \in Peers, d \in Conns : DataAhead(q, d) => DataAhead(q, d)' \/ (q = p /\ d = c)
    <3>1. "data" \in Flag
      BY Zenon DEF Flag
    <3> QED
      BY <2>1, <3>1, ReceiveNet, PackType, ZenonT(30)
  <2> HIDE DEF c
  <2>3. /\ rcvd' \in [Peers -> SUBSET Conns]
        /\ \A q \in Peers : rcvd[q] \subseteq rcvd'[q]
        /\ Known(p, c) => c \in rcvd'[p]
    BY <2>1, <2>2, Zenon DEF SessionTypeOK
  <2>4. SessionTypeOK'
    BY <2>1, <2>2, <2>3, ZenonT(30) DEF SessionTypeOK
  <2>5. Kept
    BY <2>1, <2>3, Zenon DEF Kept, Joined, IsClosed
  <2>6. ConnOpens
    BY <2>1, <2>2, Zenon DEF ConnOpens, Flag
  <2>7. StepOrders
    BY <2>1, <2>2, <2>3, ZenonT(30) DEF StepOrders, Flag
  <2> QED
    BY <2>1, <2>4, <2>5, <2>6, <2>7, StepKept, Untouched, Zenon
<1>2. CASE RecvConnClose(p)
  <2> DEFINE b == conn[p][c].closing \/ Known(p, c)
             r == [conn[p][c] EXCEPT !.closing = b]
  <2>1. /\ Receive(p, PackClass("close"), "close")
        /\ conn' = [conn EXCEPT ![p] = [@ EXCEPT ![c] = r]]
        /\ UNCHANGED <<call, connMap, queue, acc, mux, sent, rcvd>>
    BY <1>2, PackType, ZenonT(30) DEF RecvConnClose
  <2>2. /\ net' \in [Peers -> [mid : Seq(Pack), low : Seq(Pack)]]
        /\ c \in Conns /\ InNet(p, "close", c) /\ ~DataAhead(p, c)
        /\ \A q \in Peers, g \in Flag, d \in Conns : InNet(q, g, d)' => InNet(q, g, d)
        /\ \A q \in Peers, d \in Conns : DataAhead(q, d) => DataAhead(q, d)'
    <3>1. "close" \in Flag
      BY Zenon DEF Flag
    <3> QED
      BY <2>1, <3>1, ReceiveNet, PackType, ZenonT(30)
  <2> HIDE DEF c
  <2>3. conn[p][c] \in ConnType
    BY <2>2, ConnObj, Zenon
  <2>b. b \in BOOLEAN /\ (b => conn[p][c].closing \/ ~conn[p][c].isClose)
    BY Zenon DEF Known
  <2> HIDE DEF b
  <2>t. r \in ConnType
    BY <2>3, <2>b, Zenon DEF ConnType
  <2>r. /\ r.isClose = conn[p][c].isClose /\ r.ok = conn[p][c].ok /\ r.app = conn[p][c].app
        /\ r.closing = b
    BY <2>3, Zenon DEF ConnType
  <2> HIDE DEF r
  <2>c. /\ conn' \in [Peers -> [Conns -> ConnType]] /\ conn'[p][c] = r
        /\ \A x \in Peers, d \in Conns : x # p \/ d # c => conn'[x][d] = conn[x][d]
    <3>1. ASSUME NEW z \in Conns, z = c
          PROVE  /\ conn' \in [Peers -> [Conns -> ConnType]] /\ conn'[p][z] = r
                 /\ \A x \in Peers, d \in Conns : x # p \/ d # z => conn'[x][d] = conn[x][d]
      <4>1. conn' = [conn EXCEPT ![p] = [@ EXCEPT ![z] = r]]
        BY <2>1, <3>1, Zenon
      <4> QED
        BY <2>t, <4>1, ConnUpdate, ZenonT(30)
    <3> QED
      BY <2>2, <3>1, Zenon
  <2>4. SessionTypeOK'
    BY <2>1, <2>2, <2>c, ZenonT(30) DEF SessionTypeOK, ConnType
  <2>5. ASSUME NEW x \in Peers, NEW d \in Conns
        PROVE  /\ conn'[x][d].isClose = conn[x][d].isClose
               /\ conn'[x][d].ok = conn[x][d].ok
               /\ conn'[x][d].app = conn[x][d].app
               /\ conn'[x][d].closing =>
                     conn[x][d].closing \/ (x = p /\ d = c /\ ~conn[x][d].isClose)
    BY <2>b, <2>c, <2>r, Zenon
  <2>6. Kept
    BY <2>1, <2>5 DEF Kept, Joined, IsClosed
  <2>7. ConnOpens
    BY <2>1, <2>2, <2>5 DEF ConnOpens, Flag
  <2>8. StepOrders
    BY <2>1, <2>2, <2>5 DEF StepOrders, Flag
  <2> QED
    BY <2>1, <2>4, <2>6, <2>7, <2>8, StepKept, Untouched, Zenon
<1> QED
  BY <1>1, <1>2, Zenon DEF RecvLow

\* Mux.Close.
LEMMA StepMux ==
    ASSUME SessionTypeOK, NEW p \in Peers, NEW r \in [pc : {"copy", "conns", "done"}, todo : SUBSET Conns],
           mux' = [mux EXCEPT ![p] = r]
    PROVE  /\ mux' \in [Peers -> [pc : {"open", "copy", "conns", "done"}, todo : SUBSET Conns]]
           /\ \A q \in Peers : IsClosed(q) => IsClosed(q)'
           /\ IsClosed(p)'
  BY Zenon DEF SessionTypeOK, IsClosed

LEMMA CloseMuxInv ==
    ASSUME SessionInv, NEW p \in Peers, CloseMux(p) \/ CloseStep(p)
    PROVE  SessionInv'
<1> SessionTypeOK
  BY Zenon DEF SessionInv
<1>m. /\ mux[p] \in [pc : {"open", "copy", "conns", "done"}, todo : SUBSET Conns]
      /\ connMap[p] \in SUBSET Conns
  BY Zenon DEF SessionTypeOK
<1>1. CASE CloseMux(p) \/ CloseCopy(p)
  <2>1. /\ \/ mux' = [mux EXCEPT ![p] = [@ EXCEPT !.pc = "copy"]]
           \/ mux' = [mux EXCEPT ![p] = [pc |-> "conns", todo |-> connMap[p]]]
        /\ UNCHANGED <<call, conn, connMap, queue, acc, net, sent, rcvd>>
    BY <1>1, Zenon DEF CloseMux, CloseCopy, Step
  <2>2. PICK r \in [pc : {"copy", "conns", "done"}, todo : SUBSET Conns] :
           mux' = [mux EXCEPT ![p] = r]
    <3>1. /\ [mux[p] EXCEPT !.pc = "copy"] \in [pc : {"copy", "conns", "done"}, todo : SUBSET Conns]
          /\ [pc |-> "conns", todo |-> connMap[p]] \in [pc : {"copy", "conns", "done"}, todo : SUBSET Conns]
      BY <1>m, Zenon
    <3> QED
      BY <2>1, <3>1, Zenon
  <2>3. /\ mux' \in [Peers -> [pc : {"open", "copy", "conns", "done"}, todo : SUBSET Conns]]
        /\ \A q \in Peers : IsClosed(q) => IsClosed(q)'
    BY <2>2, StepMux, ZenonT(30)
  <2>4. SessionTypeOK'
    BY <2>1, <2>3, Zenon DEF SessionTypeOK
  <2>5. Kept
    BY <2>1, <2>3, Zenon DEF Kept, Joined
  <2> QED
    BY <2>1, <2>4, <2>5, StepKept, Untouched, Zenon
<1>2. CASE CloseConn(p)
  <2>1. PICK c \in mux[p].todo :
           /\ mux[p].pc = "conns" /\ mux' = [mux EXCEPT ![p].todo = @ \ {c}]
           /\ closeProcess(p, c, TRUE)
           /\ UNCHANGED <<call, queue, acc, sent, rcvd>>
    BY <1>2, ZenonT(30) DEF CloseConn
  <2> DEFINE r == [mux[p] EXCEPT !.todo = mux[p].todo \ {c}]
  <2>2. r \in [pc : {"copy", "conns", "done"}, todo : SUBSET Conns] /\ c \in Conns
    BY <1>m, <2>1, Zenon
  <2>r. mux' = [mux EXCEPT ![p] = r]
    BY <2>1, Zenon
  <2> HIDE DEF r
  <2>3. /\ mux' \in [Peers -> [pc : {"open", "copy", "conns", "done"}, todo : SUBSET Conns]]
        /\ \A q \in Peers : IsClosed(q) => IsClosed(q)'
    BY <2>2, <2>r, StepMux, ZenonT(30)
  <2>4. /\ conn' \in [Peers -> [Conns -> [isClose : BOOLEAN, closing : BOOLEAN,
                                          ok : BOOLEAN, app : BOOLEAN]]]
        /\ connMap' \in [Peers -> SUBSET Conns]
        /\ net' \in [Peers -> [mid : Seq(Pack), low : Seq(Pack)]]
        /\ Kept /\ ConnOpens /\ StepOrders
    BY <2>1, <2>2, <2>3, CloseKept, ZenonT(30)
  <2>5. SessionTypeOK'
    BY <2>1, <2>3, <2>4, Zenon DEF SessionTypeOK
  <2> QED
    BY <2>1, <2>4, <2>5, StepKept, Untouched, Zenon
<1>3. CASE release(p)
  <2> DEFINE l == IF acc[p].pc = "asleep" THEN "pop" ELSE acc[p].pc
             r == [mux[p] EXCEPT !.pc = "done"]
  <2>1. /\ mux[p].pc = "conns" /\ mux' = [mux EXCEPT ![p] = r] /\ TryPopAll(p)
        /\ queue' = [queue EXCEPT ![p] = <<>>] /\ AccGoto(p, l)
        /\ UNCHANGED <<call, conn, connMap, sent, rcvd>>
    BY <1>3, Zenon DEF release, Step, AccGoto
  <2>2. r \in [pc : {"copy", "conns", "done"}, todo : SUBSET Conns]
    BY <1>m, Zenon
  <2> HIDE DEF r
  <2>3. /\ mux' \in [Peers -> [pc : {"open", "copy", "conns", "done"}, todo : SUBSET Conns]]
        /\ \A q \in Peers : IsClosed(q) => IsClosed(q)'
    BY <2>1, <2>2, StepMux, ZenonT(30)
  <2>4. l \in AccPc /\ (l = acc[p].pc \/ l = "pop")
    BY Zenon DEF SessionTypeOK, AccPc
  <2> HIDE DEF l
  <2>5. /\ acc' \in [Peers -> [pc : AccPc, c : Conns \cup {"none"}]]
        /\ acc'[p].pc = l /\ acc'[p].c = acc[p].c
        /\ \A q \in Peers : q # p => acc'[q] = acc[q]
    BY <2>1, <2>4, AccGoes, Zenon
  <2>6. /\ net' \in [Peers -> [mid : Seq(Pack), low : Seq(Pack)]]
        /\ \A q \in Peers, g \in Flag, d \in Conns : InNet(q, g, d)' => InNet(q, g, d)
        /\ \A d \in Conns : DataAhead(p, d) => DataAhead(p, d)'
    BY <2>1, ReleaseNet, ZenonT(30)
  <2>7. queue' \in [Peers -> Seq(Conns)] /\ queue'[p] = <<>> /\ \A q \in Peers : q # p => queue'[q] = queue[q]
    BY <2>1 DEF SessionTypeOK
  <2>8. SessionTypeOK'
    BY <2>1, <2>3, <2>5, <2>6, <2>7, ZenonT(30) DEF SessionTypeOK, AccPc
  <2>9. AccOpens
    BY <2>4, <2>5, Zenon DEF AccOpens
  <2>a. QueueOpens
    BY <2>7, QueueType DEF QueueOpens
  <2>b. Kept
    BY <2>1, <2>3, Zenon DEF Kept, Joined
  <2>c. ConnOpens
    BY <2>1, <2>6, Zenon DEF ConnOpens, Flag
  <2>d. StepOrders
    <3>1. \A q \in Peers : q # p => IsClosed(Other(q))
      BY <2>1, OtherPeer, Zenon DEF IsClosed
    <3> QED
      BY <2>1, <2>6, <3>1, ZenonT(30) DEF StepOrders, Flag
  <2> QED
    BY <2>1, <2>8, <2>9, <2>a, <2>b, <2>c, <2>d, StepKept, Untouched, Zenon
<1> QED
  BY <1>1, <1>2, <1>3, Zenon DEF CloseStep

-----------------------------------------------------------------------------
(* The theorems                                                              *)

LEMMA SessionInitInv == SessionInit => SessionInv
<1> SUFFICES ASSUME SessionInit
             PROVE  SessionInv
  BY Zenon
<1>1. SessionTypeOK
  BY DEF SessionInit, SessionTypeOK, NewConnObj
<1>2. /\ \A p \in Peers : queue[p] = <<>> /\ acc[p].pc = "pop" /\ sent[p] = {}
      /\ \A p \in Peers, c \in Conns : /\ ~conn[p][c].app /\ ~conn[p][c].ok
                                       /\ ~conn[p][c].closing
      /\ \A c \in Conns : call[c] = "idle"
  BY Zenon DEF SessionInit, NewConnObj
<1>3. \A p \in Peers, f \in Flag, c \in Conns : ~InNet(p, f, c)
  <2>1. \A p \in Peers, k \in {"mid", "low"} : net[p][k] = <<>>
    BY DEF SessionInit
  <2>2. \A p \in Peers, f \in Flag : Len(net[p][PackClass(f)]) = 0
    BY <2>1, PackType
  <2> QED
    BY <2>2 DEF InNet
<1>4. Opened
  BY <1>2, <1>3 DEF Opened, Flag
<1>5. Ordered
  BY <1>2, <1>3, OtherPeer, Zenon DEF Ordered, Flag
<1>6. OkMeansAccepted /\ EOFAfterData
  BY <1>2, Zenon DEF OkMeansAccepted, EOFAfterData
<1> QED
  BY <1>1, <1>4, <1>5, <1>6, Zenon DEF SessionInv

LEMMA SessionNextInv == SessionInv /\ [SessionNext]_sessionVars => SessionInv'
<1> SUFFICES ASSUME SessionInv, [SessionNext]_sessionVars
             PROVE  SessionInv'
  BY Zenon
<1> SessionTypeOK
  BY Zenon DEF SessionInv
<1>1. CASE \E c \in Conns : NewConn(c) \/ CallStep(c)
  BY <1>1, CallerInv, Zenon DEF Peers
<1>2. CASE \E p \in Peers, c \in Conns : AppClose(p, c) \/ Write(p, c)
  BY <1>2, CallerInv, Zenon
<1>3. CASE \E p \in Peers : AccStep(p) \/ RecvMid(p) \/ RecvLow(p) \/ CloseMux(p) \/ CloseStep(p)
  BY <1>3, AccInv, MidInv, LowInv, CloseMuxInv, Zenon
<1>4. CASE UNCHANGED sessionVars
  <2>1. UNCHANGED <<call, conn, connMap, queue, acc, net, mux, sent, rcvd>>
    BY <1>4, Zenon DEF sessionVars
  <2>2. SessionTypeOK'
    BY <2>1, Zenon DEF SessionTypeOK
  <2> QED
    BY <2>1, <2>2, StepKept, Untouched, Zenon
<1> QED
  BY <1>1, <1>2, <1>3, <1>4, Zenon DEF SessionNext

LEMMA SessionAlways == SessionSpec => []SessionInv
  BY SessionInitInv, SessionNextInv, PTL DEF SessionSpec

\* Whatever the two ends open, close and time out, and however the two chains of
\* a direction overtake each other: NewConn returns a connection only after an
\* Accept of the peer has returned it.
THEOREM OpenedIsAccepted == SessionSpec => []OkMeansAccepted
  BY SessionAlways, PTL DEF SessionInv

\* An end sees a connection closing only when the other end has closed it and,
\* unless the mux of that end is closed, with everything it wrote received.
THEOREM CloseFollowsData == SessionSpec => []EOFAfterData
  BY SessionAlways, PTL DEF SessionInv
=============================================================================
