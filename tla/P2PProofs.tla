------------------------------ MODULE P2PProofs ------------------------------
(***************************************************************************)
(* The direct tunnels: whatever the NATs and the losses, a visitor that is *)
(* done and its provider agree on the pair of addresses; and the visitor's *)
(* manager leaks no tunnel, for any number of callers, tunnels, control    *)
(* connections, attempts and failures.                                     *)
(***************************************************************************)
EXTENDS P2PPunch, P2PManager, FiniteSetTheorems, TLAPS

-----------------------------------------------------------------------------
(* The handshake (P2PPunch) *)

Handshake == {"CONNECT", "SUCCESS", "END"}
EndFields == {"phase", "peer", "self", "plocal", "probe", "seed", "warm", "base", "targets",
              "socks", "win", "rem"}

\* An end: until it has a result it has no pair, and until it punches one socket.
EndRec(n) ==
    /\ n = [f \in EndFields |-> n[f]]
    /\ n.phase \in {"ask", "collect", "punch", "won", "done", "failed"}
    /\ n.socks \in {{0}, Sock} /\ n.win \in Sock
    /\ IsFiniteSet(DOMAIN n.targets)
    /\ n.phase \in {"ask", "collect"} => n.socks = {0}
    /\ n.phase \in {"ask", "collect", "punch"} => n.win = 0 /\ n.rem = 0
    /\ n.phase = "won" => n.rem # 0 /\ n.socks = Sock

\* The tables of the NATs.
NatRec(map) ==
    /\ map = [p \in DOMAIN map |-> map[p]] /\ IsFiniteSet(DOMAIN map)
    /\ \A p \in DOMAIN map : map[p] \in Nat

Ends ==
    /\ end = [e \in End |-> end[e]] /\ \A e \in End : EndRec(end[e])
    /\ nat = [e \in End |-> nat[e]] /\ \A e \in End : NatRec(nat[e])

\* Packets of the handshake are for an open socket and come from an address.
ForSocket(pk) ==
    \A e \in End : pk.e = e => pk.s \in end[e].socks /\ pk.from \in Int \ {0}

\* The provider has accepted; if it has one socket, it waits for what socket s of
\* the visitor sends to address a, and hears it.
Agrees(s, a) ==
    LET n == end["provider"]
        f == From("visitor", s, a, nat["visitor"])
    IN  /\ n.rem # 0
        /\ n.socks = {0} =>
              /\ f = n.rem /\ n.win \in Reaches("provider", f, a)
              /\ network.nat["visitor"] = "sym" /\ ~IsLocal(a) => <<s, a>> \in DOMAIN nat["visitor"]

\* Whoever sends END to the visitor is a provider that agrees with the pair the
\* visitor will then have.
PunchInv ==
    /\ Ends
    /\ \A pk \in net : pk.k \in Handshake => ForSocket(pk)
    /\ \A pk \in net : pk.k = "END" /\ pk.e = "visitor" => Agrees(pk.s, pk.from)
    /\ end["visitor"].phase \in {"won", "done"} =>
          Agrees(end["visitor"].win, end["visitor"].rem)

-----------------------------------------------------------------------------
(* What a step may do                                                        *)

\* An end opens sockets, and keeps the pair it has.
Follows(n, m) ==
    /\ n.socks \subseteq m.socks
    /\ n.rem # 0 => m.rem = n.rem /\ m.socks = n.socks /\ m.win = n.win

Grows(map, new) == \A p \in DOMAIN map : p \in DOMAIN new /\ new[p] = map[p]

EndsFollow ==
    \A e \in End : Follows(end[e], end'[e]) /\ Grows(nat[e], nat'[e])

NetSends ==
    \A pk \in net' : \/ pk \in net \/ pk.k \notin Handshake
                     \/ /\ ForSocket(pk)'
                        /\ pk.k = "END" /\ pk.e = "visitor" => Agrees(pk.s, pk.from)'

VisitorWins ==
    LET n == end["visitor"]
        m == end'["visitor"]
    IN  \/ m.phase \notin {"won", "done"}
        \/ n.phase \in {"won", "done"} /\ m.win = n.win /\ m.rem = n.rem
        \/ \E pk \in net : /\ pk.k = "END" /\ pk.e = "visitor"
                           /\ m.win = pk.s /\ m.rem = pk.from

LEMMA EndPeer ==
    /\ "visitor" \in End /\ "provider" \in End
    /\ \A e \in End : Peer(e) \in End /\ Peer(e) # e /\ Base[e] \in Nat \ {0}
    /\ Peer("provider") = "visitor" /\ Peer("visitor") = "provider"
    /\ \A e, d \in End : d # e => d = Peer(e)
  BY DEF End, Peer, Base

LEMMA AgreesKept ==
    ASSUME Ends, EndsFollow, UNCHANGED network, NEW s, NEW a, Agrees(s, a)
    PROVE  Agrees(s, a)'
<1> DEFINE n == end["provider"]
           m == end'["provider"]
           v == nat["visitor"]
           w == nat'["visitor"]
           p == nat["provider"]
           q == nat'["provider"]
           f == From("visitor", s, a, v)
<1>1. /\ n.rem # 0 /\ m.rem = n.rem /\ m.socks = n.socks /\ m.win = n.win
      /\ Grows(v, w) /\ Grows(p, q)
  BY EndPeer, Zenon DEF Agrees, EndsFollow, Follows
<1> SUFFICES ASSUME n.socks = {0}
             PROVE  /\ From("visitor", s, a, nat["visitor"])' = n.rem
                    /\ n.win \in Reaches("provider", n.rem, a)'
                    /\ network.nat["visitor"] = "sym" /\ ~IsLocal(a) => <<s, a>> \in DOMAIN w
  BY <1>1, Zenon DEF Agrees
<1>2. /\ f = n.rem /\ n.win \in Reaches("provider", f, a)
      /\ network.nat["visitor"] = "sym" /\ ~IsLocal(a) => <<s, a>> \in DOMAIN v
  BY Zenon DEF Agrees
<1>3. From("visitor", s, a, nat["visitor"])' = f
  BY <1>1, <1>2, Zenon DEF From, Grows
<1>4. n.win \in Reaches("provider", n.rem, a)'
  BY <1>1, <1>2 DEF Reaches, Grows
<1> QED
  BY <1>1, <1>2, <1>3, <1>4, Zenon DEF Grows

LEMMA StepKept ==
    ASSUME PunchInv, Ends', EndsFollow, NetSends, VisitorWins, UNCHANGED network
    PROVE  PunchInv'
<1>1. \A pk \in net' : pk.k \in Handshake => ForSocket(pk)'
  BY Zenon DEF PunchInv, NetSends, ForSocket, EndsFollow, Follows
<1>2. \A pk \in net' : pk.k = "END" /\ pk.e = "visitor" => Agrees(pk.s, pk.from)'
  BY AgreesKept, Zenon DEF PunchInv, NetSends, Handshake
<1>3. end'["visitor"].phase \in {"won", "done"} =>
         Agrees(end["visitor"].win, end["visitor"].rem)'
  <2> DEFINE m == end'["visitor"]
  <2> SUFFICES ASSUME m.phase \in {"won", "done"}
               PROVE  Agrees(end["visitor"].win, end["visitor"].rem)'
    BY Zenon
  <2>1. PICK s, a : m.win = s /\ m.rem = a /\ Agrees(s, a)
    BY Zenon DEF VisitorWins, PunchInv
  <2>2. Agrees(s, a)'
    BY <2>1, AgreesKept, Zenon DEF PunchInv
  <2> QED
    BY <2>1, <2>2, Zenon
<1> QED
  BY <1>1, <1>2, <1>3, Zenon DEF PunchInv

-----------------------------------------------------------------------------
(* The NATs                                                                  *)

\* The address a packet comes from is one, and a local one exactly if the packet
\* goes to a local one.
LEMMA FromAddr ==
    ASSUME NEW e \in End, NEW s \in Sock, NEW to, NEW map, NatRec(map),
           ~IsLocal(to) => <<s, to>> \in DOMAIN map
    PROVE  /\ From(e, s, to, map) \in Int \ {0}
           /\ IsLocal(From(e, s, to, map)) <=> IsLocal(to)
<1> DEFINE b == Base[e]
<1>1. b \in Nat \ {0} /\ s \in {0, 1} /\ Step \in Nat
  BY EndPeer, BoundsAssumption DEF Sock
<1> HIDE DEF b
<1>2. CASE IsLocal(to)
  <2>1. From(e, s, to, map) = -(b + s)
    BY <1>2, Zenon DEF From, Local, b
  <2>2. -(b + s) \in Int \ {0} /\ -(b + s) < 0
    BY <1>1
  <2> QED
    BY <1>2, <2>1, <2>2, Zenon DEF IsLocal
<1>3. CASE ~IsLocal(to) /\ network.nat[e] = "sym"
  <2> DEFINE k == map[<<s, to>>]
  <2>1. k \in Nat
    BY <1>3, Zenon DEF NatRec
  <2>2. From(e, s, to, map) = b + Step * k
    BY <1>3, Zenon DEF From, b
  <2> HIDE DEF k
  <2>3. Step * k \in Nat
    BY <1>1, <2>1
  <2>4. b + Step * k \in Int \ {0} /\ ~(b + Step * k < 0)
    BY <1>1, <2>3
  <2> QED
    BY <1>3, <2>2, <2>4, Zenon DEF IsLocal
<1>4. CASE ~IsLocal(to) /\ network.nat[e] # "sym"
  <2>1. From(e, s, to, map) = b + 50 * s
    BY <1>4, Zenon DEF From, b
  <2>2. b + 50 * s \in Int \ {0} /\ ~(b + 50 * s < 0)
    BY <1>1
  <2> QED
    BY <1>4, <2>1, <2>2, Zenon DEF IsLocal
<1> QED
  BY <1>2, <1>3, <1>4, Zenon

\* A socket that a packet from `from' to `to' reaches answers from `to'.
LEMMA ReachedAnswers ==
    ASSUME NEW e \in End, NEW from, NEW to, NEW s \in Reaches(e, from, to),
           IsLocal(from) <=> IsLocal(to)
    PROVE  /\ From(e, s, from, nat[e]) = to
           /\ IsLocal(to) => network.lan
           /\ network.nat[e] = "sym" /\ ~IsLocal(from) => <<s, from>> \in DOMAIN nat[e]
  BY Zenon DEF Reaches, From

\* A table keeps what is in it, and has what is sent to.
LEMMA MappingsGrow ==
    ASSUME NEW e \in End, NatRec(nat[e]), NEW tos, IsFiniteSet(DOMAIN tos)
    PROVE  /\ NatRec(NewMappings(e, tos)) /\ Grows(nat[e], NewMappings(e, tos))
           /\ \A i \in DOMAIN tos : ~IsLocal(tos[i][2]) => tos[i] \in DOMAIN NewMappings(e, tos)
<1> DEFINE map == nat[e]
           new == {i \in DOMAIN tos : ~IsLocal(tos[i][2]) /\ tos[i] \notin DOMAIN map}
           to == {tos[i] : i \in new}
           number(i) == Cardinality(DOMAIN map) + Cardinality({j \in new : j < i})
           res == [p \in DOMAIN map \cup to |->
                      IF p \in DOMAIN map THEN map[p] ELSE number(CHOOSE i \in new : tos[i] = p)]
<1>1. NewMappings(e, tos) = res
  BY Zenon DEF NewMappings
<1>2. IsFiniteSet(DOMAIN map) /\ \A p \in DOMAIN map : map[p] \in Nat
  BY Zenon DEF NatRec
<1>3. IsFiniteSet(new)
  BY FS_Subset, Zenon
<1>4. IsFiniteSet(to)
  <2> DEFINE f == [i \in new |-> tos[i]]
  <2>1. f \in Surjection(new, to)
    BY Zenon DEF Surjection
  <2> QED
    BY <1>3, <2>1, FS_Surjection, Zenon
<1>5. IsFiniteSet(DOMAIN map \cup to)
  BY <1>2, <1>4, FS_Union, ZenonT(30)
<1>6. \A i : number(i) \in Nat
  <2> SUFFICES ASSUME NEW i
               PROVE  number(i) \in Nat
    BY Zenon
  <2>1. IsFiniteSet({j \in new : j < i})
    BY <1>3, FS_Subset, Zenon
  <2>2. Cardinality(DOMAIN map) \in Nat /\ Cardinality({j \in new : j < i}) \in Nat
    BY <1>2, <2>1, FS_CardinalityType, Zenon
  <2> QED
    BY <2>2
<1> HIDE DEF number
<1>7. NatRec(res)
  BY <1>2, <1>5, <1>6 DEF NatRec
<1>8. Grows(map, res)
  BY Zenon DEF Grows
<1>9. \A i \in DOMAIN tos : ~IsLocal(tos[i][2]) => tos[i] \in DOMAIN res
  BY Zenon
<1> QED
  BY <1>1, <1>7, <1>8, <1>9, Zenon

\* A sequence of destinations: every member names a socket.
Tos(tos) ==
    /\ IsFiniteSet(DOMAIN tos)
    /\ \A i \in DOMAIN tos : tos[i] = <<tos[i][1], tos[i][2]>> /\ tos[i][1] \in Sock

\* What Send adds to the net.
LEMMA SendAdds ==
    ASSUME Ends, NEW e \in End, NEW ks, NEW tos, NEW after, Tos(tos), Send(e, ks, tos, after)
    PROVE  /\ nat' = [nat EXCEPT ![e] = nat'[e]] /\ NatRec(nat'[e]) /\ Grows(nat[e], nat'[e])
           /\ \A i \in DOMAIN tos : ~IsLocal(tos[i][2]) => tos[i] \in DOMAIN nat'[e]
           /\ \A pk \in net' :
                 \/ pk \in after
                 \/ \E i \in DOMAIN tos :
                       LET f == From(e, tos[i][1], tos[i][2], nat'[e]) IN
                       /\ f \in Int \ {0} /\ (IsLocal(f) <=> IsLocal(tos[i][2]))
                       /\ pk.k \in ks /\ pk.e = Peer(e) /\ pk.from = f
                       /\ pk.s \in Reaches(Peer(e), f, tos[i][2])
<1> DEFINE map == NewMappings(e, tos)
<1>1. /\ nat' = [nat EXCEPT ![e] = map]
      /\ net' = after \cup
                  UNION {{[k |-> k, e |-> Peer(e), s |-> t, from |-> From(e, tos[i][1], tos[i][2], map)] :
                             t \in {u \in Reaches(Peer(e), From(e, tos[i][1], tos[i][2], map), tos[i][2]) :
                                       Matters(Peer(e), u)},
                             k \in ks} :
                         i \in DOMAIN tos}
  BY DEF Send
<1>2. NatRec(nat[e])
  BY Zenon DEF Ends
<1>3. /\ NatRec(map) /\ Grows(nat[e], map)
      /\ \A i \in DOMAIN tos : ~IsLocal(tos[i][2]) => tos[i] \in DOMAIN map
  BY <1>2, MappingsGrow, Zenon DEF Tos
<1> HIDE DEF map
<1>4. nat'[e] = map
  BY <1>1, Zenon DEF Ends
<1>5. ASSUME NEW i \in DOMAIN tos
      PROVE  LET f == From(e, tos[i][1], tos[i][2], map) IN
             f \in Int \ {0} /\ (IsLocal(f) <=> IsLocal(tos[i][2]))
  <2>1. tos[i] = <<tos[i][1], tos[i][2]>> /\ tos[i][1] \in Sock
    BY Zenon DEF Tos
  <2> DEFINE s == tos[i][1]
             to == tos[i][2]
  <2>2. ~IsLocal(to) => <<s, to>> \in DOMAIN map
    BY <1>3, <2>1, Zenon
  <2>3. s \in Sock
    BY <2>1, Zenon
  <2> HIDE DEF s, to
  <2>4. From(e, s, to, map) \in Int \ {0} /\ (IsLocal(From(e, s, to, map)) <=> IsLocal(to))
    BY <1>3, <2>2, <2>3, FromAddr, Zenon
  <2> QED
    BY <2>4, Zenon DEF s, to
<1>6. ASSUME NEW pk \in net', pk \notin after
      PROVE  \E i \in DOMAIN tos :
                LET f == From(e, tos[i][1], tos[i][2], map) IN
                /\ pk.k \in ks /\ pk.e = Peer(e) /\ pk.from = f
                /\ pk.s \in Reaches(Peer(e), f, tos[i][2])
  <2>1. PICK i \in DOMAIN tos :
           pk \in {[k |-> k, e |-> Peer(e), s |-> t, from |-> From(e, tos[i][1], tos[i][2], map)] :
                      t \in {u \in Reaches(Peer(e), From(e, tos[i][1], tos[i][2], map), tos[i][2]) :
                                Matters(Peer(e), u)},
                      k \in ks}
    BY <1>1, <1>6
  <2>2. PICK t \in Reaches(Peer(e), From(e, tos[i][1], tos[i][2], map), tos[i][2]), k \in ks :
           pk = [k |-> k, e |-> Peer(e), s |-> t, from |-> From(e, tos[i][1], tos[i][2], map)]
    BY <2>1
  <2> QED
    BY <2>2, Zenon
<1> QED
  BY <1>1, <1>3, <1>4, <1>5, <1>6, ZenonT(30)

\* An end that follows the one before it keeps the invariant on ends.
LEMMA EndUpdate ==
    ASSUME Ends, NEW e \in End, NEW m, EndRec(m), Follows(end[e], m),
           end' = [end EXCEPT ![e] = m]
    PROVE  /\ end' = [d \in End |-> end'[d]] /\ \A d \in End : EndRec(end'[d])
           /\ \A d \in End : Follows(end[d], end'[d])
           /\ end'[e] = m /\ \A d \in End : d # e => end'[d] = end[d]
<1>1. end'[e] = m /\ \A d \in End : d # e => end'[d] = end[d]
  BY Zenon DEF Ends
<1>2. end' = [d \in End |-> end'[d]]
  BY Zenon DEF Ends
<1>3. \A d \in End : Follows(end[d], end[d])
  BY Zenon DEF Follows
<1> QED
  BY <1>1, <1>2, <1>3, Zenon DEF Ends

LEMMA NatUpdate ==
    ASSUME Ends, NEW e \in End, nat' = [nat EXCEPT ![e] = nat'[e]], NatRec(nat'[e]),
           Grows(nat[e], nat'[e])
    PROVE  /\ nat' = [d \in End |-> nat'[d]] /\ \A d \in End : NatRec(nat'[d])
           /\ \A d \in End : Grows(nat[d], nat'[d])
           /\ \A d \in End : d # e => nat'[d] = nat[d]
<1> DEFINE m == nat'[e]
<1>1. nat' = [nat EXCEPT ![e] = m]
  BY Zenon
<1> HIDE DEF m
<1>2. nat' = [d \in End |-> nat'[d]] /\ \A d \in End : d # e => nat'[d] = nat[d]
  BY <1>1, Zenon DEF Ends
<1>3. \A d \in End : Grows(nat[d], nat[d])
  BY Zenon DEF Grows
<1> QED
  BY <1>2, <1>3, Zenon DEF Ends

LEMMA Same ==
    ASSUME Ends
    PROVE  /\ \A e \in End : Follows(end[e], end[e]) /\ Grows(nat[e], nat[e])
           /\ \A e \in End : EndRec(end[e]) /\ NatRec(nat[e])
  BY Zenon DEF Ends, Follows, Grows

\* A burst of CONNECT or SUCCESS, or of END by the visitor.
LEMMA BurstInv ==
    ASSUME PunchInv, NEW e \in End, NEW ks \in SUBSET Handshake, NEW tos, NEW after,
           Tos(tos), after \in SUBSET net, Send(e, ks, tos, after),
           e = "provider" => "END" \notin ks,
           end' = [d \in End |-> end'[d]], \A d \in End : EndRec(end'[d]),
           \A d \in End : Follows(end[d], end'[d]), VisitorWins, UNCHANGED network
    PROVE  PunchInv'
<1> Ends
  BY Zenon DEF PunchInv
<1>1. /\ nat' = [nat EXCEPT ![e] = nat'[e]] /\ NatRec(nat'[e]) /\ Grows(nat[e], nat'[e])
      /\ \A pk \in net' :
            \/ pk \in net
            \/ \E i \in DOMAIN tos :
                  LET f == From(e, tos[i][1], tos[i][2], nat'[e]) IN
                  /\ f \in Int \ {0}
                  /\ pk.k \in ks /\ pk.e = Peer(e) /\ pk.from = f
                  /\ pk.s \in Reaches(Peer(e), f, tos[i][2])
  BY SendAdds
<1>2. /\ nat' = [d \in End |-> nat'[d]] /\ \A d \in End : NatRec(nat'[d])
      /\ \A d \in End : Grows(nat[d], nat'[d])
  BY <1>1, NatUpdate, Zenon
<1>3. Ends' /\ EndsFollow
  BY <1>2, Zenon DEF Ends, EndsFollow
<1>4. NetSends
  <2> SUFFICES ASSUME NEW pk \in net', pk \notin net
               PROVE  /\ ForSocket(pk)'
                      /\ ~(pk.k = "END" /\ pk.e = "visitor")
    BY Zenon DEF NetSends
  <2>1. /\ pk.from \in Int \ {0} /\ pk.k \in ks /\ pk.e = Peer(e) /\ pk.s \in end[Peer(e)].socks
    BY <1>1, ZenonT(30) DEF Reaches
  <2>2. pk.s \in end'[Peer(e)].socks
    BY <2>1, EndPeer, Zenon DEF Follows
  <2> QED
    BY <2>1, <2>2, EndPeer, Zenon DEF ForSocket, End
<1> QED
  BY <1>3, <1>4, StepKept, Zenon

\* An end without a result, but for its phase, sockets and targets.
LEMMA FreshRec ==
    /\ Fresh = [f \in EndFields |-> Fresh[f]]
    /\ Fresh.phase = "ask" /\ Fresh.socks = {0} /\ Fresh.win = 0 /\ Fresh.rem = 0
    /\ IsFiniteSet(DOMAIN Fresh.targets)
    /\ EndRec(Fresh)
<1>1. Fresh = [f \in EndFields |-> Fresh[f]]
  BY ZenonT(30) DEF Fresh, EndFields
<1>2. Fresh.phase = "ask" /\ Fresh.socks = {0} /\ Fresh.win = 0 /\ Fresh.rem = 0
  BY Zenon DEF Fresh
<1>3. DOMAIN Fresh.targets = {}
  BY DEF Fresh
<1>4. IsFiniteSet(DOMAIN Fresh.targets)
  BY <1>3, FS_EmptySet, Zenon
<1> HIDE DEF Fresh
<1> QED
  BY <1>1, <1>2, <1>4, Zenon DEF EndRec, Sock

LEMMA OverRec ==
    ASSUME NEW n, NEW l
    PROVE  LET m == Over(n, l) IN
           /\ m = [f \in EndFields |-> m[f]]
           /\ m.phase = l /\ m.socks = n.socks /\ m.win = n.win /\ m.rem = n.rem
           /\ m.targets = Fresh.targets
  BY FreshRec, ZenonT(30) DEF Over, EndFields

LEMMA SuccessRec ==
    ASSUME NEW n, EndRec(n), n.phase \in {"punch", "won"}, NEW s \in n.socks, NEW a \in Int \ {0}
    PROVE  LET m == Success(n, s, a) IN
           /\ EndRec(m) /\ Follows(n, m) /\ m.rem # 0 /\ m.socks = n.socks
           /\ m.phase \in {"won", "done"}
           /\ n.socks = {0} => m.rem = a /\ m.win = s /\ s = 0
           /\ \/ n.phase = "won" /\ m = n
              \/ m.win = s /\ m.rem = a
<1> DEFINE m == Success(n, s, a)
<1>0. s \in Sock /\ n.socks \in {{0}, Sock} /\ Sock # {0}
  BY DEF EndRec, Sock
<1>1. CASE n.phase = "won"
  <2>1. m = n
    BY <1>1, Zenon DEF Success
  <2> QED
    BY <1>0, <1>1, <2>1, Zenon DEF EndRec, Follows
<1>2. CASE n.phase # "won" /\ n.socks = {0}
  <2> DEFINE o == Over(n, "done")
  <2>1. m = [o EXCEPT !.rem = a]
    BY <1>2, Zenon DEF Success
  <2>2. /\ o = [f \in EndFields |-> o[f]]
        /\ o.phase = "done" /\ o.socks = n.socks /\ o.win = n.win /\ o.targets = Fresh.targets
    BY OverRec
  <2>3. n.win = 0 /\ n.rem = 0 /\ s = 0
    BY <1>2, Zenon DEF EndRec
  <2> HIDE DEF o, m
  <2>4. /\ m = [f \in EndFields |-> m[f]] /\ m.phase = "done" /\ m.socks = n.socks /\ m.win = 0
        /\ m.targets = Fresh.targets /\ m.rem = a
    BY <2>1, <2>2, <2>3, Zenon DEF EndFields
  <2>5. EndRec(m)
    BY <1>0, <2>4, FreshRec, Zenon DEF EndRec, Sock
  <2> QED
    BY <1>2, <2>3, <2>4, <2>5, Zenon DEF Follows, m
<1>3. CASE n.phase # "won" /\ n.socks # {0}
  <2> DEFINE o == Over(n, "won")
  <2>1. m = [o EXCEPT !.win = s, !.rem = a]
    BY <1>3, Zenon DEF Success
  <2>2. /\ o = [f \in EndFields |-> o[f]]
        /\ o.phase = "won" /\ o.socks = n.socks /\ o.targets = Fresh.targets
    BY OverRec
  <2>3. n.rem = 0
    BY <1>3, Zenon DEF EndRec
  <2> HIDE DEF o, m
  <2>4. /\ m = [f \in EndFields |-> m[f]] /\ m.phase = "won" /\ m.socks = n.socks /\ m.win = s
        /\ m.targets = Fresh.targets /\ m.rem = a
    BY <2>1, <2>2, <2>3, ZenonT(30) DEF EndFields
  <2>5. EndRec(m)
    BY <1>0, <1>3, <2>4, FreshRec, Zenon DEF EndRec
  <2> QED
    BY <1>3, <2>3, <2>4, <2>5, Zenon DEF Follows, m
<1> QED
  BY <1>1, <1>2, <1>3, Zenon

\* One destination.
LEMMA OneTo ==
    ASSUME NEW s \in Sock, NEW a
    PROVE  LET tos == <<<<s, a>>>> IN
           /\ Tos(tos) /\ DOMAIN tos = {1} /\ tos[1][1] = s /\ tos[1][2] = a
<1> DEFINE tos == <<<<s, a>>>>
<1>1. DOMAIN tos = {1} /\ tos[1] = <<s, a>>
  OBVIOUS
<1>2. IsFiniteSet({1})
  BY FS_Singleton, ZenonT(30)
<1>3. tos[1][1] = s /\ tos[1][2] = a /\ tos[1] = <<tos[1][1], tos[1][2]>>
  BY Zenon
<1> HIDE DEF tos
<1>4. Tos(tos)
  BY <1>1, <1>2, <1>3, Zenon DEF Tos
<1> QED
  BY <1>1, <1>3, <1>4, Zenon DEF tos

\* The provider accepts: it sends END to the peer it will wait for.
LEMMA AcceptInv ==
    ASSUME PunchInv, NEW ks \in SUBSET Handshake, NEW pk \in net, NEW after \in SUBSET net,
           pk.k \in Handshake, pk.e = "provider", end["provider"].phase \in {"punch", "won"},
           Send("provider", ks, <<<<pk.s, pk.from>>>>, after),
           end' = [end EXCEPT !["provider"] = Success(@, pk.s, pk.from)],
           UNCHANGED network
    PROVE  PunchInv'
<1> Ends
  BY Zenon DEF PunchInv
<1> DEFINE p == "provider"
           v == "visitor"
           n == end[p]
           m == Success(n, pk.s, pk.from)
           tos == <<<<pk.s, pk.from>>>>
           a == pk.from
           s == pk.s
           f == From(p, s, a, nat'[p])
<1>1. s \in n.socks /\ a \in Int \ {0} /\ EndRec(n) /\ s \in Sock
  BY EndPeer DEF PunchInv, ForSocket, Ends, EndRec, Sock
<1>2. /\ EndRec(m) /\ Follows(n, m) /\ m.rem # 0
      /\ m.socks = n.socks
      /\ n.socks = {0} => m.rem = a /\ m.win = s /\ s = 0
  BY <1>1, SuccessRec
<1> HIDE DEF m
<1>3. /\ end' = [d \in End |-> end'[d]] /\ \A d \in End : EndRec(end'[d])
      /\ \A d \in End : Follows(end[d], end'[d])
      /\ end'[p] = m /\ end'[v] = end[v]
  <2>1. end' = [end EXCEPT ![p] = m]
    BY Zenon DEF m
  <2> QED
    BY <1>2, <2>1, EndUpdate, EndPeer, ZenonT(30)
<1>4. Tos(tos) /\ DOMAIN tos = {1} /\ tos[1][1] = s /\ tos[1][2] = a
  BY <1>1, OneTo, Zenon
<1>5. /\ nat' = [nat EXCEPT ![p] = nat'[p]] /\ NatRec(nat'[p]) /\ Grows(nat[p], nat'[p])
      /\ ~IsLocal(a) => <<s, a>> \in DOMAIN nat'[p]
      /\ \A k \in net' :
            \/ k \in net
            \/ /\ f \in Int \ {0} /\ (IsLocal(f) <=> IsLocal(a))
               /\ k.e = v /\ k.from = f
               /\ k.s \in Reaches(v, f, a)
  <2>1. /\ nat' = [nat EXCEPT ![p] = nat'[p]] /\ NatRec(nat'[p]) /\ Grows(nat[p], nat'[p])
        /\ \A i \in DOMAIN tos : ~IsLocal(tos[i][2]) => tos[i] \in DOMAIN nat'[p]
        /\ \A k \in net' :
              \/ k \in after
              \/ \E i \in DOMAIN tos :
                    LET g == From(p, tos[i][1], tos[i][2], nat'[p]) IN
                    /\ g \in Int \ {0} /\ (IsLocal(g) <=> IsLocal(tos[i][2]))
                    /\ k.k \in ks /\ k.e = Peer(p) /\ k.from = g
                    /\ k.s \in Reaches(Peer(p), g, tos[i][2])
    BY <1>4, EndPeer, SendAdds
  <2>2. tos[1] = <<s, a>>
    BY Zenon
  <2> QED
    BY <1>4, <2>1, <2>2, EndPeer
<1>6. /\ nat' = [d \in End |-> nat'[d]] /\ \A d \in End : NatRec(nat'[d])
      /\ \A d \in End : Grows(nat[d], nat'[d])
      /\ nat'[v] = nat[v]
  BY <1>5, NatUpdate, EndPeer, Zenon
<1>7. Ends' /\ EndsFollow
  BY <1>3, <1>6, Zenon DEF Ends, EndsFollow
<1>8. VisitorWins
  BY <1>3, Zenon DEF VisitorWins
<1>9. NetSends
  <2> SUFFICES ASSUME NEW k \in net', k \notin net
               PROVE  ForSocket(k)' /\ Agrees(k.s, k.from)'
    BY Zenon DEF NetSends
  <2>1. /\ f \in Int \ {0} /\ (IsLocal(f) <=> IsLocal(a)) /\ k.e = v /\ k.from = f
        /\ k.s \in Reaches(v, f, a)
    BY <1>5, Zenon
  <2>2. ForSocket(k)'
    <3>1. k.s \in end'[v].socks
      BY <1>3, <2>1, Zenon DEF Reaches
    <3> QED
      BY <2>1, <3>1, Zenon DEF ForSocket
  <2>3. /\ From(v, k.s, f, nat[v]) = a /\ (IsLocal(a) => network.lan)
        /\ network.nat[v] = "sym" /\ ~IsLocal(f) => <<k.s, f>> \in DOMAIN nat[v]
    <3> HIDE DEF f
    <3> QED
      BY <2>1, ReachedAnswers, EndPeer
  <2>4. From("visitor", k.s, k.from, nat["visitor"])' = a
    BY <1>6, <2>1, <2>3, Zenon DEF From
  <2>5. n.socks = {0} => s \in Reaches("provider", a, k.from)'
    <3> SUFFICES ASSUME n.socks = {0}
                 PROVE  s \in Reaches("provider", a, k.from)'
      BY Zenon
    <3>1. s \in end'[p].socks /\ k.from = f /\ network' = network
      BY <1>1, <1>2, <1>3, <2>1, Zenon
    <3>2. CASE IsLocal(a)
      BY <2>1, <2>3, <3>1, <3>2 DEF Reaches, From
    <3>3. CASE ~IsLocal(a) /\ network.nat[p] = "sym"
      BY <1>5, <2>1, <3>1, <3>3, ZenonT(30) DEF Reaches, From
    <3>4. CASE ~IsLocal(a) /\ network.nat[p] # "sym"
      <4>1. f = Base[p] + 50 * s
        BY <3>4, Zenon DEF From
      <4>2. <<s, a>> \in DOMAIN nat'[p] /\ <<s, a>>[1] = s /\ <<s, a>>[2] = a
        BY <1>5, <3>4, Zenon
      <4> QED
        BY <2>1, <3>1, <3>4, <4>1, <4>2 DEF Reaches
    <3> QED
      BY <3>2, <3>3, <3>4, Zenon
  <2> QED
    BY <1>2, <1>3, <1>6, <2>1, <2>2, <2>3, <2>4, <2>5, Zenon DEF Agrees
<1> QED
  BY <1>7, <1>8, <1>9, StepKept, Zenon

-----------------------------------------------------------------------------
(* The targets are finitely many, whatever addresses nps has told.           *)

IsSeq(s) == \E A : s \in Seq(A)

LEMMA ConcatSeq == ASSUME NEW s, NEW t, IsSeq(s), IsSeq(t) PROVE IsSeq(s \o t)
<1>1. PICK A : s \in Seq(A)
  BY Zenon DEF IsSeq
<1>2. PICK B : t \in Seq(B)
  BY Zenon DEF IsSeq
<1>3. s \in Seq(A \cup B) /\ t \in Seq(A \cup B)
  BY <1>1, <1>2
<1>4. s \o t \in Seq(A \cup B)
  BY <1>3
<1> QED
  BY <1>4, Zenon DEF IsSeq

LEMMA PartsSeq ==
    /\ \A a : IsSeq(IfSeen(a)) /\ IsSeq(<<a>>)
    /\ \A x : IsSeq(exactTargets(x)) /\ IsSeq(buildPredictedPeerAddrs(x))
    /\ \A p : IsSeq(buildSmallContiguousPorts(p))
<1>1. ASSUME NEW a PROVE IsSeq(IfSeen(a)) /\ IsSeq(<<a>>)
  <2>1. <<a>> \in Seq({a}) /\ <<>> \in Seq({a})
    OBVIOUS
  <2> QED
    BY <2>1, ZenonT(30) DEF IsSeq, IfSeen
<1>2. ASSUME NEW x PROVE IsSeq(exactTargets(x))
  BY <1>1, ConcatSeq, ZenonT(30) DEF exactTargets
<1>3. ASSUME NEW x PROVE IsSeq(buildPredictedPeerAddrs(x))
  <2> DEFINE d == getAddrInterval(x)
             a == x[3] + d
             b == x[3] - d
             c == x[2] + d
             e == x[2] - d
             f == x[1] + d
             g == x[1] - d
             A == {a, b, c, e, f, g}
  <2>1. buildPredictedPeerAddrs(x) = IF d = 0 THEN <<>> ELSE <<a, b, c, e, f, g>>
    BY Zenon DEF buildPredictedPeerAddrs
  <2> HIDE DEF a, b, c, d, e, f, g
  <2>2. <<a, b, c, e, f, g>> \in Seq(A) /\ <<>> \in Seq(A)
    OBVIOUS
  <2> QED
    BY <2>1, <2>2, ZenonT(30) DEF IsSeq
<1>4. ASSUME NEW p PROVE IsSeq(buildSmallContiguousPorts(p))
  <2> DEFINE f == buildSmallContiguousPorts(p)
  <2>1. f = [i \in 1..13 |-> f[i]]
    BY Zenon DEF buildSmallContiguousPorts
  <2> DEFINE A == {f[i] : i \in 1..13}
  <2> HIDE DEF f
  <2>2. f \in [1..13 -> A]
    BY <2>1, Zenon
  <2> HIDE DEF A
  <2>3. f \in Seq(A)
    <3>1. \A k \in Nat : f \in [1..k -> A] => f \in Seq(A)
      OBVIOUS
    <3> QED
      BY <2>2, <3>1, ZenonT(30)
  <2> QED
    BY <2>3, Zenon DEF IsSeq, f
<1> QED
  BY <1>1, <1>2, <1>3, <1>4, Zenon

LEMMA TargetsFinite ==
    ASSUME NEW n
    PROVE  IsFiniteSet(DOMAIN uniqAddrStrs(punchTargets(n)))
<1> DEFINE ss == punchTargets(n)
           first == {i \in DOMAIN ss : \A j \in 1..(i - 1) : ss[j] # ss[i]}
<1>1. IsSeq(ss)
  <2> DEFINE exact == exactTargets(n.peer)
             pred == buildPredictedPeerAddrs(n.peer)
             small == buildSmallContiguousPorts(exact[1])
             one == <<pred[1]>>
  <2>1. IsSeq(exact) /\ IsSeq(pred) /\ IsSeq(small) /\ IsSeq(one)
    BY PartsSeq, Zenon
  <2>2. ss \in {pred \o exact, exact \o one \o small, exact}
    BY Zenon DEF punchTargets
  <2> HIDE DEF ss, exact, pred, small, one
  <2>3. IsSeq(exact \o one)
    BY <2>1, ConcatSeq, Zenon
  <2>4. IsSeq(pred \o exact) /\ IsSeq((exact \o one) \o small)
    BY <2>1, <2>3, ConcatSeq, Zenon
  <2> QED
    BY <2>1, <2>2, <2>4, ZenonT(30)
<1>2. DOMAIN uniqAddrStrs(ss) = 1 .. Cardinality(first)
  BY Zenon DEF uniqAddrStrs
<1> HIDE DEF ss
<1>3. PICK A : ss \in Seq(A)
  BY <1>1, Zenon DEF IsSeq
<1>4. IsFiniteSet(DOMAIN ss)
  <2>1. DOMAIN ss = 1 .. Len(ss) /\ Len(ss) \in Nat
    BY <1>3
  <2> QED
    BY <2>1, FS_Interval
<1>5. Cardinality(first) \in Nat
  <2>1. IsFiniteSet(first)
    BY <1>4, FS_Subset, Zenon
  <2> QED
    BY <2>1, FS_CardinalityType, Zenon
<1>6. IsFiniteSet(1 .. Cardinality(first))
  BY <1>5, FS_Interval
<1> QED
  BY <1>2, <1>6, Zenon DEF ss

-----------------------------------------------------------------------------
(* The steps                                                                 *)

\* A step of one end that sends no packet of the handshake.
LEMMA QuietInv ==
    ASSUME PunchInv, NEW e \in End, NEW m, EndRec(m), Follows(end[e], m),
           end' = [end EXCEPT ![e] = m], UNCHANGED <<network, nat>>,
           \A pk \in net' : pk \in net \/ pk.k \notin Handshake,
           e = "visitor" => \/ m.phase \notin {"won", "done"}
                            \/ /\ end[e].phase \in {"won", "done"}
                               /\ m.win = end[e].win /\ m.rem = end[e].rem
    PROVE  PunchInv'
<1> Ends
  BY Zenon DEF PunchInv
<1>1. /\ end' = [d \in End |-> end'[d]] /\ \A d \in End : EndRec(end'[d])
      /\ \A d \in End : Follows(end[d], end'[d])
      /\ end'[e] = m /\ \A d \in End : d # e => end'[d] = end[d]
  BY EndUpdate, ZenonT(30)
<1>2. Ends' /\ EndsFollow
  BY <1>1, Same, Zenon DEF Ends, EndsFollow
<1>3. NetSends
  BY Zenon DEF NetSends
<1>4. VisitorWins
  BY <1>1, EndPeer, Zenon DEF VisitorWins
<1> QED
  BY <1>2, <1>3, <1>4, StepKept, Zenon

\* A step of nps or of the network.
LEMMA OtherInv ==
    ASSUME PunchInv, UNCHANGED <<network, nat, end>>,
           \A pk \in net' : pk \in net \/ pk.k \notin Handshake
    PROVE  PunchInv'
<1> Ends
  BY Zenon DEF PunchInv
<1>1. Ends' /\ EndsFollow
  BY Same, Zenon DEF Ends, EndsFollow
<1>2. NetSends
  BY Zenon DEF NetSends
<1>3. VisitorWins
  BY Zenon DEF VisitorWins
<1> QED
  BY <1>1, <1>2, <1>3, StepKept, Zenon

LEMMA NpsInv ==
    ASSUME PunchInv, \/ \E pk \in net : handleP2P(pk) \/ Lose(pk)
                     \/ \E i \in Port : SessionTimer(i)
                     \/ newUdpConn
    PROVE  PunchInv'
<1>1. CASE \E pk \in net : handleP2P(pk)
  <2>1. PICK pk \in net : handleP2P(pk)
    BY <1>1, Zenon
  <2> DEFINE sess == [sessions[pk.i] EXCEPT ![pk.e] = pk.from]
  <2>2. UNCHANGED <<network, nat, end>>
    BY <2>1, Zenon DEF handleP2P
  <2>3. \A p \in net' : p \in net \/ p \in Probes(sess) \/ p \in Replies(pk.i, sess)
    BY <2>1, Zenon DEF handleP2P
  <2>4. \A p \in Probes(sess) \cup Replies(pk.i, sess) : p.k \in {"probe", "reply"}
    BY DEF Probes, Replies
  <2> HIDE DEF sess
  <2>5. \A p \in net' : p \in net \/ p.k \notin Handshake
    BY <2>3, <2>4, Zenon DEF Handshake
  <2> QED
    BY <2>2, <2>5, OtherInv, Zenon
<1>2. CASE \E pk \in net : Lose(pk)
  BY <1>2, OtherInv, Zenon DEF Lose
<1>3. CASE \E i \in Port : SessionTimer(i)
  BY <1>3, OtherInv, Zenon DEF SessionTimer
<1>4. CASE newUdpConn
  BY <1>4, OtherInv, Zenon DEF newUdpConn
<1> QED
  BY <1>1, <1>2, <1>3, <1>4, Zenon

LEMMA AskInv ==
    ASSUME PunchInv, NEW e \in End, getRemoteAddressFromServer(e)
    PROVE  PunchInv'
<1> Ends
  BY Zenon DEF PunchInv
<1> DEFINE n == end[e]
           m == [n EXCEPT !.phase = "collect"]
           tos == [i \in Port |-> <<0, i>>]
           map == NewMappings(e, tos)
<1>1. n.phase = "ask" /\ EndRec(n)
  BY Zenon DEF getRemoteAddressFromServer, Ends
<1>2. /\ m = [f \in EndFields |-> m[f]] /\ m.phase = "collect"
      /\ m.socks = n.socks /\ m.win = n.win /\ m.rem = n.rem /\ m.targets = n.targets
  BY <1>1, Zenon DEF EndRec, EndFields
<1>3. end' = [end EXCEPT ![e] = m] /\ UNCHANGED network
  BY Zenon DEF getRemoteAddressFromServer
<1> HIDE DEF m
<1>4. EndRec(m) /\ Follows(n, m)
  BY <1>1, <1>2, Zenon DEF EndRec, Follows
<1>5. /\ end' = [d \in End |-> end'[d]] /\ \A d \in End : EndRec(end'[d])
      /\ \A d \in End : Follows(end[d], end'[d])
      /\ end'[e] = m /\ \A d \in End : d # e => end'[d] = end[d]
  BY <1>3, <1>4, EndUpdate, ZenonT(30)
<1>6. nat' = [nat EXCEPT ![e] = map] /\ NatRec(map) /\ Grows(nat[e], map)
  <2>1. IsFiniteSet(DOMAIN tos)
    <3>1. DOMAIN tos = 1 .. 3 /\ 1 \in Int /\ 3 \in Int
      BY DEF Port
    <3>2. IsFiniteSet(1 .. 3)
      BY <3>1, FS_Interval, Zenon
    <3> QED
      BY <3>1, <3>2, Zenon
  <2>2. NatRec(nat[e])
    BY Zenon DEF Ends
  <2>3. nat' = [nat EXCEPT ![e] = map]
    BY Zenon DEF getRemoteAddressFromServer
  <2> HIDE DEF tos
  <2> QED
    BY <2>1, <2>2, <2>3, MappingsGrow, Zenon
<1> HIDE DEF map
<1>7. /\ nat' = [d \in End |-> nat'[d]] /\ \A d \in End : NatRec(nat'[d])
      /\ \A d \in End : Grows(nat[d], nat'[d])
  <2>1. nat'[e] = map
    BY <1>6, Zenon DEF Ends
  <2> QED
    BY <1>6, <2>1, NatUpdate, ZenonT(30)
<1>8. Ends' /\ EndsFollow
  BY <1>5, <1>7, Zenon DEF Ends, EndsFollow
<1>9. NetSends
  BY DEF NetSends, getRemoteAddressFromServer, Handshake
<1>10. VisitorWins
  BY <1>2, <1>5, EndPeer, Zenon DEF VisitorWins
<1> QED
  BY <1>3, <1>8, <1>9, <1>10, StepKept, Zenon

\* HandleUDP starts to punch.
LEMMA CollectInv ==
    ASSUME PunchInv, NEW e \in End, NEW n, end[e].phase = "collect", Collect(e, n),
           UNCHANGED <<network, nat>>
    PROVE  PunchInv'
<1> Ends
  BY Zenon DEF PunchInv
<1>1. PICK x, l, w, b, ts :
         LET m == [Fresh EXCEPT !.phase = "punch", !.plocal = l, !.socks = x, !.warm = w,
                                !.base = b, !.targets = ts]
         IN  /\ end' = [end EXCEPT ![e] = m]
             /\ x \in {{0}, Sock} /\ IsFiniteSet(DOMAIN ts)
  <2>1. PICK q :
           LET ts == punchTargets(q)
           IN  end' = [end EXCEPT ![e] =
                         [Fresh EXCEPT !.phase = "punch",
                                       !.plocal = n.plocal,
                                       !.socks = IF opensExtra(q) THEN Sock ELSE {0},
                                       !.warm = ~forceHard(q),
                                       !.base = pickPrimaryPunchTarget(q),
                                       !.targets = uniqAddrStrs(ts)]]
    BY ZenonT(30) DEF Collect
  <2>2. IsFiniteSet(DOMAIN uniqAddrStrs(punchTargets(q)))
    BY TargetsFinite, Zenon
  <2>3. (IF opensExtra(q) THEN Sock ELSE {0}) \in {{0}, Sock}
    BY Zenon
  <2> QED
    BY <2>1, <2>2, <2>3, ZenonT(30)
<1> DEFINE m == [Fresh EXCEPT !.phase = "punch", !.plocal = l, !.socks = x, !.warm = w,
                              !.base = b, !.targets = ts]
<1>2. /\ m = [f \in EndFields |-> m[f]] /\ m.phase = "punch" /\ m.socks = x
      /\ m.win = 0 /\ m.rem = 0 /\ m.targets = ts
  BY FreshRec, ZenonT(30) DEF EndFields
<1>3. end' = [end EXCEPT ![e] = m] /\ x \in {{0}, Sock} /\ IsFiniteSet(DOMAIN ts)
  BY <1>1, Zenon
<1> HIDE DEF m
<1>4. EndRec(m)
  BY <1>2, <1>3, Zenon DEF EndRec, Sock
<1>5. Follows(end[e], m)
  BY <1>2, <1>3 DEF Follows, Ends, EndRec, Sock
<1>6. net' \subseteq net
  BY Zenon DEF Collect
<1> QED
  BY <1>2, <1>3, <1>4, <1>5, <1>6, QuietInv

LEMMA ReadInv ==
    ASSUME PunchInv, NEW e \in End, NEW pk \in net, ReadReply(e, pk) \/ ReadProbe(e, pk)
    PROVE  PunchInv'
<1> Ends
  BY Zenon DEF PunchInv
<1>0. EndRec(end[e])
  BY Zenon DEF Ends
<1>1. ASSUME NEW m, end' = [end EXCEPT ![e] = m], m = [f \in EndFields |-> m[f]],
             \A f \in EndFields \ {"peer", "self", "plocal", "probe"} : m[f] = end[e][f],
             end[e].phase = "collect", net' \subseteq net, UNCHANGED <<network, nat>>
      PROVE  PunchInv'
  <2>1. /\ m.phase = "collect" /\ m.socks = end[e].socks /\ m.win = end[e].win
        /\ m.rem = end[e].rem /\ m.targets = end[e].targets
    BY <1>1, Zenon DEF EndFields
  <2>2. EndRec(m) /\ Follows(end[e], m)
    BY <1>0, <1>1, <2>1, Zenon DEF EndRec, Follows
  <2> QED
    BY <1>1, <2>1, <2>2, QuietInv, Zenon
<1>2. CASE ReadReply(e, pk)
  <2> DEFINE n == [end[e] EXCEPT !.peer[pk.i] = pk.peer, !.self[pk.i] = pk.self,
                                 !.plocal = IF end[e].plocal = 0 THEN pk.plocal ELSE @]
  <2>1. CASE Collect(e, n)
    BY <1>2, <2>1, CollectInv, Zenon DEF ReadReply
  <2>2. CASE end' = [end EXCEPT ![e] = n] /\ net' = net \ {pk}
    <3>1. n = [f \in EndFields |-> n[f]]
      BY <1>0, ZenonT(30) DEF EndRec, EndFields
    <3>2. \A f \in EndFields \ {"peer", "self", "plocal", "probe"} : n[f] = end[e][f]
      BY <1>0, ZenonT(30) DEF EndRec, EndFields
    <3> HIDE DEF n
    <3>3. end[e].phase = "collect" /\ UNCHANGED <<network, nat>>
      BY <1>2, Zenon DEF ReadReply
    <3> QED
      BY <1>1, <2>2, <3>1, <3>2, <3>3, Zenon
  <2> QED
    BY <1>2, <2>1, <2>2, Zenon DEF ReadReply
<1>3. CASE ReadProbe(e, pk)
  <2> DEFINE n == [end[e] EXCEPT !.probe = TRUE]
  <2>1. n = [f \in EndFields |-> n[f]]
    BY <1>0, ZenonT(30) DEF EndRec, EndFields
  <2>2. \A f \in EndFields \ {"peer", "self", "plocal", "probe"} : n[f] = end[e][f]
    BY <1>0, Zenon DEF EndRec, EndFields
  <2>3. end' = [end EXCEPT ![e] = n]
    BY <1>3, Zenon DEF ReadProbe
  <2> HIDE DEF n
  <2>4. end[e].phase = "collect" /\ UNCHANGED <<network, nat>> /\ net' = net \ {pk}
    BY <1>3, Zenon DEF ReadProbe
  <2> QED
    BY <1>1, <2>1, <2>2, <2>3, <2>4, Zenon
<1> QED
  BY <1>2, <1>3, Zenon

\* An end is through, or gives up.
LEMMA OverInv ==
    ASSUME PunchInv, NEW e \in End, Winner(e) \/ Timeout(e)
    PROVE  PunchInv'
<1> Ends
  BY Zenon DEF PunchInv
<1> DEFINE n == end[e]
<1>0. EndRec(n) /\ \A l : Over(n, l).targets = Fresh.targets
  BY OverRec DEF Ends
<1>1. ASSUME NEW l \in {"done", "failed"}
      PROVE  LET m == Over(n, l) IN
             /\ EndRec(m) /\ Follows(n, m)
             /\ m.phase = l /\ m.win = n.win /\ m.rem = n.rem
  <2> DEFINE m == Over(n, l)
  <2>1. /\ m = [f \in EndFields |-> m[f]]
        /\ m.phase = l /\ m.socks = n.socks /\ m.win = n.win /\ m.rem = n.rem
        /\ m.targets = Fresh.targets
    BY OverRec
  <2> HIDE DEF m
  <2>2. EndRec(m) /\ Follows(n, m)
    BY <1>0, <2>1, FreshRec, Zenon DEF EndRec, Follows
  <2> QED
    BY <2>1, <2>2, Zenon DEF m
<1>2. CASE Winner(e)
  BY <1>1, <1>2, QuietInv, ZenonT(30) DEF Winner
<1>3. CASE Timeout(e)
  BY <1>1, <1>3, QuietInv, ZenonT(30) DEF Timeout
<1> QED
  BY <1>2, <1>3, Zenon

\* The bursts of CONNECT.
LEMMA PunchingInv ==
    ASSUME PunchInv, NEW e \in End,
           \/ startPortRestrictedWarmup(e) \/ SendTargets(e) \/ SendFromAll(e) \/ SendLocal(e)
    PROVE  PunchInv'
<1> Ends
  BY Zenon DEF PunchInv
<1> DEFINE n == end[e]
<1>0. EndRec(n) /\ 0 \in Sock /\ 1 \in Sock /\ {"CONNECT"} \in SUBSET Handshake
  BY Zenon DEF Ends, Sock, Handshake
<1>1. ASSUME NEW tos, Tos(tos), Repeat(e, tos),
             end' = [d \in End |-> end'[d]], \A d \in End : EndRec(end'[d]),
             \A d \in End : Follows(end[d], end'[d]), VisitorWins
      PROVE  PunchInv'
  BY <1>0, <1>1, BurstInv, ZenonT(30) DEF Repeat
<1>2. ASSUME NEW tos, Tos(tos), Repeat(e, tos), UNCHANGED end
      PROVE  PunchInv'
  <2>1. /\ end' = [d \in End |-> end'[d]] /\ \A d \in End : EndRec(end'[d])
        /\ \A d \in End : Follows(end[d], end'[d])
    BY <1>2, Same, Zenon DEF Ends
  <2>2. VisitorWins
    BY <1>2, Zenon DEF VisitorWins
  <2> QED
    BY <1>1, <1>2, <2>1, <2>2, Zenon
<1>3. CASE startPortRestrictedWarmup(e)
  <2> DEFINE m == [n EXCEPT !.warm = TRUE]
             tos == <<<<0, n.base>>>>
  <2>1. /\ m = [f \in EndFields |-> m[f]] /\ m.phase = n.phase
        /\ m.socks = n.socks /\ m.win = n.win /\ m.rem = n.rem /\ m.targets = n.targets
    BY <1>0, ZenonT(30) DEF EndRec, EndFields
  <2>2. end' = [end EXCEPT ![e] = m] /\ n.phase = "punch" /\ Repeat(e, tos)
    BY <1>3, Zenon DEF startPortRestrictedWarmup, Punching
  <2>3. Tos(tos)
    BY <1>0, OneTo, Zenon
  <2> HIDE DEF m, tos
  <2>4. EndRec(m) /\ Follows(n, m)
    BY <1>0, <2>1, Zenon DEF EndRec, Follows
  <2>5. /\ end' = [d \in End |-> end'[d]] /\ \A d \in End : EndRec(end'[d])
        /\ \A d \in End : Follows(end[d], end'[d])
        /\ end'[e] = m /\ \A d \in End : d # e => end'[d] = end[d]
    BY <2>2, <2>4, EndUpdate, ZenonT(30)
  <2>6. VisitorWins
    BY <2>1, <2>2, <2>5, EndPeer DEF VisitorWins
  <2> QED
    BY <1>1, <2>2, <2>3, <2>5, <2>6, Zenon
<1>4. CASE SendTargets(e)
  <2> DEFINE ts == n.targets
             tos == [i \in DOMAIN ts |-> <<0, ts[i]>>]
  <2>1. Tos(tos)
    BY <1>0, ZenonT(30) DEF Tos, EndRec
  <2>2. Repeat(e, tos) /\ UNCHANGED end
    BY <1>4, Zenon DEF SendTargets
  <2> HIDE DEF tos
  <2> QED
    BY <1>2, <2>1, <2>2, Zenon
<1>5. CASE SendFromAll(e)
  <2> DEFINE tos == [i \in 1..2 |-> <<i - 1, n.base>>]
  <2>1. Tos(tos)
    <3>1. DOMAIN tos = 1 .. 2 /\ 1 \in Int /\ 2 \in Int
      OBVIOUS
    <3>2. IsFiniteSet(1 .. 2)
      BY <3>1, FS_Interval, Zenon
    <3>3. \A i \in 1..2 : tos[i] = <<tos[i][1], tos[i][2]>> /\ tos[i][1] \in Sock
      BY DEF Sock
    <3> QED
      BY <3>1, <3>2, <3>3, Zenon DEF Tos
  <2>2. Repeat(e, tos) /\ UNCHANGED end
    BY <1>5, Zenon DEF SendFromAll
  <2> HIDE DEF tos
  <2> QED
    BY <1>2, <2>1, <2>2, Zenon
<1>6. CASE SendLocal(e)
  <2> DEFINE tos == <<<<0, n.plocal>>>>
  <2>1. Tos(tos)
    BY <1>0, OneTo, Zenon
  <2>2. Repeat(e, tos) /\ UNCHANGED end
    BY <1>6, Zenon DEF SendLocal
  <2> HIDE DEF tos
  <2> QED
    BY <1>2, <2>1, <2>2, Zenon
<1> QED
  BY <1>3, <1>4, <1>5, <1>6, Zenon

\* The handshake.
LEMMA TrySend ==
    ASSUME NEW e \in End, NEW s, NEW a, NEW ks \in SUBSET Handshake, NEW after,
           trySend(e, s, a, ks, after)
    PROVE  \E go \in SUBSET Handshake : go \subseteq ks /\ Send(e, go, <<<<s, a>>>>, after)
<1> DEFINE go == {k \in ks : Cardinality(Bursts(e, s, a, k)) < MaxBurst}
<1>1. go \subseteq ks /\ Send(e, go, <<<<s, a>>>>, after)
  BY Zenon DEF trySend
<1> HIDE DEF go
<1> QED
  BY <1>1, Zenon

LEMMA HandshakeInv ==
    ASSUME PunchInv, NEW e \in End, NEW pk \in net,
           \/ Punched(e, pk) \/ OnConnect(e, pk) \/ OnSuccess(e, pk) \/ OnEnd(e, pk)
    PROVE  PunchInv'
<1> Ends
  BY Zenon DEF PunchInv
<1> DEFINE n == end[e]
           tos == <<<<pk.s, pk.from>>>>
<1>0. /\ EndRec(n) /\ 0 \in Sock /\ Unread(e, pk) \in SUBSET net
      /\ net \ (Ignored(e) \cup {pk}) \in SUBSET net /\ net \ {pk} \in SUBSET net
      /\ {"SUCCESS"} \in SUBSET Handshake /\ {"END"} \in SUBSET Handshake
      /\ {"SUCCESS", "END"} \in SUBSET Handshake
  BY Zenon DEF Ends, Sock, Unread, Handshake
<1>1. pk.k \in Handshake /\ pk.e = e /\ pk.s \in n.socks /\ pk.from \in Int \ {0}
  <2>1. pk.k \in Handshake /\ pk.e = e
    BY Zenon DEF Punched, OnConnect, OnSuccess, OnEnd, Reads, Handshake
  <2> QED
    BY <2>1, Zenon DEF PunchInv, ForSocket
<1>2. pk.s \in Sock /\ Tos(tos)
  <2>1. pk.s \in Sock
    BY <1>0, <1>1, Zenon DEF EndRec, Sock
  <2> QED
    BY <2>1, OneTo, Zenon
<1> HIDE DEF tos
<1>3. ASSUME NEW ks \in SUBSET Handshake, Send(e, ks, tos, net \ {pk}),
             e = "provider" => "END" \notin ks, UNCHANGED <<network, end>>
      PROVE  PunchInv'
  <2>1. /\ end' = [d \in End |-> end'[d]] /\ \A d \in End : EndRec(end'[d])
        /\ \A d \in End : Follows(end[d], end'[d])
    BY <1>3, Same, Zenon DEF Ends
  <2>2. VisitorWins
    BY <1>3, Zenon DEF VisitorWins
  <2> QED
    BY <1>0, <1>2, <1>3, <2>1, <2>2, BurstInv, Zenon
<1>4. CASE Punched(e, pk)
  <2> DEFINE m == [Fresh EXCEPT !.phase = "punch", !.seed = pk.from]
             to == <<<<0, pk.from>>>>
  <2>1. /\ m = [f \in EndFields |-> m[f]] /\ m.phase = "punch" /\ m.socks = {0}
        /\ m.win = 0 /\ m.rem = 0 /\ m.targets = Fresh.targets
    BY FreshRec, ZenonT(30) DEF EndFields
  <2>2. end' = [end EXCEPT ![e] = m] /\ n.phase = "collect" /\ UNCHANGED network
    BY <1>4, Zenon DEF Punched
  <2>3. Tos(to)
    BY <1>0, OneTo, Zenon
  <2>4. PICK go \in SUBSET Handshake :
           go \subseteq {"SUCCESS"} /\ Send(e, go, to, net \ (Ignored(e) \cup {pk}))
    BY <1>0, <1>4, TrySend, Zenon DEF Punched
  <2> HIDE DEF m, to
  <2>5. EndRec(m) /\ Follows(n, m)
    BY <1>0, <2>1, <2>2, FreshRec DEF EndRec, Follows, Sock
  <2>6. /\ end' = [d \in End |-> end'[d]] /\ \A d \in End : EndRec(end'[d])
        /\ \A d \in End : Follows(end[d], end'[d])
        /\ end'[e] = m /\ \A d \in End : d # e => end'[d] = end[d]
    BY <2>2, <2>5, EndUpdate, ZenonT(30)
  <2>7. VisitorWins
    BY <2>1, <2>6, EndPeer, Zenon DEF VisitorWins
  <2>8. "END" \notin go
    BY <2>4, Zenon
  <2> QED
    BY <1>0, <2>2, <2>3, <2>4, <2>6, <2>7, <2>8, BurstInv, ZenonT(30)
<1>5. CASE OnConnect(e, pk)
  <2>1. PICK go \in SUBSET Handshake : go \subseteq {"SUCCESS"} /\ Send(e, go, tos, net \ {pk})
    BY <1>0, <1>5, TrySend, Zenon DEF OnConnect, tos
  <2>2. "END" \notin go /\ UNCHANGED <<network, end>>
    BY <1>5, <2>1, Zenon DEF OnConnect
  <2> QED
    BY <1>3, <2>1, <2>2, Zenon
<1>6. ASSUME NEW ks \in SUBSET Handshake, e = "provider", Send(e, ks, tos, Unread(e, pk)),
             end' = [end EXCEPT ![e] = Success(@, pk.s, pk.from)],
             n.phase \in {"punch", "won"}, UNCHANGED network
      PROVE  PunchInv'
  BY <1>0, <1>1, <1>6, AcceptInv, ZenonT(30) DEF tos
<1>7. CASE OnSuccess(e, pk) /\ e = "visitor"
  <2>1. PICK go \in SUBSET Handshake : Send(e, go, tos, net \ {pk})
    BY <1>0, <1>7, TrySend, Zenon DEF OnSuccess, tos
  <2>2. UNCHANGED <<network, end>>
    BY <1>7, Zenon DEF OnSuccess
  <2> QED
    BY <1>3, <1>7, <2>1, <2>2, Zenon
<1>8. CASE OnSuccess(e, pk) /\ e = "provider"
  <2>1. PICK go \in SUBSET Handshake : Send(e, go, tos, Unread(e, pk))
    BY <1>0, <1>8, TrySend, Zenon DEF OnSuccess, tos
  <2>2. /\ end' = [end EXCEPT ![e] = Success(@, pk.s, pk.from)]
        /\ n.phase \in {"punch", "won"} /\ UNCHANGED network
    BY <1>8, Zenon DEF OnSuccess, Reads
  <2> QED
    BY <1>6, <1>8, <2>1, <2>2, Zenon
<1>9. CASE OnEnd(e, pk)
  <2>1. PICK go \in SUBSET Handshake : Send(e, go, tos, Unread(e, pk))
    BY <1>0, <1>9, TrySend, Zenon DEF OnEnd, tos
  <2>2. /\ end' = [end EXCEPT ![e] = Success(@, pk.s, pk.from)]
        /\ n.phase \in {"punch", "won"} /\ pk.k = "END" /\ UNCHANGED network
    BY <1>9, Zenon DEF OnEnd, Reads
  <2>3. CASE e = "provider"
    BY <1>6, <2>1, <2>2, <2>3, Zenon
  <2>4. CASE e = "visitor"
    <3> DEFINE m == Success(n, pk.s, pk.from)
    <3>1. /\ EndRec(m) /\ Follows(n, m)
          /\ \/ n.phase = "won" /\ m = n
             \/ m.win = pk.s /\ m.rem = pk.from
      BY <1>0, <1>1, <2>2, SuccessRec
    <3>2. end' = [end EXCEPT ![e] = m]
      BY <2>2, Zenon
    <3> HIDE DEF m
    <3>3. /\ end' = [d \in End |-> end'[d]] /\ \A d \in End : EndRec(end'[d])
          /\ \A d \in End : Follows(end[d], end'[d])
          /\ end'[e] = m
      BY <3>1, <3>2, EndUpdate, ZenonT(30)
    <3>4. VisitorWins
      BY <1>1, <2>2, <2>4, <3>1, <3>3 DEF VisitorWins
    <3> QED
      BY <1>0, <1>2, <2>1, <2>2, <2>4, <3>3, <3>4, BurstInv, ZenonT(30)
  <2> QED
    BY <2>3, <2>4, Zenon DEF End
<1> QED
  BY <1>4, <1>5, <1>7, <1>8, <1>9, Zenon DEF End

-----------------------------------------------------------------------------

LEMMA InitPunchInv == PunchInit => PunchInv
<1> SUFFICES ASSUME PunchInit
             PROVE  PunchInv
  BY Zenon
<1> DEFINE none == [p \in {} |-> 0]
<1>1. /\ nat = [e \in End |-> none] /\ net = {} /\ end = [e \in End |-> Fresh]
  BY Zenon DEF PunchInit
<1>2. NatRec(none)
  BY FS_EmptySet, Zenon DEF NatRec
<1> HIDE DEF none
<1>3. Ends
  BY <1>1, <1>2, FreshRec, Zenon DEF Ends
<1>4. end["visitor"].phase = "ask"
  BY <1>1, FreshRec, EndPeer, Zenon
<1> QED
  BY <1>1, <1>3, <1>4, Zenon DEF PunchInv

LEMMA NextPunchInv == PunchInv /\ [PunchNext]_punchVars => PunchInv'
<1> SUFFICES ASSUME PunchInv, [PunchNext]_punchVars
             PROVE  PunchInv'
  BY Zenon
<1>1. CASE UNCHANGED punchVars
  BY <1>1, OtherInv, Zenon DEF punchVars
<1>2. CASE \E e \in End : EndStep(e)
  <2>1. PICK e \in End : EndStep(e)
    BY <1>2, Zenon
  <2>2. CASE CollectOver(e)
    BY <2>2, CollectInv, Zenon DEF CollectOver
  <2> QED
    BY <2>1, <2>2, AskInv, PunchingInv, OverInv, ReadInv, HandshakeInv, Zenon DEF EndStep
<1>3. CASE \E e \in End : \E pk \in net : OnConnect(e, pk) \/ OnSuccess(e, pk) \/ OnEnd(e, pk)
  BY <1>3, HandshakeInv, Zenon
<1>4. CASE \E e \in End : SendTargets(e) \/ SendFromAll(e) \/ SendLocal(e)
  BY <1>4, PunchingInv, Zenon
<1>5. CASE \E e \in End : Timeout(e)
  BY <1>5, OverInv, Zenon
<1>6. CASE \/ \E pk \in net : handleP2P(pk) \/ Lose(pk)
           \/ \E i \in Port : SessionTimer(i)
           \/ newUdpConn
  BY <1>6, NpsInv, Zenon
<1> QED
  BY <1>1, <1>2, <1>3, <1>4, <1>5, <1>6, Zenon DEF PunchNext, Progress

\* A visitor that is done has a provider that has accepted, and a provider with one
\* socket waits for the very pair of addresses the visitor will use: whatever the
\* NATs of the two ends, whatever is lost, delayed or duplicated, and whoever times
\* out.
THEOREM VisitorAgreesWithProvider == PunchSpec => []AgreedPair
<1>1. PunchInv => AgreedPair
  <2> SUFFICES ASSUME PunchInv, end["visitor"].phase \in {"won", "done"}
               PROVE  /\ end["provider"].rem # 0
                      /\ end["provider"].socks = {0} => Pair
    BY Zenon DEF AgreedPair
  <2>1. Agrees(end["visitor"].win, end["visitor"].rem)
    BY Zenon DEF PunchInv
  <2> QED
    BY <2>1, Zenon DEF Agrees, Pair, VisitorFrom
<1> QED
  BY InitPunchInv, NextPunchInv, <1>1, PTL DEF PunchSpec

-----------------------------------------------------------------------------
(* The manager of the tunnels (P2PManager) *)

\* The fields the argument looks at.
MgrFields == {"status", "ch", "udp", "mux", "quic", "secret"}
MonFields == {"pc", "i", "x", "t", "kind", "nat", "disabled"}

ManagerTypes ==
    /\ mgr = [f \in MgrFields |-> mgr[f]]
    /\ mon = [f \in MonFields |-> mon[f]]
    /\ tun = [t \in Tun |-> tun[t]]

\* Only an attempt that has a new tunnel holds one; it would be lost if the
\* monitor punched again before it is published.
HoldsWhilePublishing == mon.pc # "publish" => mon.t = 0

\* The monitor runs once the local server does.
NotStarted == srv \in {"none", "starting"} => mon.pc = "end"

ManagerInv == ManagerTypes /\ HoldsWhilePublishing /\ NotStarted /\ OneTunnel

\* 0 is no tunnel.
LEMMA NotATunnel == 0 \notin Tun
  BY DEF Tun

\* Nothing is open at first.
LEMMA InitManagerInv == ManagerInit => ManagerInv
<1> SUFFICES ASSUME ManagerInit PROVE ManagerInv
  BY Zenon
<1>1. ManagerTypes
  BY Zenon DEF ManagerInit, ManagerTypes, MgrFields, MonFields
<1>2. mon.t = 0 /\ mon.pc = "end" /\ \A t \in Tun : ~Open(t)
  BY Zenon DEF ManagerInit, Open
<1> QED
  BY <1>1, <1>2, Zenon DEF ManagerInv, HoldsWhilePublishing, NotStarted, OneTunnel

\* A step that opens nothing and changes no field that names a tunnel.
LEMMA SameTunnels ==
    ASSUME ManagerInv, ManagerTypes', NotStarted', \A t \in Tun : Open(t)' => Open(t),
           mgr'.udp = mgr.udp, mgr'.quic = mgr.quic, mon'.t = mon.t,
           mon'.pc # "publish" => mon.pc # "publish"
    PROVE  ManagerInv'
  BY Zenon DEF ManagerInv, HoldsWhilePublishing, OneTunnel

\* CloseTun closes what it is told to and opens nothing.
LEMMA CloseTunCloses ==
    ASSUME ManagerTypes, NEW ts, tun' = CloseTun(tun, ts)
    PROVE  /\ tun' = [t \in Tun |-> tun'[t]]
           /\ \A t \in Tun : Open(t)' => Open(t) /\ t \notin ts
  BY Zenon DEF ManagerTypes, CloseTun, Open

\* The callers change statusOK, secretConn and their own state.
LEMMA CallerInv ==
    ASSUME ManagerInv, NEW r \in Req, SendLinkInfo(r) \/ SendStep(r) \/ TimedOut(r)
    PROVE  ManagerInv'
<1>1. UNCHANGED <<tun, mon, srv>>
  BY Zenon DEF SendLinkInfo, SendStep, TimedOut, Tick, sendVia, Report, getSecretConn, UseSecret,
         ForgetSecret, DialSecret, PublishSecret, SecretLink
<1>2. \/ UNCHANGED mgr
      \/ \E b : mgr' = [mgr EXCEPT !.status = b]
      \/ \E x : mgr' = [mgr EXCEPT !.secret = x]
      \/ \E ok : mgr' = resetStatus(mgr, ok)
  BY Zenon DEF SendLinkInfo, SendStep, TimedOut, Tick, sendVia, Report, getSecretConn, UseSecret,
         ForgetSecret, DialSecret, PublishSecret, SecretLink
<1>3. mgr' = [f \in MgrFields |-> mgr'[f]] /\ mgr'.udp = mgr.udp /\ mgr'.quic = mgr.quic
  BY <1>2, ZenonT(30) DEF ManagerInv, ManagerTypes, MgrFields, resetStatus
<1> QED
  BY <1>1, <1>3, SameTunnels, Zenon DEF ManagerInv, ManagerTypes, NotStarted, Open

\* Without a healthy tunnel the monitor closes what is published and forgets it.
LEMMA CheckStatusInv == ASSUME ManagerInv, CheckStatus PROVE ManagerInv'
<1>1. mon.pc = "wait" /\ mon.t = 0 /\ NotStarted'
  BY Zenon DEF ManagerInv, HoldsWhilePublishing, NotStarted, CheckStatus
<1>2. /\ mon' = [f \in MonFields |-> mon'[f]] /\ mon'.t = 0
      /\ mgr' = [f \in MgrFields |-> mgr'[f]]
  BY <1>1, ZenonT(30) DEF ManagerInv, ManagerTypes, MgrFields, MonFields, CheckStatus
<1>3. CASE Healthy
  <2>1. UNCHANGED tun /\ mgr'.udp = mgr.udp /\ mgr'.quic = mgr.quic
    BY <1>3, Zenon DEF CheckStatus, ManagerInv, ManagerTypes, MgrFields
  <2> QED
    BY <1>1, <1>2, <2>1, SameTunnels, Zenon DEF ManagerInv, ManagerTypes, Open
<1>4. CASE ~Healthy
  <2>1. tun' = CloseTun(tun, {mgr.udp, mgr.quic})
    BY <1>4, Zenon DEF CheckStatus
  <2>2. \A t \in Tun : ~Open(t)'
    BY <1>1, <2>1, CloseTunCloses, NotATunnel, ZenonT(30) DEF ManagerInv, OneTunnel
  <2> QED
    BY <1>1, <1>2, <2>1, <2>2, CloseTunCloses, Zenon DEF ManagerInv, ManagerTypes, HoldsWhilePublishing, OneTunnel
<1> QED
  BY <1>3, <1>4, Zenon

\* A new tunnel is held by the attempt that has it.
LEMMA TryPunchInv == ASSUME ManagerInv, TryPunch PROVE ManagerInv'
<1>1. mon.pc = "ask" /\ mon.t = 0 /\ UNCHANGED mgr /\ NotStarted'
  BY ZenonT(30) DEF ManagerInv, HoldsWhilePublishing, NotStarted, TryPunch
<1>2. mon' = [f \in MonFields |-> mon'[f]]
  BY ZenonT(30) DEF ManagerInv, ManagerTypes, MonFields, TryPunch
<1>3. ASSUME \E t \in Tun : tun[t] = "none", tun' = [tun EXCEPT ![NewTun] = "live"],
             NEW k, mon' = [mon EXCEPT !.pc = "publish", !.t = NewTun, !.kind = k]
      PROVE  ManagerInv'
  <2>1. mon'.t = NewTun /\ mon'.pc = "publish"
    BY <1>3, Zenon DEF ManagerInv, ManagerTypes, MonFields
  <2>2. tun' = [t \in Tun |-> tun'[t]] /\ \A t \in Tun : Open(t)' => Open(t) \/ t = NewTun
    BY <1>3, Zenon DEF ManagerInv, ManagerTypes, Open
  <2>3. OneTunnel'
    BY <1>1, <2>1, <2>2, NotATunnel, Zenon DEF ManagerInv, OneTunnel
  <2> QED
    BY <1>1, <1>2, <2>1, <2>2, <2>3, Zenon DEF ManagerInv, ManagerTypes, HoldsWhilePublishing
<1>4. CASE UNCHANGED tun /\ mon'.t = mon.t
  BY <1>1, <1>2, <1>4, SameTunnels DEF ManagerInv, ManagerTypes, Open
<1>5. ASSUME NEW h, mon' = [mon EXCEPT !.pc = "tried", !.nat = h] \/ mon' = [mon EXCEPT !.pc = "tried"]
      PROVE  mon'.t = mon.t
  BY <1>5, ZenonT(30) DEF ManagerInv, ManagerTypes, MonFields
<1> QED
  BY <1>3, <1>4, <1>5, ZenonT(30) DEF TryPunch

\* The end of newUdpConn closes every tunnel it replaces.
LEMMA PublishInv == ASSUME ManagerInv, Publish PROVE ManagerInv'
<1>1. mon' = [f \in MonFields |-> mon'[f]] /\ mon'.t = 0 /\ mgr' = [f \in MgrFields |-> mgr'[f]]
  BY ZenonT(30) DEF ManagerInv, ManagerTypes, MonFields, MgrFields, Publish
<1>2. mon.t \in {mgr'.udp, mgr'.quic}
  BY Zenon DEF ManagerInv, ManagerTypes, MgrFields, Publish
<1>3. \A t \in Tun : Open(t)' => t = mon.t
  BY CloseTunCloses, ZenonT(30) DEF Publish, ManagerInv, OneTunnel
<1>4. tun' = [t \in Tun |-> tun'[t]] /\ NotStarted'
  BY CloseTunCloses, Zenon DEF Publish, ManagerInv, NotStarted
<1> QED
  BY <1>1, <1>2, <1>3, <1>4, Zenon DEF ManagerInv, ManagerTypes, HoldsWhilePublishing, OneTunnel

\* The other steps of the monitor.
LEMMA MonitorInv == ASSUME ManagerInv, MonitorTries PROVE ManagerInv'
<1>1. ASSUME TrySnapshot \/ TryUse \/ TryForget \/ Tried \/ Verdict \/ MonitorEnds PROVE ManagerInv'
  <2>1. /\ mon' = [f \in MonFields |-> mon'[f]] /\ mon'.t = mon.t
        /\ mon.pc # "publish" /\ UNCHANGED tun /\ NotStarted'
    BY <1>1, ZenonT(30) DEF ManagerInv, ManagerTypes, NotStarted, MonFields, TrySnapshot, TryUse, TryForget, Tried, Verdict, MonitorEnds
  <2>2. mgr' = [f \in MgrFields |-> mgr'[f]] /\ mgr'.udp = mgr.udp /\ mgr'.quic = mgr.quic
    BY <1>1, Zenon DEF ManagerInv, ManagerTypes, MgrFields, TrySnapshot, TryUse, TryForget, Tried, Verdict, MonitorEnds
  <2> QED
    BY <2>1, <2>2, SameTunnels DEF ManagerInv, ManagerTypes, Open
<1> QED
  BY <1>1, TryPunchInv, PublishInv DEF MonitorTries

\* The server, Close and what breaks.
LEMMA ServerInv ==
    ASSUME ManagerInv, Once \/ Cancel \/ (\E t \in Tun : TunnelBreaks(t)) \/ \E x \in Sec : SecretBreaks(x)
    PROVE  ManagerInv'
<1>1. UNCHANGED mgr /\ NotStarted'
  BY Zenon DEF Once, Cancel, TunnelBreaks, SecretBreaks, StartLocalServer, RunLocalServer, CloseAll, Closed,
         BreakNoticed, ManagerInv, NotStarted
<1>2. /\ mon' = [f \in MonFields |-> mon'[f]] /\ mon'.t = mon.t
      /\ mon'.pc # "publish" => mon.pc # "publish"
  BY Zenon DEF Once, Cancel, TunnelBreaks, SecretBreaks, StartLocalServer, RunLocalServer, CloseAll, Closed,
         BreakNoticed, ManagerInv, NotStarted, ManagerTypes, MonFields
<1>3. tun' = [t \in Tun |-> tun'[t]] /\ \A t \in Tun : Open(t)' => Open(t)
  <2>1. CASE UNCHANGED tun
    BY <2>1, Zenon DEF ManagerInv, ManagerTypes, Open
  <2>2. CASE CloseAll
    BY <2>2, CloseTunCloses, Zenon DEF CloseAll, ManagerInv
  <2>3. ASSUME NEW t \in Tun, TunnelBreaks(t) \/ BreakNoticed(t) PROVE <1>3
    BY <2>3, Zenon DEF TunnelBreaks, BreakNoticed, ManagerInv, ManagerTypes, Open
  <2> QED
    BY <2>1, <2>2, <2>3, Zenon DEF Once, Cancel, SecretBreaks, StartLocalServer, RunLocalServer, Closed
<1> QED
  BY <1>1, <1>2, <1>3, SameTunnels, Zenon DEF ManagerInv, ManagerTypes

\* Every step keeps the tunnels accounted for.
LEMMA NextManagerInv == ASSUME ManagerInv, [ManagerNext]_managerVars PROVE ManagerInv'
<1>1. CASE UNCHANGED managerVars
  BY <1>1, Zenon DEF managerVars, ManagerInv, ManagerTypes, HoldsWhilePublishing, NotStarted, OneTunnel, Open
<1> QED
  BY <1>1, CallerInv, CheckStatusInv, MonitorInv, ServerInv, Zenon DEF ManagerNext

\* newUdpConn and handleUdpMonitor: for any number of callers and failures every
\* open tunnel is the published one or the one about to be published.
THEOREM NoTunnelLeaks == ManagerSpec => []OneTunnel
<1>1. ManagerInv => OneTunnel
  BY Zenon DEF ManagerInv
<1> QED
  BY <1>1, InitManagerInv, NextManagerInv, PTL DEF ManagerSpec
=============================================================================
