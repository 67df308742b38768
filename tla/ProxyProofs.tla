----------------------------- MODULE ProxyProofs -----------------------------
(***************************************************************************)
(* The proxies of nps: a UDP task has one worker per address, and what the *)
(* TCP side counts, connections and chunks, is settled when the last       *)
(* connection has ended, for any number of addresses, entries, packets,    *)
(* users and chunks, any capacity, any size of the pools and any setup.    *)
(***************************************************************************)
EXTENDS UdpServer, ProxyTypesProofs, FiniteSetTheorems

-----------------------------------------------------------------------------
(* The workers of a UDP task (UdpServer) *)

\* A worker that has not taken its entry out of the map.
AtWork(e) == ent[e].pc \notin {"none", "close", "end"}

\* What a worker and its entry may be.
WorkerLabels == {"none", "check", "add", "limits", "link", "loop", "cut", "cancel", "delete", "close", "end"}

EntType == [addr : Addr \cup {"none"}, pc : WorkerLabels, back : {"none", "loop", "end"},
            done : BOOLEAN, conn : {"none", "open", "lost", "closed"}, ch : Int]

\* The types of what the argument looks at.
MapTypes ==
    /\ entries \in [Addr -> Ent \cup {0}]
    /\ ent \in [Ent -> EntType]
    /\ rd.pc = "load" => rd.a \in Addr
    /\ rd.pc = "offer" => rd.e \in Ent

\* Start and clientWorker: the map has an entry exactly as long as its worker
\* has not deleted it, so a packet is never put into the channel of an entry
\* found in the map whose worker is gone.
MapIsWorkers ==
    /\ \A e \in Ent : AtWork(e) => ent[e].addr \in Addr /\ entries[ent[e].addr] = e
    /\ \A a \in Addr : entries[a] # 0 => AtWork(entries[a]) /\ ent[entries[a]].addr = a

\* The inductive invariant of the map.
MapInv == MapTypes /\ MapIsWorkers

\* 0 is no entry.
LEMMA NotAnEntry == 0 \notin Ent
  BY DEF Ent

\* A free entry is well typed.
LEMMA NoEntType == NoEnt \in EntType
  BY DEF NoEnt, EntType, WorkerLabels

\* A task starts with an empty map and no worker.
LEMMA InitMapInv == UdpInit => MapInv
<1> SUFFICES ASSUME UdpInit PROVE MapInv
  BY Zenon
<1>1. MapTypes
  BY NoEntType, Zenon DEF UdpInit, MapTypes
<1>2. \A e \in Ent : ent[e].pc = "none"
  BY Zenon DEF UdpInit, NoEnt
<1>3. \A a \in Addr : entries[a] = 0
  BY Zenon DEF UdpInit
<1> QED
  BY <1>1, <1>2, <1>3, Zenon DEF MapInv, MapIsWorkers, AtWork

\* A step that changes one entry, neither its address nor whether it is active,
\* keeps the map as it is.
LEMMA SameMap ==
    ASSUME MapInv, UNCHANGED <<entries, rd>>, NEW e \in Ent, NEW x \in EntType,
           ent' = [ent EXCEPT ![e] = x],
           x.addr = ent[e].addr,
           x.pc \in {"none", "close", "end"} <=> ent[e].pc \in {"none", "close", "end"}
    PROVE  MapInv'
<1>1. /\ ent' \in [Ent -> EntType]
      /\ \A f \in Ent : ent'[f].addr = ent[f].addr /\ (AtWork(f)' <=> AtWork(f))
  BY Zenon DEF MapInv, MapTypes, AtWork
<1>2. \A a \in Addr : entries[a] # 0 => entries[a] \in Ent
  BY Zenon DEF MapInv, MapTypes
<1> QED
  BY <1>1, <1>2, Zenon DEF MapInv, MapTypes, MapIsWorkers

\* Start adds an entry only for an address that has none.
LEMMA LoadEntryInv == ASSUME MapInv, LoadEntry PROVE MapInv'
<1>0. rd.a \in Addr /\ rd.pc = "load" /\ entries \in [Addr -> Ent \cup {0}] /\ ent \in [Ent -> EntType]
  BY Zenon DEF MapInv, MapTypes, LoadEntry
<1>1. CASE entries[rd.a] # 0 /\ Offering(entries[rd.a]) /\ UNCHANGED <<entries, ent>>
  <2>1. rd'.pc = "offer" /\ rd'.e \in Ent
    BY <1>0, <1>1, Zenon DEF Offering
  <2>2. \A f \in Ent : AtWork(f)' <=> AtWork(f)
    BY <1>1, Zenon DEF AtWork
  <2>3. \A a \in Addr : entries[a] # 0 => entries[a] \in Ent
    BY <1>0, Zenon
  <2> QED
    BY <1>1, <2>1, <2>2, <2>3, Zenon DEF MapInv, MapTypes, MapIsWorkers
<1>2. ASSUME entries[rd.a] = 0, NEW e \in NewEnt, Offering(e),
             entries' = [entries EXCEPT ![rd.a] = e],
             ent' = [ent EXCEPT ![e] = [NoEnt EXCEPT !.addr = rd.a, !.pc = "check"]]
      PROVE  MapInv'
  <2>1. e \in Ent /\ ent[e].pc = "none" /\ e # 0
    BY NotAnEntry, Zenon DEF NewEnt
  <2> DEFINE x == [NoEnt EXCEPT !.addr = rd.a, !.pc = "check"]
  <2>2. x \in EntType /\ x.addr = rd.a /\ x.pc = "check"
    BY <1>0, NoEntType, ZenonT(30) DEF EntType, WorkerLabels
  <2>3. rd'.pc = "offer" /\ rd'.e \in Ent
    BY <1>2, <2>1, Zenon DEF Offering
  <2> HIDE DEF x
  <2>4. ent' = [ent EXCEPT ![e] = x]
    BY <1>2, Zenon DEF x
  <2>5. MapTypes'
    BY <1>0, <1>2, <2>1, <2>2, <2>3, <2>4, Zenon DEF MapTypes
  <2>6. ASSUME NEW f \in Ent, AtWork(f)' PROVE ent'[f].addr \in Addr /\ entries'[ent'[f].addr] = f
    <3>1. CASE f = e
      BY <1>0, <1>2, <2>1, <2>2, <2>4, <3>1, Zenon
    <3>2. CASE f # e
      <4>1. ent'[f] = ent[f] /\ AtWork(f)
        BY <1>0, <2>4, <2>6, <3>2, Zenon DEF AtWork
      <4>2. ent[f].addr \in Addr /\ entries[ent[f].addr] = f /\ f # 0
        BY <4>1, NotAnEntry, Zenon DEF MapInv, MapIsWorkers
      <4>3. ent[f].addr # rd.a
        BY <1>2, <4>2, Zenon
      <4> QED
        BY <1>0, <1>2, <4>1, <4>2, <4>3, Zenon
    <3> QED
      BY <3>1, <3>2, Zenon
  <2>7. ASSUME NEW a \in Addr, entries'[a] # 0
        PROVE  AtWork(entries[a])' /\ ent'[entries'[a]].addr = a
    <3>1. CASE a = rd.a
      <4>1. entries'[a] = e /\ ent'[e] = x
        BY <1>0, <1>2, <2>1, <2>4, <3>1, Zenon
      <4> QED
        BY <2>2, <3>1, <4>1, Zenon DEF AtWork
    <3>2. CASE a # rd.a
      <4>1. entries'[a] = entries[a] /\ entries[a] # 0 /\ entries[a] \in Ent
        BY <1>0, <1>2, <2>7, <3>2, Zenon
      <4>2. AtWork(entries[a]) /\ ent[entries[a]].addr = a
        BY <4>1, Zenon DEF MapInv, MapIsWorkers
      <4>3. entries[a] # e
        BY <2>1, <4>2, Zenon DEF AtWork
      <4>4. ent'[entries[a]] = ent[entries[a]]
        BY <1>0, <2>4, <4>1, <4>3, Zenon
      <4> QED
        BY <4>1, <4>2, <4>4, Zenon DEF AtWork
    <3> QED
      BY <3>1, <3>2, Zenon
  <2> QED
    BY <2>5, <2>6, <2>7, Zenon DEF MapInv, MapIsWorkers
<1> QED
  BY <1>1, <1>2, Zenon DEF LoadEntry

\* Offer puts a packet into a channel, or drops it.
LEMMA OfferInv == ASSUME MapInv, Offer PROVE MapInv'
<1>1. rd.e \in Ent /\ ent \in [Ent -> EntType] /\ rd'.pc = "read" /\ UNCHANGED entries
  BY Zenon DEF MapInv, MapTypes, Offer
<1>2. CASE UNCHANGED ent
  BY <1>1, <1>2, Zenon DEF MapInv, MapTypes, MapIsWorkers, AtWork
<1>3. CASE ent' = [ent EXCEPT ![rd.e].ch = @ + 1]
  <2>1. ent' \in [Ent -> EntType]
    BY <1>1, <1>3 DEF EntType
  <2>2. \A f \in Ent : ent'[f].addr = ent[f].addr /\ ent'[f].pc = ent[f].pc
    BY <1>1, <1>3 DEF EntType
  <2> QED
    BY <1>1, <2>1, <2>2 DEF MapInv, MapTypes, MapIsWorkers, AtWork
<1> QED
  BY <1>2, <1>3, Zenon DEF Offer

\* A worker that deletes its entry leaves no other one for its address.
LEMMA DeleteInv == ASSUME MapInv, NEW e \in Ent, Delete(e) PROVE MapInv'
<1>1. /\ ent \in [Ent -> EntType] /\ entries \in [Addr -> Ent \cup {0}]
      /\ ent[e].addr \in Addr /\ entries[ent[e].addr] = e
      /\ entries' = [entries EXCEPT ![ent[e].addr] = 0]
      /\ ent' = [ent EXCEPT ![e].pc = "close"]
      /\ UNCHANGED rd
  BY Zenon DEF MapInv, MapTypes, MapIsWorkers, AtWork, Delete, WorkerGoto
<1>2. /\ ent' \in [Ent -> EntType] /\ entries' \in [Addr -> Ent \cup {0}]
      /\ ent'[e].pc = "close"
      /\ \A f \in Ent \ {e} : ent'[f] = ent[f]
  BY <1>1 DEF EntType, WorkerLabels
<1>3. ASSUME NEW f \in Ent, AtWork(f)' PROVE ent'[f].addr \in Addr /\ entries'[ent'[f].addr] = f
  <2>1. f # e
    BY <1>2, <1>3, Zenon DEF AtWork
  <2>2. ent'[f] = ent[f] /\ ent[f].addr \in Addr /\ entries[ent[f].addr] = f
    BY <1>2, <1>3, <2>1, Zenon DEF MapInv, MapIsWorkers, AtWork
  <2> QED
    BY <1>1, <2>1, <2>2, Zenon
<1>4. ASSUME NEW a \in Addr, entries'[a] # 0
      PROVE  AtWork(entries[a])' /\ ent'[entries'[a]].addr = a
  <2>1. a # ent[e].addr /\ entries'[a] = entries[a] /\ entries[a] \in Ent
    BY <1>1, <1>4, Zenon
  <2>2. AtWork(entries[a]) /\ ent[entries[a]].addr = a
    BY <1>4, <2>1, Zenon DEF MapInv, MapIsWorkers
  <2>3. ent'[entries[a]] = ent[entries[a]]
    BY <1>2, <2>1, <2>2, Zenon
  <2> QED
    BY <2>1, <2>2, <2>3, Zenon DEF AtWork
<1> QED
  BY <1>1, <1>2, <1>3, <1>4, Zenon DEF MapInv, MapTypes, MapIsWorkers

\* The other steps of a worker, its back channel and its link.
LEMMA WorkerInv ==
    ASSUME MapInv, NEW e \in Ent, clientWorker(e) \/ BackEnds(e) \/ LinkLost(e)
    PROVE  MapInv'
<1>1. ent \in [Ent -> EntType] /\ ent[e] \in EntType
  BY Zenon DEF MapInv, MapTypes
<1>2. ASSUME NEW l \in WorkerLabels \ {"none", "close", "end"}, AtWork(e), WorkerGoto(e, l), UNCHANGED <<entries, rd>>
      PROVE  MapInv'
  <2> DEFINE x == [ent[e] EXCEPT !.pc = l]
  <2>1. x \in EntType /\ x.addr = ent[e].addr /\ x.pc = l
    BY <1>1, Zenon DEF EntType
  <2>2. ent' = [ent EXCEPT ![e] = x]
    BY <1>1, <1>2, Zenon DEF WorkerGoto
  <2> HIDE DEF x
  <2> QED
    BY <1>2, <2>1, <2>2, SameMap, ZenonT(30) DEF AtWork
<1>3. CASE WorkerCheckFlow(e)
  BY <1>2, <1>3, Zenon DEF WorkerCheckFlow, AtWork, WorkerLabels
<1>4. CASE WorkerAddConn(e)
  BY <1>2, <1>4, Zenon DEF WorkerAddConn, AtWork, WorkerLabels
<1>5. CASE CheckFlowLimits(e)
  BY <1>2, <1>5, Zenon DEF CheckFlowLimits, AtWork, WorkerLabels
<1>6. CASE WorkerCutConn(e)
  BY <1>2, <1>6, Zenon DEF WorkerCutConn, AtWork, WorkerLabels
<1>7. CASE SendLinkInfo(e)
  <2>1. CASE WorkerGoto(e, "cut")
    BY <1>2, <1>7, <2>1, Zenon DEF SendLinkInfo, AtWork, WorkerLabels
  <2> DEFINE x == [ent[e] EXCEPT !.pc = "loop", !.back = "loop", !.conn = "open"]
  <2>2. CASE ent' = [ent EXCEPT ![e] = x]
    <3>1. x \in EntType /\ x.addr = ent[e].addr /\ x.pc = "loop"
      BY <1>1, ZenonT(30) DEF EntType, WorkerLabels
    <3> HIDE DEF x
    <3> QED
      BY <1>7, <2>2, <3>1, SameMap, ZenonT(30) DEF SendLinkInfo
  <2> QED
    BY <1>1, <1>7, <2>1, <2>2, Zenon DEF SendLinkInfo
<1>8. CASE Forward(e)
  <2>1. CASE WorkerGoto(e, "cut")
    BY <1>2, <1>8, <2>1, Zenon DEF Forward, AtWork, WorkerLabels
  <2> DEFINE x == [ent[e] EXCEPT !.ch = @ - 1]
             y == [ent[e] EXCEPT !.ch = ent[e].ch - 1, !.done = TRUE, !.pc = "cut"]
  <2>2. x \in EntType /\ x.addr = ent[e].addr /\ x.pc = ent[e].pc
    BY <1>1 DEF EntType
  <2>3. y \in EntType /\ y.addr = ent[e].addr /\ y.pc = "cut"
    <3>1. ASSUME NEW n \in Int, NEW z, z = [ent[e] EXCEPT !.ch = n, !.done = TRUE, !.pc = "cut"]
          PROVE  z \in EntType /\ z.addr = ent[e].addr /\ z.pc = "cut"
      BY <1>1, <3>1, ZenonT(30) DEF EntType, WorkerLabels
    <3>2. ent[e].ch - 1 \in Int
      BY <1>1 DEF EntType
    <3> QED
      BY <3>1, <3>2, ZenonT(30)
  <2>4. WorkerGoto(e, "cut") \/ ent' = [ent EXCEPT ![e] = x] \/ ent' = [ent EXCEPT ![e] = y]
    BY <1>1, <1>8, Zenon DEF Forward
  <2>5. ent[e].pc = "loop" /\ UNCHANGED <<entries, rd>>
    BY <1>8, Zenon DEF Forward
  <2> HIDE DEF x, y
  <2> QED
    BY <2>1, <2>2, <2>3, <2>4, <2>5, SameMap, Zenon
<1>9. CASE CancelCtx(e)
  <2> DEFINE x == [ent[e] EXCEPT !.pc = "delete", !.done = TRUE]
  <2>1. x \in EntType /\ x.addr = ent[e].addr /\ x.pc = "delete"
    BY <1>1, ZenonT(30) DEF EntType, WorkerLabels
  <2>2. ent' = [ent EXCEPT ![e] = x] /\ ent[e].pc = "cancel" /\ UNCHANGED <<entries, rd>>
    BY <1>1, <1>9, Zenon DEF CancelCtx
  <2> HIDE DEF x
  <2> QED
    BY <2>1, <2>2, SameMap, ZenonT(30)
<1>10. CASE CloseConn(e)
  <2> DEFINE x == [ent[e] EXCEPT !.pc = "end", !.ch = 0,
                                 !.conn = IF ent[e].conn = "none" THEN "none" ELSE "closed"]
  <2>1. x \in EntType /\ x.addr = ent[e].addr /\ x.pc = "end"
    <3> DEFINE c == IF ent[e].conn = "none" THEN "none" ELSE "closed"
               y == [ent[e] EXCEPT !.conn = c]
               z == [y EXCEPT !.ch = 0]
    <3>1. c \in {"none", "open", "lost", "closed"}
      BY Zenon
    <3>2. y \in EntType /\ y.addr = ent[e].addr
      <4> HIDE DEF c
      <4> QED
        BY <1>1, <3>1, Zenon DEF EntType
    <3>3. x = [z EXCEPT !.pc = "end"]
      BY <1>1, ZenonT(30) DEF EntType
    <3> HIDE DEF y, x
    <3>4. z \in EntType /\ z.addr = y.addr
      BY <3>2 DEF EntType
    <3> HIDE DEF z
    <3>5. x \in EntType /\ x.addr = z.addr /\ x.pc = "end"
      BY <3>3, <3>4, Zenon DEF EntType, WorkerLabels
    <3> QED
      BY <3>2, <3>4, <3>5, Zenon
  <2>2. ent' = [ent EXCEPT ![e] = x] /\ ent[e].pc = "close" /\ UNCHANGED <<entries, rd>>
    BY <1>1, <1>10, Zenon DEF CloseConn
  <2> HIDE DEF x
  <2> QED
    BY <2>1, <2>2, SameMap, ZenonT(30)
<1>11. CASE BackEnds(e)
  <2> DEFINE x == [ent[e] EXCEPT !.back = "end", !.done = TRUE]
  <2>1. x \in EntType /\ x.addr = ent[e].addr /\ x.pc = ent[e].pc
    BY <1>1, ZenonT(30) DEF EntType
  <2>2. ent' = [ent EXCEPT ![e] = x] /\ UNCHANGED <<entries, rd>>
    BY <1>1, <1>11, Zenon DEF BackEnds
  <2> HIDE DEF x
  <2> QED
    BY <2>1, <2>2, SameMap, ZenonT(30)
<1>12. CASE LinkLost(e)
  <2> DEFINE x == [ent[e] EXCEPT !.conn = "lost"]
  <2>1. x \in EntType /\ x.addr = ent[e].addr /\ x.pc = ent[e].pc
    BY <1>1, Zenon DEF EntType
  <2>2. ent' = [ent EXCEPT ![e] = x] /\ UNCHANGED <<entries, rd>>
    BY <1>1, <1>12, Zenon DEF LinkLost
  <2> HIDE DEF x
  <2> QED
    BY <2>1, <2>2, SameMap, ZenonT(30)
<1> QED
  BY <1>3, <1>4, <1>5, <1>6, <1>7, <1>8, <1>9, <1>10, <1>11, <1>12, DeleteInv, Zenon DEF clientWorker

\* Close marks entries as done and leaves the map to the workers.
LEMMA CloseEntriesInv == ASSUME MapInv, CloseEntries PROVE MapInv'
<1>1. ent \in [Ent -> EntType] /\ UNCHANGED <<entries, rd>>
  BY Zenon DEF MapInv, MapTypes, CloseEntries
<1>2. ASSUME NEW f \in Ent
      PROVE  ent'[f] \in EntType /\ ent'[f].addr = ent[f].addr /\ ent'[f].pc = ent[f].pc
  <2>1. ent[f] \in EntType
    BY <1>1, Zenon
  <2>2. ent'[f] = ent[f] \/ ent'[f] = [ent[f] EXCEPT !.done = TRUE]
    BY Zenon DEF CloseEntries
  <2> QED
    BY <2>1, <2>2, ZenonT(30) DEF EntType
<1>3. ent' \in [Ent -> EntType]
  <2>1. DOMAIN ent' = Ent /\ ent' = [e \in DOMAIN ent' |-> ent'[e]]
    BY Zenon DEF CloseEntries
  <2> QED
    BY <1>2, <2>1, Zenon
<1> QED
  BY <1>1, <1>2, <1>3 DEF MapInv, MapTypes, MapIsWorkers, AtWork

\* Every step keeps the map and the workers together.
LEMMA NextMapInv == ASSUME MapInv, [UdpNext]_udpVars PROVE MapInv'
<1>1. CASE UNCHANGED udpVars
  BY <1>1, Zenon DEF udpVars, MapInv, MapTypes, MapIsWorkers, AtWork
<1>2. ASSUME NEW a \in Addr, ReadFromUDP(a) PROVE MapInv'
  <2>1. rd' = [rd EXCEPT !.pc = "load", !.a = a] /\ UNCHANGED <<entries, ent>> /\ rd.pc = "read"
    BY <1>2, Zenon DEF ReadFromUDP
  <2> QED
    BY <2>1 DEF MapInv, MapTypes, MapIsWorkers, AtWork
<1>3. CASE ReaderEnds
  BY <1>3, Zenon DEF ReaderEnds, MapInv, MapTypes, MapIsWorkers, AtWork
<1>4. CASE CloseUdpListener
  BY <1>4, Zenon DEF CloseUdpListener, MapInv, MapTypes, MapIsWorkers, AtWork
<1> QED
  BY <1>1, <1>2, <1>3, <1>4, LoadEntryInv, OfferInv, WorkerInv, CloseEntriesInv, Zenon DEF UdpNext, Reader

\* Start and clientWorker: for any number of addresses and packets, an address
\* never has two workers that both forward.
THEOREM OneWorkerEach == UdpSpec => []OneWorker
<1>1. MapInv => OneWorker
  BY Zenon DEF MapInv, MapIsWorkers, OneWorker, AtWork
<1> QED
  BY <1>1, InitMapInv, NextMapInv, PTL DEF UdpSpec

\* Start and clientWorker: an entry found in the map has a worker that has not
\* yet emptied its channel for good.
THEOREM EntriesHaveWorkers == UdpSpec => []MapIsWorkers
<1>1. MapInv => MapIsWorkers
  BY Zenon DEF MapInv
<1> QED
  BY <1>1, InitMapInv, NextMapInv, PTL DEF UdpSpec

-----------------------------------------------------------------------------

\* Where a handler has been counted in NowConn of the client, and of the task.
Held == {"process", "deal", "invoke", "copy", "defer"}

\* In secret mode the task counts a connection before the client does.
HeldInSecret == Held \cup {"check", "add"}

\* The handlers at one of the labels of S.
HandlersAt(S) == {v \in Visitor : h[v] \in S}

\* The handlers whose chunk of direction d is written and not yet counted, and
\* the chunks of direction d that were counted for connections still copied.
Uncounted(d) == {v \in Visitor : cp[v]["nps"][d].pc = "task"}

\* The chunks of direction d that the copy of v has counted: a chunk that is written
\* and not yet counted is not among them.
CountedOf(v, d) == IF cp[v]["nps"][d].pc = "task" THEN cp[v]["nps"][d].n - 1 ELSE cp[v]["nps"][d].n
CountedTwice(d) == UNION {{v} \X (1..CountedOf(v, d)) : v \in Visitor}

\* handleConn, HandleSecret, AddConn and CutConn: NowConn counts the handlers between
\* AddConn and CutConn, no more and no fewer.
NowIsHandlers ==
    /\ now.client = Cardinality(HandlersAt(Held))
    /\ setup.mode = "secret" => now.task = Cardinality(HandlersAt(HeldInSecret))
    /\ setup.mode # "secret" => now.task = Cardinality(HandlersAt(Held))
    /\ \A v \in Visitor : /\ h[v] = "secret" => setup.mode = "secret"
                          /\ h[v] = "handle" => setup.mode # "secret"

\* Only a handler in copyConns has copies.
CopiesOfHandlers ==
    \A v \in Visitor :
        /\ h[v] # "copy" => cp[v]["nps"] = [d \in Dir |-> Ready]
        /\ \A d \in Dir : cp[v]["nps"][d].pc = "task" => cp[v]["nps"][d].n > 0

\* CopyBuffer and copyConns: until copyConns gives half of it back, each chunk is
\* counted in both directions, and a chunk is uncounted from its write to Add. The
\* flow of the task is then what was carried, plus the chunks counted a second time,
\* minus those not counted yet.
FlowIsCarried ==
    /\ \A d \in Dir : IsFiniteSet(CountedTwice(d))
    /\ flow.task.in + Cardinality(Uncounted("fwd")) = carried.in + Cardinality(CountedTwice("bwd"))
    /\ flow.task.out + Cardinality(Uncounted("bwd")) = carried.out + Cardinality(CountedTwice("fwd"))
    /\ Cardinality(Uncounted("fwd")) <= carried.in
    /\ Cardinality(Uncounted("bwd")) <= carried.out

\* The inductive invariant of the accounts.
AccountsInv == ProxyTypes /\ NowIsHandlers /\ CopiesOfHandlers /\ FlowIsCarried

-----------------------------------------------------------------------------
(* NowConn is the number of the handlers that hold a connection *)

\* The handlers at some labels are finitely many, and one that moves joins or leaves them.
LEMMA OneMoves ==
    ASSUME ProxyTypes, NEW v \in Visitor, NEW l, h' = [h EXCEPT ![v] = l], NEW S
    PROVE  /\ Cardinality(HandlersAt(S)) \in Nat /\ Cardinality(HandlersAt(S))' \in Nat
           /\ (h[v] \in S /\ l \in S) => Cardinality(HandlersAt(S))' = Cardinality(HandlersAt(S))
           /\ (h[v] \notin S /\ l \notin S) => Cardinality(HandlersAt(S))' = Cardinality(HandlersAt(S))
           /\ (h[v] \notin S /\ l \in S) => Cardinality(HandlersAt(S))' = Cardinality(HandlersAt(S)) + 1
           /\ (h[v] \in S /\ l \notin S) => Cardinality(HandlersAt(S))' = Cardinality(HandlersAt(S)) - 1
<1> DEFINE A == {u \in Visitor : h[u] \in S}
           B == {u \in Visitor : h'[u] \in S}
<1>0. HandlersAt(S) = A /\ HandlersAt(S)' = B /\ Cardinality(HandlersAt(S)) = Cardinality(A) /\ Cardinality(HandlersAt(S))' = Cardinality(B)
  BY Zenon DEF HandlersAt
<1>1. IsFiniteSet(A) /\ IsFiniteSet(B)
  BY FS_Subset, ProxyAssumption, Zenon
<1>2. Cardinality(A) \in Nat /\ Cardinality(B) \in Nat
  BY <1>1, FS_CardinalityType, Zenon
<1>3. \A u \in Visitor : h'[u] = IF u = v THEN l ELSE h[u]
  BY Zenon DEF ProxyTypes
<1>4. ASSUME h[v] \in S <=> l \in S PROVE B = A
  BY <1>3, <1>4, Zenon
<1>5. ASSUME h[v] \notin S, l \in S PROVE B = A \cup {v} /\ v \notin A
  BY <1>3, <1>5, Zenon
<1>6. ASSUME h[v] \in S, l \notin S PROVE B = A \ {v} /\ v \in A
  BY <1>3, <1>6, Zenon
<1>7. (h[v] \notin S /\ l \in S) => Cardinality(B) = Cardinality(A) + 1
  BY <1>1, <1>5, FS_AddElement, ZenonT(30)
<1>8. (h[v] \in S /\ l \notin S) => Cardinality(B) = Cardinality(A) - 1
  BY <1>1, <1>6, FS_RemoveElement, Zenon
<1> HIDE DEF A, B
<1>9. /\ (h[v] \in S /\ l \in S) => Cardinality(B) = Cardinality(A)
      /\ (h[v] \notin S /\ l \notin S) => Cardinality(B) = Cardinality(A)
  BY <1>4, Zenon
<1> QED
  BY <1>0, <1>2, <1>7, <1>8, <1>9, Zenon

\* What a handler counts for, at a label.
InNow(S, l) == IF l \in S THEN 1 ELSE 0

\* When one handler moves, the number of those at the labels of S changes by one at
\* most.
LEMMA CountMoves ==
    ASSUME ProxyTypes, NEW v \in Visitor, NEW l, h' = [h EXCEPT ![v] = l], NEW S
    PROVE  /\ Cardinality(HandlersAt(S)) \in Nat
           /\ Cardinality(HandlersAt(S))' = Cardinality(HandlersAt(S)) + InNow(S, l) - InNow(S, h[v])
<1> DEFINE a == Cardinality(HandlersAt(S))
<1>0. /\ a \in Nat /\ a' \in Nat
      /\ (h[v] \in S /\ l \in S) => a' = a
      /\ (h[v] \notin S /\ l \notin S) => a' = a
      /\ (h[v] \notin S /\ l \in S) => a' = a + 1
      /\ (h[v] \in S /\ l \notin S) => a' = a - 1
  BY OneMoves, ZenonT(30)
<1> HIDE DEF a
<1>1. a' = a + InNow(S, l) - InNow(S, h[v])
  BY <1>0 DEF InNow
<1> QED
  BY <1>0, <1>1, Zenon DEF a

\* now' is what the move of v to l makes of now.
Counts(v, l) ==
    /\ now'.client = now.client + InNow(Held, l) - InNow(Held, h[v])
    /\ setup.mode = "secret" => now'.task = now.task + InNow(HeldInSecret, l) - InNow(HeldInSecret, h[v])
    /\ setup.mode # "secret" => now'.task = now.task + InNow(Held, l) - InNow(Held, h[v])

\* A handler that moves and counts what it should keeps NowConn right.
LEMMA NowMoves ==
    ASSUME ProxyTypes, NowIsHandlers, setup' = setup, NEW v \in Visitor, NEW l \in HandlerLabels, h' = [h EXCEPT ![v] = l],
           Counts(v, l),
           l = "secret" => setup.mode = "secret",
           l = "handle" => setup.mode # "secret"
    PROVE  NowIsHandlers'
<1>1. \A u \in Visitor : h'[u] = IF u = v THEN l ELSE h[u]
  BY Zenon DEF ProxyTypes
<1>6. Cardinality(HandlersAt(Held))' = Cardinality(HandlersAt(Held)) + InNow(Held, l) - InNow(Held, h[v])
  BY CountMoves, ZenonT(30)
<1>7. Cardinality(HandlersAt(HeldInSecret))' = Cardinality(HandlersAt(HeldInSecret)) + InNow(HeldInSecret, l) - InNow(HeldInSecret, h[v])
  BY CountMoves, ZenonT(30)
<1>2. now'.client = Cardinality(HandlersAt(Held))'
  BY <1>6, Zenon DEF NowIsHandlers, Counts
<1>3. setup.mode = "secret" => now'.task = Cardinality(HandlersAt(HeldInSecret))'
  BY <1>7, Zenon DEF NowIsHandlers, Counts
<1>4. setup.mode # "secret" => now'.task = Cardinality(HandlersAt(Held))'
  BY <1>6, Zenon DEF NowIsHandlers, Counts
<1>5. \A u \in Visitor : /\ h'[u] = "secret" => setup.mode = "secret"
                         /\ h'[u] = "handle" => setup.mode # "secret"
  BY <1>1, Zenon DEF NowIsHandlers
<1> QED
  BY <1>2, <1>3, <1>4, <1>5, Zenon DEF NowIsHandlers

\* A step of anybody else keeps it too.
LEMMA NowSame == ASSUME NowIsHandlers, UNCHANGED <<setup, now, h>> PROVE NowIsHandlers'
  BY Zenon DEF NowIsHandlers, HandlersAt

\* Every step keeps NowConn right.
LEMMA NowStep == ASSUME ProxyTypes, NowIsHandlers, [Next]_vars PROVE NowIsHandlers'
<1>0. /\ \A l \in {"process", "deal", "invoke", "copy", "defer"} : InNow(Held, l) = 1 /\ InNow(HeldInSecret, l) = 1
      /\ \A l \in {"idle", "handle", "secret", "gone", "done"} : InNow(Held, l) = 0 /\ InNow(HeldInSecret, l) = 0
      /\ \A l \in {"check", "add"} : InNow(Held, l) = 0 /\ InNow(HeldInSecret, l) = 1
  BY Zenon DEF InNow, Held, HeldInSecret
<1>n. now.client \in Int /\ now.task \in Int
  BY Zenon DEF ProxyTypes
<1>1. CASE UNCHANGED <<setup, now, h>>
  BY <1>1, NowSame, Zenon
<1>2. ASSUME NEW v \in Visitor, Accept(v) PROVE NowIsHandlers'
  <2>1. h' = [h EXCEPT ![v] = IF setup.mode = "secret" THEN "secret" ELSE "handle"] /\ h[v] = "idle" /\ UNCHANGED <<setup, now>>
    BY <1>2, Zenon DEF Accept, Goto
  <2>2. Counts(v, "secret") /\ Counts(v, "handle")
    BY <1>0, <1>n, <2>1 DEF Counts
  <2> QED
    BY <2>1, <2>2, NowMoves, ZenonT(30) DEF HandlerLabels
<1>3. ASSUME NEW v \in Visitor, handleConn(v) PROVE NowIsHandlers'
  <2>1. h' = [h EXCEPT ![v] = "check"] /\ h[v] = "handle" /\ UNCHANGED <<setup, now>>
    BY <1>3, Zenon DEF handleConn, Goto
  <2>2. setup.mode # "secret"
    BY <2>1, Zenon DEF NowIsHandlers
  <2>9. Counts(v, "check")
    BY <1>0, <1>n, <2>1, <2>2 DEF Counts
  <2> QED
    BY <2>1, <2>2, <2>9, NowMoves, ZenonT(30) DEF HandlerLabels
<1>4. ASSUME NEW v \in Visitor, HandleSecret(v) PROVE NowIsHandlers'
  <2>1. h' = [h EXCEPT ![v] = "check"] /\ h[v] = "secret" /\ UNCHANGED setup
    BY <1>4, Zenon DEF HandleSecret, Goto
  <2>2. setup.mode = "secret" /\ now'.client = now.client /\ now'.task = now.task + 1
    BY <1>4, <2>1, Zenon DEF NowIsHandlers, HandleSecret, ProxyTypes
  <2>9. Counts(v, "check")
    BY <1>0, <1>n, <2>1, <2>2 DEF Counts
  <2> QED
    BY <2>1, <2>2, <2>9, NowMoves, ZenonT(30) DEF HandlerLabels
<1>5. ASSUME NEW v \in Visitor, CheckFlowAndConnNum(v) PROVE NowIsHandlers'
  <2>1. CASE Goto(v, "add") /\ UNCHANGED now
    <3>1. h' = [h EXCEPT ![v] = "add"] /\ h[v] = "check" /\ UNCHANGED <<setup, now>>
      BY <1>5, <2>1, Zenon DEF CheckFlowAndConnNum, Goto
    <3>9. Counts(v, "add")
      BY <1>0, <1>n, <3>1 DEF Counts
    <3> QED
      BY <3>1, <3>9, NowMoves, ZenonT(30) DEF HandlerLabels
  <2>2. CASE Goto(v, "gone") /\ now' = [now EXCEPT !.task = IF setup.mode = "secret" THEN @ - 1 ELSE @]
    <3>1. h' = [h EXCEPT ![v] = "gone"] /\ h[v] = "check" /\ UNCHANGED setup
      BY <1>5, <2>2, Zenon DEF CheckFlowAndConnNum, Goto
    <3>2. now'.client = now.client /\ (setup.mode = "secret" => now'.task = now.task - 1) /\ (setup.mode # "secret" => now'.task = now.task)
      BY <2>2, Zenon DEF ProxyTypes
    <3>9. Counts(v, "gone")
      BY <1>0, <1>n, <3>1, <3>2 DEF Counts
    <3> QED
      BY <3>1, <3>2, <3>9, NowMoves, ZenonT(30) DEF HandlerLabels
  <2> QED
    BY <1>5, <2>1, <2>2, Zenon DEF CheckFlowAndConnNum
<1>6. ASSUME NEW v \in Visitor, AddConn(v) PROVE NowIsHandlers'
  <2>1. h' = [h EXCEPT ![v] = "process"] /\ h[v] = "add" /\ UNCHANGED setup
    BY <1>6, Zenon DEF AddConn, Goto
  <2>2. now'.client = now.client + 1 /\ (setup.mode = "secret" => now'.task = now.task) /\ (setup.mode # "secret" => now'.task = now.task + 1)
    BY <1>6, Zenon DEF AddConn
  <2>9. Counts(v, "process")
    BY <1>0, <1>n, <2>1, <2>2 DEF Counts
  <2> QED
    BY <2>1, <2>2, <2>9, NowMoves, ZenonT(30) DEF HandlerLabels
<1>7. ASSUME NEW v \in Visitor, ProcessTunnel(v) \/ ProcessMix(v) \/ DealClient(v) \/ SecretLink(v) \/ Invoke(v) \/ copyConns(v) PROVE NowIsHandlers'
  <2>1. h[v] \in {"process", "deal", "invoke", "copy"} /\ UNCHANGED <<setup, now>>
    BY <1>7, Zenon DEF ProcessTunnel, ProcessMix, DealClient, SecretLink, Invoke, copyConns
  <2>2. \E l \in {"deal", "defer", "invoke", "copy"} : h' = [h EXCEPT ![v] = l]
    BY <1>7, Zenon DEF ProcessTunnel, ProcessMix, DealClient, SecretLink, Invoke, copyConns, Goto, Return
  <2>3. \A l \in {"deal", "defer", "invoke", "copy"} : Counts(v, l)
    BY <1>0, <1>n, <2>1 DEF Counts
  <2> QED
    BY <2>1, <2>2, <2>3, NowMoves, ZenonT(30) DEF HandlerLabels
<1>8. ASSUME NEW v \in Visitor, CutConn(v) PROVE NowIsHandlers'
  <2>1. h' = [h EXCEPT ![v] = "gone"] /\ h[v] = "defer" /\ UNCHANGED setup
    BY <1>8, Zenon DEF CutConn, Goto
  <2>2. now'.client = now.client - 1 /\ now'.task = now.task - 1
    BY <1>8, Zenon DEF CutConn
  <2>9. Counts(v, "gone")
    BY <1>0, <1>n, <2>1, <2>2 DEF Counts
  <2> QED
    BY <2>1, <2>2, <2>9, NowMoves, ZenonT(30) DEF HandlerLabels
<1>9. ASSUME NEW v \in Visitor, Deleted(v) PROVE NowIsHandlers'
  <2>1. h' = [h EXCEPT ![v] = "done"] /\ h[v] = "gone" /\ UNCHANGED <<setup, now>>
    BY <1>9, Zenon DEF Deleted, Goto
  <2>9. Counts(v, "done")
    BY <1>0, <1>n, <2>1 DEF Counts
  <2> QED
    BY <2>1, <2>9, NowMoves, ZenonT(30) DEF HandlerLabels
<1>10. ASSUME NEW v \in Visitor, AtNpc(v) \/ Ends(v) \/ Closes(v) PROVE UNCHANGED <<setup, now, h>>
  BY <1>10, Zenon DEF AtNpc, Ends, Closes, handleChan, InvokeAtNpc, CopyWaitGroup, UserRecv, UserSend, TargetRecv, TargetSend, UserClose, TargetClose
<1>11. ASSUME NEW v \in Visitor, NEW j \in Joint, NEW d \in Dir, Copy(v, j, d) PROVE UNCHANGED <<setup, now, h>>
  BY <1>11, ZenonT(30) DEF Copy, CopyStart, CopyRead, CopyWrite, copyConnGroup, CopyTask, CopyClient
<1>12. CASE CloseConns \/ CloseListener \/ UNCHANGED vars
  BY <1>1, <1>12, Zenon DEF CloseConns, CloseListener, vars
<1> QED
  BY <1>1, <1>2, <1>3, <1>4, <1>5, <1>6, <1>7, <1>8, <1>9, <1>10, <1>11, <1>12 DEF Next, Handler

-----------------------------------------------------------------------------
(* The flow of the task.                                                   *)

\* What a copy has counted is a number, and the chunks are finitely many.
LEMMA CopiesTyped == ASSUME ProxyTypes, NEW u \in Visitor, NEW d \in Dir
                     PROVE  cp[u]["nps"][d] \in CopyType /\ cp[u]["nps"][d].n \in Nat /\ cp[u]["nps"][d].pc \in CopyLabels
  BY DEF ProxyTypes, CopyType, Joint

LEMMA CountedNat == ASSUME ProxyTypes, CopiesOfHandlers, NEW u \in Visitor, NEW d \in Dir PROVE CountedOf(u, d) \in Nat
<1>1. cp[u]["nps"][d].n \in Nat /\ (cp[u]["nps"][d].pc = "task" => cp[u]["nps"][d].n > 0)
  BY CopiesTyped, Zenon DEF CopiesOfHandlers
<1> QED
  BY <1>1 DEF CountedOf

LEMMA UncountedFinite == ASSUME NEW d PROVE IsFiniteSet(Uncounted(d)) /\ Cardinality(Uncounted(d)) \in Nat
  BY FS_Subset, FS_CardinalityType, ProxyAssumption, Zenon DEF Uncounted

\* Membership in the set of chunks, without the union.
LEMMA TwiceMember == ASSUME NEW d, NEW c
                     PROVE c \in CountedTwice(d) <=> \E u \in Visitor : c \in {u} \X (1..CountedOf(u, d))
  BY Zenon DEF CountedTwice

\* The copies of the handlers are as they were, as far as chunks are concerned.
SameChunks(d) ==
    \A u \in Visitor : /\ cp'[u]["nps"][d].n = cp[u]["nps"][d].n
                       /\ cp'[u]["nps"][d].pc = "task" => cp[u]["nps"][d].pc = "task"
                       /\ cp[u]["nps"][d].pc = "task" => cp'[u]["nps"][d].pc = "task"

\* A step that moves no copy of nps leaves the chunks and the flow as they are.
LEMMA ChunksSame == ASSUME NEW d \in Dir, SameChunks(d)
                    PROVE  Uncounted(d)' = Uncounted(d) /\ CountedTwice(d)' = CountedTwice(d)
<1>1. Uncounted(d)' = Uncounted(d)
  BY Zenon DEF SameChunks, Uncounted
<1>2. \A u \in Visitor : CountedOf(u, d)' = CountedOf(u, d)
  BY Zenon DEF SameChunks, CountedOf
<1>3. CountedTwice(d)' = CountedTwice(d)
  BY <1>2, Zenon DEF CountedTwice
<1> QED
  BY <1>1, <1>3, Zenon

LEMMA FlowSame == ASSUME FlowIsCarried, \A d \in Dir : SameChunks(d), flow'.task = flow.task, carried' = carried
                  PROVE  FlowIsCarried'
<1>1. \A d \in Dir : Uncounted(d)' = Uncounted(d) /\ CountedTwice(d)' = CountedTwice(d)
  BY ChunksSame, Zenon
<1> QED
  BY <1>1, Zenon DEF FlowIsCarried, Dir

-----------------------------------------------------------------------------
(* Chunks: one more, one counted, all given back *)

\* Only the copy of v in direction d moves.
OthersSame(v, d) == \A u \in Visitor \ {v} : cp'[u]["nps"][d] = cp[u]["nps"][d]

\* A write makes one more chunk that is not counted.
LEMMA ChunkWritten ==
    ASSUME ProxyTypes, CopiesOfHandlers, NEW v \in Visitor, NEW d \in Dir, OthersSame(v, d),
           cp[v]["nps"][d].pc # "task", cp'[v]["nps"][d].pc = "task",
           cp'[v]["nps"][d].n = cp[v]["nps"][d].n + 1
    PROVE  /\ Cardinality(Uncounted(d))' = Cardinality(Uncounted(d)) + 1
           /\ CountedTwice(d)' = CountedTwice(d)
<1>1. Uncounted(d)' = Uncounted(d) \cup {v} /\ v \notin Uncounted(d)
  BY Zenon DEF Uncounted, OthersSame
<1>2. cp[v]["nps"][d].n \in Nat
  BY CopiesTyped, Zenon
<1>3. CountedOf(v, d)' = CountedOf(v, d)
  BY <1>2 DEF CountedOf
<1>4. \A u \in Visitor : CountedOf(u, d)' = CountedOf(u, d)
  BY <1>3, Zenon DEF CountedOf, OthersSame
<1>5. CountedTwice(d)' = CountedTwice(d)
  BY <1>4, Zenon DEF CountedTwice
<1>6. Cardinality(Uncounted(d) \cup {v}) = Cardinality(Uncounted(d)) + 1
  BY <1>1, UncountedFinite, FS_AddElement, ZenonT(30)
<1> QED
  BY <1>1, <1>5, <1>6, Zenon

\* Add moves one chunk from those not counted to those counted twice.
LEMMA ChunkCounted ==
    ASSUME ProxyTypes, CopiesOfHandlers, NEW v \in Visitor, NEW d \in Dir, OthersSame(v, d),
           cp[v]["nps"][d].pc = "task", cp'[v]["nps"][d].pc # "task",
           cp'[v]["nps"][d].n = cp[v]["nps"][d].n, IsFiniteSet(CountedTwice(d))
    PROVE  /\ Cardinality(Uncounted(d))' = Cardinality(Uncounted(d)) - 1
           /\ IsFiniteSet(CountedTwice(d)')
           /\ Cardinality(CountedTwice(d))' = Cardinality(CountedTwice(d)) + 1
<1>1. Uncounted(d)' = Uncounted(d) \ {v} /\ v \in Uncounted(d)
  BY Zenon DEF Uncounted, OthersSame
<1>2. PICK n \in Nat \ {0} : n = cp[v]["nps"][d].n
  BY CopiesTyped DEF CopiesOfHandlers
<1>3. CountedOf(v, d)' = n /\ CountedOf(v, d) = n - 1
  BY <1>2, Zenon DEF CountedOf
<1>4. \A u \in Visitor \ {v} : CountedOf(u, d)' = CountedOf(u, d)
  BY Zenon DEF CountedOf, OthersSame
<1>5. \A c : c \in CountedTwice(d)' <=> c \in CountedTwice(d) \cup {<<v, n>>}
  <2> TAKE c
  <2>1. c \in CountedTwice(d)' <=> \E u \in Visitor : c \in {u} \X (1..CountedOf(u, d)')
    BY Zenon DEF CountedTwice
  <2>2. c \in {v} \X (1..n) <=> (c \in {v} \X (1..(n-1)) \/ c = <<v, n>>)
    BY <1>2
  <2> QED
    BY <1>3, <1>4, <2>1, <2>2, TwiceMember, Zenon
<1>6. CountedTwice(d)' = CountedTwice(d) \cup {<<v, n>>}
  BY <1>5, Zenon
<1>7. <<v, n>> \notin CountedTwice(d)
  <2>1. <<v, n>> \notin {v} \X (1..(n-1))
    BY <1>2
  <2> QED
    BY <1>3, <2>1, TwiceMember
<1>8. Cardinality(CountedTwice(d) \cup {<<v, n>>}) = Cardinality(CountedTwice(d)) + 1 /\ IsFiniteSet(CountedTwice(d) \cup {<<v, n>>})
  BY <1>7, FS_AddElement, Zenon
<1>9. Cardinality(Uncounted(d) \ {v}) = Cardinality(Uncounted(d)) - 1
  BY <1>1, UncountedFinite, FS_RemoveElement, ZenonT(30)
<1> QED
  BY <1>1, <1>6, <1>8, <1>9, Zenon

\* At the end of copyConns the chunks of a connection leave the set at once, as many
\* as it subtracts.
LEMMA ChunksGivenBack ==
    ASSUME ProxyTypes, CopiesOfHandlers, NEW v \in Visitor, NEW d \in Dir, OthersSame(v, d),
           cp[v]["nps"][d].pc # "task", cp'[v]["nps"][d].pc # "task",
           cp'[v]["nps"][d].n = 0, IsFiniteSet(CountedTwice(d))
    PROVE  /\ Uncounted(d)' = Uncounted(d)
           /\ IsFiniteSet(CountedTwice(d)')
           /\ cp[v]["nps"][d].n <= Cardinality(CountedTwice(d))
           /\ Cardinality(CountedTwice(d))' = Cardinality(CountedTwice(d)) - cp[v]["nps"][d].n
<1>1. Uncounted(d)' = Uncounted(d)
  BY Zenon DEF Uncounted, OthersSame
<1>2. PICK n \in Nat : n = cp[v]["nps"][d].n
  BY CopiesTyped, Zenon
<1>3. CountedOf(v, d)' = 0 /\ CountedOf(v, d) = n
  BY <1>2, Zenon DEF CountedOf
<1>4. \A u \in Visitor \ {v} : CountedOf(u, d)' = CountedOf(u, d)
  BY Zenon DEF CountedOf, OthersSame
<1> DEFINE G == {v} \X (1..n)
<1>5. IsFiniteSet(G) /\ Cardinality(G) = n
  <2>1. IsFiniteSet(1..n) /\ Cardinality(1..n) = n
    BY FS_Interval
  <2>2. IsFiniteSet({v}) /\ Cardinality({v}) = 1
    BY FS_Singleton, ZenonT(30)
  <2> DEFINE N == 1..n
             V == {v}
  <2>3. G = V \X N /\ IsFiniteSet(N) /\ Cardinality(N) = n /\ IsFiniteSet(V) /\ Cardinality(V) = 1
    BY <2>1, <2>2, Zenon
  <2> HIDE DEF N, V, G
  <2>4. IsFiniteSet(V \X N) /\ Cardinality(V \X N) = Cardinality(V) * Cardinality(N)
    BY <2>3, FS_Product, Zenon
  <2>5. Cardinality(G) = 1 * n
    BY <2>3, <2>4, Zenon
  <2> QED
    BY <2>3, <2>4, <2>5
<1>6. G \subseteq CountedTwice(d)
  BY <1>3, TwiceMember, Zenon
<1>7. \A c : c \in CountedTwice(d)' <=> c \in CountedTwice(d) \ G
  <2> TAKE c
  <2>1. c \in CountedTwice(d)' <=> \E u \in Visitor : c \in {u} \X (1..CountedOf(u, d)')
    BY Zenon DEF CountedTwice
  <2>2. c \notin {v} \X (1..0)
    OBVIOUS
  <2>3. \A u \in Visitor \ {v} : c \in {u} \X (1..CountedOf(u, d)) => c \notin G
    BY Zenon
  <2> QED
    BY <1>3, <1>4, <2>1, <2>2, <2>3, TwiceMember, Zenon
<1>8. CountedTwice(d)' = CountedTwice(d) \ G
  BY <1>7, Zenon
<1> HIDE DEF G
<1>9. G \cap CountedTwice(d) = G /\ CountedTwice(d) \cap G = G
  BY <1>6, Zenon
<1>10. IsFiniteSet(CountedTwice(d) \ G) /\ Cardinality(CountedTwice(d) \ G) = Cardinality(CountedTwice(d)) - Cardinality(CountedTwice(d) \cap G)
  BY FS_Difference, ZenonT(30)
<1>11. Cardinality(G) <= Cardinality(CountedTwice(d))
  BY <1>6, FS_Subset, Zenon
<1> QED
  BY <1>1, <1>2, <1>5, <1>8, <1>9, <1>10, <1>11, ZenonT(30)

-----------------------------------------------------------------------------
(* The accounts *)

\* The part of the invariant that is about chunks.
Chunks == CopiesOfHandlers /\ FlowIsCarried

\* The copies at nps, the flow of the task and what was carried are as they were, and no handler leaves its copies.
LEMMA ChunksKept ==
    ASSUME Chunks, \A u \in Visitor : cp'[u]["nps"] = cp[u]["nps"] /\ (h[u] = "copy" => h'[u] = "copy"),
           flow'.task = flow.task, carried' = carried
    PROVE  Chunks'
<1>1. \A d \in Dir : SameChunks(d)
  BY Zenon DEF SameChunks
<1>2. FlowIsCarried'
  BY <1>1, FlowSame, Zenon DEF Chunks
<1>3. CopiesOfHandlers'
  BY Zenon DEF Chunks, CopiesOfHandlers
<1> QED
  BY <1>2, <1>3, Zenon DEF Chunks

\* A handler that has no copies may move on.
LEMMA HandlerNotCopying ==
    ASSUME ProxyTypes, Chunks, NEW v \in Visitor, h[v] # "copy", UNCHANGED <<cp, flow, carried>>, NEW l, h' = [h EXCEPT ![v] = l]
    PROVE  Chunks'
<1>1. \A u \in Visitor : h[u] = "copy" => h'[u] = "copy"
  BY Zenon DEF ProxyTypes
<1> QED
  BY <1>1, ChunksKept, Zenon

\* Invoke starts copies that have counted nothing.
LEMMA InvokeChunks == ASSUME ProxyTypes, Chunks, NEW v \in Visitor, Invoke(v) PROVE Chunks'
<1>1. h[v] = "invoke" /\ h' = [h EXCEPT ![v] = "copy"] /\ cp' = [cp EXCEPT ![v]["nps"] = Queued] /\ UNCHANGED <<flow, carried>>
  BY Zenon DEF Invoke, Goto
<1>2. cp[v]["nps"] = [d \in Dir |-> Ready]
  BY <1>1, Zenon DEF Chunks, CopiesOfHandlers
<1>3. cp'[v]["nps"] = Queued /\ \A u \in Visitor \ {v} : cp'[u]["nps"] = cp[u]["nps"]
  BY <1>1, AtJoint, ZenonT(30) DEF Joint
<1>4. \A d \in Dir : SameChunks(d)
  BY <1>2, <1>3, ReadyIs DEF SameChunks
<1>5. FlowIsCarried'
  BY <1>1, <1>4, FlowSame, Zenon DEF Chunks
<1>6. \A u \in Visitor : h'[u] = IF u = v THEN "copy" ELSE h[u]
  BY <1>1, Zenon DEF ProxyTypes
<1>7. CopiesOfHandlers'
  BY <1>3, <1>6, ReadyIs DEF Chunks, CopiesOfHandlers
<1> QED
  BY <1>5, <1>7, Zenon DEF Chunks

\* copyConns subtracts exactly what its two copies counted in the other direction.
LEMMA copyConnsChunks == ASSUME ProxyTypes, Chunks, NEW v \in Visitor, copyConns(v) PROVE Chunks'
<1>1. /\ h[v] = "copy" /\ h' = [h EXCEPT ![v] = "defer"] /\ cp' = [cp EXCEPT ![v]["nps"] = [d \in Dir |-> Ready]] /\ UNCHANGED carried
      /\ \A d \in Dir : cp[v]["nps"][d].pc = "done"
  BY Zenon DEF copyConns, Return, Goto
<1>3. cp'[v]["nps"] = [d \in Dir |-> Ready] /\ \A u \in Visitor \ {v} : cp'[u]["nps"] = cp[u]["nps"]
  BY <1>1, AtJoint, ZenonT(30) DEF Joint
<1>4. \A d \in Dir : OthersSame(v, d) /\ cp'[v]["nps"][d].n = 0 /\ cp'[v]["nps"][d].pc # "task" /\ cp[v]["nps"][d].pc # "task"
  BY <1>1, <1>3, ReadyIs, Zenon DEF OthersSame
<1>5. \A d \in Dir : /\ Uncounted(d)' = Uncounted(d)
                     /\ IsFiniteSet(CountedTwice(d)')
                     /\ cp[v]["nps"][d].n <= Cardinality(CountedTwice(d))
                     /\ Cardinality(CountedTwice(d))' = Cardinality(CountedTwice(d)) - cp[v]["nps"][d].n
  BY <1>4, ChunksGivenBack, Zenon DEF Chunks, FlowIsCarried
<1>6. \A u \in Visitor : h'[u] = IF u = v THEN "defer" ELSE h[u]
  BY <1>1, Zenon DEF ProxyTypes
<1>7. CopiesOfHandlers'
  BY <1>3, <1>6, ReadyIs DEF Chunks, CopiesOfHandlers
<1>8. PICK a, b, ca, cb, ua, ub : /\ a = cp[v]["nps"]["fwd"].n /\ b = cp[v]["nps"]["bwd"].n
                          /\ ca = Cardinality(CountedTwice("fwd")) /\ cb = Cardinality(CountedTwice("bwd"))
                          /\ ua = Cardinality(Uncounted("fwd")) /\ ub = Cardinality(Uncounted("bwd"))
  BY ZenonT(30)
<1>9. a \in Nat /\ b \in Nat /\ ca \in Nat /\ cb \in Nat /\ ua \in Nat /\ ub \in Nat
  BY <1>8, CopiesTyped, UncountedFinite, FS_CardinalityType, Zenon DEF Chunks, FlowIsCarried, Dir
<1>10. flow.task.in \in Nat /\ flow.task.out \in Nat /\ carried.in \in Nat /\ carried.out \in Nat
  BY Zenon DEF ProxyTypes, CountType
<1>11. /\ flow.task.in + ua = carried.in + cb /\ flow.task.out + ub = carried.out + ca /\ ua <= carried.in /\ ub <= carried.out
       /\ a <= ca /\ b <= cb
  BY <1>5, <1>8, ZenonT(30) DEF Chunks, FlowIsCarried, Dir
<1>12. flow'.task.in = (IF flow.task.in - b < 0 THEN 0 ELSE flow.task.in - b) /\ flow'.task.out = (IF flow.task.out - a < 0 THEN 0 ELSE flow.task.out - a)
  BY <1>8, Zenon DEF copyConns, ProxyTypes
<1>13. flow'.task.in = flow.task.in - b /\ flow'.task.out = flow.task.out - a
  BY <1>9, <1>10, <1>11, <1>12
<1>14. Cardinality(Uncounted("fwd"))' = ua /\ Cardinality(Uncounted("bwd"))' = ub /\ Cardinality(CountedTwice("fwd"))' = ca - a /\ Cardinality(CountedTwice("bwd"))' = cb - b
  BY <1>5, <1>8, Zenon DEF Dir
<1>15. FlowIsCarried'
  <2>1. flow'.task.in + ua = carried.in + (cb - b) /\ flow'.task.out + ub = carried.out + (ca - a)
    BY <1>9, <1>10, <1>11, <1>13
  <2> QED
    BY <1>1, <1>5, <1>11, <1>14, <2>1, Zenon DEF FlowIsCarried
<1> QED
  BY <1>7, <1>15, Zenon DEF Chunks

\* A copy at nps whose chunks are as they were.
LEMMA ChunksNotTouched ==
    ASSUME ProxyTypes, Chunks, NEW v \in Visitor, NEW d \in Dir, h[v] = "copy", UNCHANGED <<h, carried>>, flow'.task = flow.task,
           cp'[v]["nps"][d].n = cp[v]["nps"][d].n, cp[v]["nps"][d].pc # "task", cp'[v]["nps"][d].pc # "task",
           \A u \in Visitor, e \in Dir : <<u, e>> # <<v, d>> => cp'[u]["nps"][e] = cp[u]["nps"][e],
           \A u \in Visitor : u # v => cp'[u]["nps"] = cp[u]["nps"]
    PROVE  Chunks'
<1>1. \A e \in Dir : SameChunks(e)
  BY Zenon DEF SameChunks
<1>2. FlowIsCarried'
  BY <1>1, FlowSame, Zenon DEF Chunks
<1>3. CopiesOfHandlers'
  BY DEF Chunks, CopiesOfHandlers
<1> QED
  BY <1>2, <1>3, Zenon DEF Chunks

\* A copy of nps runs only while its handler is in copyConns.
LEMMA CopyingHandler == ASSUME Chunks, NEW v \in Visitor, NEW d \in Dir, cp[v]["nps"][d].pc # "idle" PROVE h[v] = "copy"
  BY ReadyIs, Zenon DEF Chunks, CopiesOfHandlers

\* A write and the Add after it keep the balance.
LEMMA CopyWriteChunks == ASSUME ProxyTypes, Chunks, NEW v \in Visitor, NEW d \in Dir, CopyWrite(v, "nps", d) PROVE Chunks'
<1>0. cp[v]["nps"][d].pc = "write" /\ h[v] = "copy" /\ UNCHANGED <<h, flow>>
  BY CopyingHandler, Zenon DEF CopyWrite
<1>1. CASE CopyTo(v, "nps", d, "close") /\ UNCHANGED carried
  BY <1>0, <1>1, CopyToKeeps, ChunksNotTouched DEF Joint
<1>2. CASE /\ cp' = [cp EXCEPT ![v]["nps"][d] = [@ EXCEPT !.pc = "task", !.n = cp[v]["nps"][d].n + 1]]
           /\ carried' = IF d = "fwd" THEN [carried EXCEPT !.in = @ + 1] ELSE [carried EXCEPT !.out = @ + 1]
  <2> DEFINE x == [cp[v]["nps"][d] EXCEPT !.pc = "task", !.n = cp[v]["nps"][d].n + 1]
  <2>1. cp[v]["nps"][d] \in CopyType /\ cp[v]["nps"][d].n \in Nat
    BY CopiesTyped, Zenon
  <2>2. x.pc = "task" /\ x.n = cp[v]["nps"][d].n + 1
    BY <2>1, Zenon DEF CopyType
  <2>3. cp' = [cp EXCEPT ![v]["nps"][d] = x]
    BY <1>2, Zenon
  <2> HIDE DEF x
  <2>4. cp'[v]["nps"][d] = x
    BY <2>3 DEF ProxyTypes, Joint
  <2>5. /\ \A u \in Visitor, k \in Joint, e \in Dir : <<u, k, e>> # <<v, "nps", d>> => cp'[u][k][e] = cp[u][k][e]
        /\ \A u \in Visitor, k \in Joint : u # v \/ k # "nps" => cp'[u][k] = cp[u][k]
    BY <2>3, OneCopy DEF Joint
  <2>6. OthersSame(v, d) /\ SameChunks(Other(d)) /\ Other(d) \in Dir /\ Other(d) # d
    BY <2>5, Zenon DEF OthersSame, SameChunks, Other, Dir, Joint
  <2>7. Cardinality(Uncounted(d))' = Cardinality(Uncounted(d)) + 1 /\ CountedTwice(d)' = CountedTwice(d)
    BY <1>0, <2>2, <2>4, <2>6, ChunkWritten, Zenon DEF Chunks
  <2>8. Uncounted(Other(d))' = Uncounted(Other(d)) /\ CountedTwice(Other(d))' = CountedTwice(Other(d))
    BY <2>6, ChunksSame, Zenon
  <2>9. carried.in \in Nat /\ carried.out \in Nat /\ flow.task.in \in Nat /\ flow.task.out \in Nat
    BY Zenon DEF ProxyTypes, CountType
  <2>10. /\ Cardinality(Uncounted("fwd")) \in Nat /\ Cardinality(Uncounted("bwd")) \in Nat
         /\ Cardinality(CountedTwice("fwd")) \in Nat /\ Cardinality(CountedTwice("bwd")) \in Nat
    BY UncountedFinite, FS_CardinalityType, Zenon DEF Chunks, FlowIsCarried, Dir
  <2>11. /\ d = "fwd" => carried'.in = carried.in + 1 /\ carried'.out = carried.out /\ Other(d) = "bwd"
         /\ d = "bwd" => carried'.in = carried.in /\ carried'.out = carried.out + 1 /\ Other(d) = "fwd"
    BY <1>2, Zenon DEF ProxyTypes, CountType, Other
  <2>12. \A e \in Dir : IsFiniteSet(CountedTwice(e)') /\ CountedTwice(e)' = CountedTwice(e)
    BY <2>7, <2>8 DEF Chunks, FlowIsCarried, Other, Dir
  <2>13. ASSUME d = "fwd" PROVE FlowIsCarried'
    <3>1. /\ Cardinality(Uncounted("fwd"))' = Cardinality(Uncounted("fwd")) + 1
          /\ Cardinality(Uncounted("bwd"))' = Cardinality(Uncounted("bwd"))
          /\ carried'.in = carried.in + 1 /\ carried'.out = carried.out
      BY <2>7, <2>8, <2>11, <2>13, Zenon
    <3>2. /\ Cardinality(CountedTwice("fwd"))' = Cardinality(CountedTwice("fwd"))
          /\ Cardinality(CountedTwice("bwd"))' = Cardinality(CountedTwice("bwd"))
          /\ flow' = flow /\ \A e \in Dir : IsFiniteSet(CountedTwice(e)')
      BY <1>0, <2>12, Zenon DEF Dir
    <3>3. /\ flow.task.in + Cardinality(Uncounted("fwd")) = carried.in + Cardinality(CountedTwice("bwd"))
          /\ flow.task.out + Cardinality(Uncounted("bwd")) = carried.out + Cardinality(CountedTwice("fwd"))
          /\ Cardinality(Uncounted("fwd")) <= carried.in /\ Cardinality(Uncounted("bwd")) <= carried.out
      BY Zenon DEF Chunks, FlowIsCarried
    <3>4. /\ flow.task.in + (Cardinality(Uncounted("fwd")) + 1) = (carried.in + 1) + Cardinality(CountedTwice("bwd"))
          /\ Cardinality(Uncounted("fwd")) + 1 <= carried.in + 1
      BY <2>9, <2>10, <3>3
    <3>5. /\ flow'.task.in + Cardinality(Uncounted("fwd"))' = carried'.in + Cardinality(CountedTwice("bwd"))'
          /\ flow'.task.out + Cardinality(Uncounted("bwd"))' = carried'.out + Cardinality(CountedTwice("fwd"))'
          /\ Cardinality(Uncounted("fwd"))' <= carried'.in /\ Cardinality(Uncounted("bwd"))' <= carried'.out
      BY <3>1, <3>2, <3>3, <3>4, Zenon
    <3> QED
      BY <3>2, <3>5, Zenon DEF FlowIsCarried
  <2>14. ASSUME d = "bwd" PROVE FlowIsCarried'
    <3>1. /\ Cardinality(Uncounted("bwd"))' = Cardinality(Uncounted("bwd")) + 1
          /\ Cardinality(Uncounted("fwd"))' = Cardinality(Uncounted("fwd"))
          /\ carried'.out = carried.out + 1 /\ carried'.in = carried.in
      BY <2>7, <2>8, <2>11, <2>14, Zenon
    <3>2. /\ Cardinality(CountedTwice("fwd"))' = Cardinality(CountedTwice("fwd"))
          /\ Cardinality(CountedTwice("bwd"))' = Cardinality(CountedTwice("bwd"))
          /\ flow' = flow /\ \A e \in Dir : IsFiniteSet(CountedTwice(e)')
      BY <1>0, <2>12, Zenon DEF Dir
    <3>3. /\ flow.task.in + Cardinality(Uncounted("fwd")) = carried.in + Cardinality(CountedTwice("bwd"))
          /\ flow.task.out + Cardinality(Uncounted("bwd")) = carried.out + Cardinality(CountedTwice("fwd"))
          /\ Cardinality(Uncounted("fwd")) <= carried.in /\ Cardinality(Uncounted("bwd")) <= carried.out
      BY Zenon DEF Chunks, FlowIsCarried
    <3>4. /\ flow.task.out + (Cardinality(Uncounted("bwd")) + 1) = (carried.out + 1) + Cardinality(CountedTwice("fwd"))
          /\ Cardinality(Uncounted("bwd")) + 1 <= carried.out + 1
      BY <2>9, <2>10, <3>3
    <3>5. /\ flow'.task.in + Cardinality(Uncounted("fwd"))' = carried'.in + Cardinality(CountedTwice("bwd"))'
          /\ flow'.task.out + Cardinality(Uncounted("bwd"))' = carried'.out + Cardinality(CountedTwice("fwd"))'
          /\ Cardinality(Uncounted("fwd"))' <= carried'.in /\ Cardinality(Uncounted("bwd"))' <= carried'.out
      BY <3>1, <3>2, <3>3, <3>4, Zenon
    <3> QED
      BY <3>2, <3>5, Zenon DEF FlowIsCarried
  <2>15. CopiesOfHandlers'
    <3>1. \A u \in Visitor : h'[u] # "copy" => cp'[u]["nps"] = [e \in Dir |-> Ready]
      BY <1>0, <2>5, Zenon DEF Chunks, CopiesOfHandlers, Joint
    <3>2. \A u \in Visitor, e \in Dir : cp'[u]["nps"][e].pc = "task" => cp'[u]["nps"][e].n > 0
      BY <2>1, <2>2, <2>4, <2>5 DEF Chunks, CopiesOfHandlers, Joint
    <3> QED
      BY <3>1, <3>2, Zenon DEF CopiesOfHandlers
  <2> QED
    BY <2>13, <2>14, <2>15, Zenon DEF Chunks, Dir
<1> QED
  BY <1>1, <1>2, Zenon DEF CopyWrite

LEMMA CopyTaskChunks == ASSUME ProxyTypes, Chunks, NEW v \in Visitor, NEW d \in Dir, CopyTask(v, d) PROVE Chunks'
<1>0. cp[v]["nps"][d].pc = "task" /\ h[v] = "copy" /\ UNCHANGED <<h, carried>> /\ flow' = [flow EXCEPT !.task = Counted(@)]
  BY CopyingHandler, Zenon DEF CopyTask
<1>1. PICK l \in {"close", "client"} : CopyTo(v, "nps", d, l)
  BY Zenon DEF CopyTask
<1>2. /\ cp'[v]["nps"][d].pc = l /\ cp'[v]["nps"][d].n = cp[v]["nps"][d].n
      /\ \A u \in Visitor, k \in Joint, e \in Dir : <<u, k, e>> # <<v, "nps", d>> => cp'[u][k][e] = cp[u][k][e]
      /\ \A u \in Visitor, k \in Joint : u # v \/ k # "nps" => cp'[u][k] = cp[u][k]
  BY <1>1, CopyToKeeps DEF Joint
<1>3. OthersSame(v, d) /\ SameChunks(Other(d)) /\ Other(d) \in Dir /\ Other(d) # d
  BY <1>2, Zenon DEF OthersSame, SameChunks, Other, Dir, Joint
<1>4. /\ Cardinality(Uncounted(d))' = Cardinality(Uncounted(d)) - 1
      /\ IsFiniteSet(CountedTwice(d)')
      /\ Cardinality(CountedTwice(d))' = Cardinality(CountedTwice(d)) + 1
  BY <1>0, <1>1, <1>2, <1>3, ChunkCounted, Zenon DEF Chunks, FlowIsCarried
<1>5. Uncounted(Other(d))' = Uncounted(Other(d)) /\ CountedTwice(Other(d))' = CountedTwice(Other(d))
  BY <1>3, ChunksSame, Zenon
<1>6. carried.in \in Nat /\ carried.out \in Nat /\ flow.task.in \in Nat /\ flow.task.out \in Nat
  BY Zenon DEF ProxyTypes, CountType
<1>7. /\ Cardinality(Uncounted("fwd")) \in Nat /\ Cardinality(Uncounted("bwd")) \in Nat
      /\ Cardinality(CountedTwice("fwd")) \in Nat /\ Cardinality(CountedTwice("bwd")) \in Nat
  BY UncountedFinite, FS_CardinalityType, Zenon DEF Chunks, FlowIsCarried, Dir
<1>8. flow'.task.in = flow.task.in + 1 /\ flow'.task.out = flow.task.out + 1
  BY <1>0, Zenon DEF ProxyTypes, Counted
<1>9. \A e \in Dir : IsFiniteSet(CountedTwice(e)')
  BY <1>4, <1>5, Zenon DEF Chunks, FlowIsCarried, Other, Dir
<1>10. ASSUME d = "fwd" PROVE FlowIsCarried'
  <2>1. Other(d) = "bwd"
    BY <1>10, Zenon DEF Other
  <2> QED
    BY <1>0, <1>4, <1>5, <1>6, <1>7, <1>8, <1>9, <1>10, <2>1 DEF Chunks, FlowIsCarried
<1>11. ASSUME d = "bwd" PROVE FlowIsCarried'
  <2>1. Other(d) = "fwd"
    BY <1>11, Zenon DEF Other
  <2> QED
    BY <1>0, <1>4, <1>5, <1>6, <1>7, <1>8, <1>9, <1>11, <2>1 DEF Chunks, FlowIsCarried
<1>12. CopiesOfHandlers'
  <2>1. \A u \in Visitor : h'[u] # "copy" => cp'[u]["nps"] = [e \in Dir |-> Ready]
    BY <1>0, <1>2, Zenon DEF Chunks, CopiesOfHandlers, Joint
  <2>2. \A u \in Visitor, e \in Dir : cp'[u]["nps"][e].pc = "task" => cp'[u]["nps"][e].n > 0
    BY <1>1, <1>2 DEF Chunks, CopiesOfHandlers, Joint
  <2> QED
    BY <2>1, <2>2, Zenon DEF CopiesOfHandlers
<1> QED
  BY <1>10, <1>11, <1>12, Zenon DEF Chunks, Dir

\* Every step of a copy keeps the balance.
LEMMA CopyChunks == ASSUME ProxyTypes, Chunks, NEW v \in Visitor, NEW j \in Joint, NEW d \in Dir, Copy(v, j, d) PROVE Chunks'
<1>1. CASE j = "npc"
  <2>1. UNCHANGED <<h, flow, carried>>
    BY <1>1, Zenon DEF Copy, CopyStart, CopyRead, CopyWrite, copyConnGroup
  <2>2. \E x : cp' = [cp EXCEPT ![v][j][d] = x]
    BY <1>1, ZenonT(30) DEF Copy, CopyStart, CopyRead, CopyWrite, copyConnGroup, CopyTo
  <2>3. \A u \in Visitor : cp'[u]["nps"] = cp[u]["nps"]
    BY <1>1, <2>2, OneCopy DEF Joint
  <2> QED
    BY <2>1, <2>3, ChunksKept, Zenon
<1>2. CASE j = "nps" /\ CopyWrite(v, j, d)
  BY <1>2, CopyWriteChunks, Zenon
<1>3. CASE j = "nps" /\ CopyTask(v, d)
  BY <1>3, CopyTaskChunks, Zenon
<1>4. CASE j = "nps" /\ CopyRead(v, j, d)
  <2>1. cp[v]["nps"][d].pc = "read" /\ h[v] = "copy" /\ UNCHANGED <<h, flow, carried>>
    BY <1>4, CopyingHandler, Zenon DEF CopyRead
  <2>2. CASE CopyTo(v, j, d, "close")
    BY <1>4, <2>1, <2>2, CopyToKeeps, ChunksNotTouched DEF Joint
  <2>3. CASE \E eof : cp' = [cp EXCEPT ![v][j][d] = [@ EXCEPT !.pc = "write", !.eof = eof]]
    <3>1. PICK eof : cp' = [cp EXCEPT ![v][j][d] = [@ EXCEPT !.pc = "write", !.eof = eof]]
      BY <2>3, ZenonT(30)
    <3> DEFINE x == [cp[v]["nps"][d] EXCEPT !.pc = "write", !.eof = eof]
    <3>2. cp[v]["nps"][d] \in CopyType
      BY CopiesTyped, Zenon
    <3>3. x.pc = "write" /\ x.n = cp[v]["nps"][d].n
      BY <3>2, Zenon DEF CopyType
    <3>4. cp' = [cp EXCEPT ![v]["nps"][d] = x]
      BY <1>4, <3>1, Zenon
    <3> HIDE DEF x
    <3>5. cp'[v]["nps"][d] = x
      BY <3>4 DEF ProxyTypes, Joint
    <3>6. /\ \A u \in Visitor, k \in Joint, e \in Dir : <<u, k, e>> # <<v, "nps", d>> => cp'[u][k][e] = cp[u][k][e]
          /\ \A u \in Visitor, k \in Joint : u # v \/ k # "nps" => cp'[u][k] = cp[u][k]
      BY <3>4, OneCopy DEF Joint
    <3> QED
      BY <2>1, <3>3, <3>5, <3>6, ChunksNotTouched, Zenon DEF Joint
  <2> QED
    BY <1>4, <2>2, <2>3, ZenonT(30) DEF CopyRead
<1>5. CASE j = "nps" /\ (CopyStart(v, j, d) \/ copyConnGroup(v, j, d) \/ CopyClient(v, d))
  <2>1. cp[v]["nps"][d].pc \in {"queued", "close", "client"} /\ UNCHANGED <<h, carried>>
    BY <1>5, Zenon DEF CopyStart, copyConnGroup, CopyClient
  <2>2. h[v] = "copy"
    BY <2>1, CopyingHandler, Zenon
  <2>3. flow'.task = flow.task
    BY <1>5, Zenon DEF CopyStart, copyConnGroup, CopyClient, ProxyTypes
  <2>4. \E l \in {"read", "done", "close"} : CopyTo(v, "nps", d, l)
    BY <1>5, Zenon DEF CopyStart, copyConnGroup, CopyClient
  <2> QED
    BY <2>1, <2>2, <2>3, <2>4, CopyToKeeps, ChunksNotTouched DEF Joint
<1> QED
  BY <1>1, <1>2, <1>3, <1>4, <1>5, Zenon DEF Copy, Joint

\* Every step keeps the accounts.
LEMMA StepAccounts == ASSUME AccountsInv, [Next]_vars PROVE AccountsInv'
<1>0. ProxyTypes /\ NowIsHandlers /\ Chunks
  BY Zenon DEF AccountsInv, Chunks
<1>1. ProxyTypes' /\ NowIsHandlers'
  BY <1>0, StepProxyTypes, NowStep, Zenon
<1>2. Chunks'
  <2>1. ASSUME NEW v \in Visitor,
               Accept(v) \/ handleConn(v) \/ HandleSecret(v) \/ CheckFlowAndConnNum(v) \/ AddConn(v) \/ ProcessTunnel(v) \/ ProcessMix(v)
               \/ DealClient(v) \/ SecretLink(v) \/ CutConn(v) \/ Deleted(v)
        PROVE  Chunks'
    <3>1. UNCHANGED <<cp, flow, carried>> /\ h[v] # "copy"
      BY <2>1, Zenon DEF Accept, handleConn, HandleSecret, CheckFlowAndConnNum, AddConn, ProcessTunnel, ProcessMix, DealClient, SecretLink, CutConn, Deleted
    <3>2. \E l : h' = [h EXCEPT ![v] = l]
      BY <2>1, Zenon DEF Accept, handleConn, HandleSecret, CheckFlowAndConnNum, AddConn, ProcessTunnel, ProcessMix, DealClient, SecretLink, CutConn, Deleted,
                  Goto, Return
    <3> QED
      BY <1>0, <3>1, <3>2, HandlerNotCopying, ZenonT(30)
  <2>2. ASSUME NEW v \in Visitor, Invoke(v) \/ copyConns(v) PROVE Chunks'
    BY <1>0, <2>2, InvokeChunks, copyConnsChunks, Zenon
  <2>3. ASSUME NEW v \in Visitor, InvokeAtNpc(v) \/ CopyWaitGroup(v) PROVE Chunks'
    <3>1. UNCHANGED <<h, flow, carried>> /\ \E x : cp' = [cp EXCEPT ![v]["npc"] = x]
      BY <2>3, Zenon DEF InvokeAtNpc, CopyWaitGroup
    <3>2. \A u \in Visitor : cp'[u]["nps"] = cp[u]["nps"]
      BY <1>0, <3>1, AtJoint DEF Joint
    <3> QED
      BY <1>0, <3>1, <3>2, ChunksKept, Zenon
  <2>4. ASSUME NEW v \in Visitor, NEW j \in Joint, NEW d \in Dir, Copy(v, j, d) PROVE Chunks'
    BY <1>0, <2>4, CopyChunks, Zenon
  <2>5. ASSUME UNCHANGED <<h, cp, flow, carried>> PROVE Chunks'
    BY <1>0, <2>5, ChunksKept, Zenon
  <2>6. ASSUME NEW v \in Visitor, handleChan(v) \/ Ends(v) \/ Closes(v) PROVE UNCHANGED <<h, cp, flow, carried>>
    BY <2>6, Zenon DEF handleChan, Ends, Closes, UserRecv, UserSend, TargetRecv, TargetSend, UserClose, TargetClose
  <2>7. CASE CloseConns \/ CloseListener \/ UNCHANGED vars
    BY <2>5, <2>7, Zenon DEF CloseConns, CloseListener, vars
  <2> QED
    BY <2>1, <2>2, <2>3, <2>4, <2>5, <2>6, <2>7 DEF Next, Handler, AtNpc
<1> QED
  BY <1>1, <1>2, Zenon DEF AccountsInv, Chunks

\* The accounts are balanced before anyone connects.
LEMMA InitAccounts == Init => AccountsInv
<1> SUFFICES ASSUME Init PROVE AccountsInv
  BY Zenon
<1>1. \A v \in Visitor : h[v] = "idle" /\ cp[v]["nps"] = [d \in Dir |-> Ready]
  BY Zenon DEF Init, NoCopies, Joint
<1>2. \A v \in Visitor, d \in Dir : cp[v]["nps"][d].pc = "idle" /\ cp[v]["nps"][d].n = 0
  BY <1>1, ReadyIs, Zenon
<1>3. \A d \in Dir : Uncounted(d) = {} /\ CountedTwice(d) = {}
  <2>1. \A d \in Dir : Uncounted(d) = {}
    BY <1>2, Zenon DEF Uncounted
  <2>2. \A v \in Visitor, d \in Dir : CountedOf(v, d) = 0
    BY <1>2, Zenon DEF CountedOf
  <2>3. \A v \in Visitor, d \in Dir : {v} \X (1..CountedOf(v, d)) = {}
    BY <2>2
  <2> QED
    BY <2>1, <2>3, TwiceMember, Zenon
<1>4. FlowIsCarried
  <2>1. flow.task.in = 0 /\ flow.task.out = 0 /\ carried.in = 0 /\ carried.out = 0
    BY Zenon DEF Init
  <2> QED
    BY <1>3, <2>1, FS_EmptySet DEF FlowIsCarried, Dir
<1>5. HandlersAt(Held) = {} /\ HandlersAt(HeldInSecret) = {}
  BY <1>1, ZenonT(30) DEF HandlersAt, Held, HeldInSecret
<1>6. NowIsHandlers
  BY <1>1, <1>5, FS_EmptySet, ZenonT(30) DEF NowIsHandlers, Init
<1>7. CopiesOfHandlers
  BY <1>1, <1>2, Zenon DEF CopiesOfHandlers
<1> QED
  BY <1>4, <1>6, <1>7, InitProxyTypes, Zenon DEF AccountsInv

\* Balanced accounts are settled once no handler is left.
LEMMA AccountsSettle == AccountsInv => Settles
<1> SUFFICES ASSUME AccountsInv, Quiet PROVE now = [client |-> 0, task |-> 0] /\ flow.task = carried
  BY Zenon DEF Settles
<1>1. HandlersAt(Held) = {} /\ HandlersAt(HeldInSecret) = {}
  BY Zenon DEF HandlersAt, Held, HeldInSecret, Quiet
<1>2. now.client = 0 /\ now.task = 0
  BY <1>1, FS_EmptySet, Zenon DEF AccountsInv, NowIsHandlers
<1>3. now = [client |-> 0, task |-> 0]
  BY <1>2, Zenon DEF AccountsInv, ProxyTypes
<1>4. \A v \in Visitor, d \in Dir : cp[v]["nps"][d].pc = "idle" /\ cp[v]["nps"][d].n = 0
  BY ReadyIs, Zenon DEF AccountsInv, CopiesOfHandlers, Quiet
<1>5. \A d \in Dir : Uncounted(d) = {} /\ CountedTwice(d) = {}
  <2>1. \A d \in Dir : Uncounted(d) = {}
    BY <1>4, Zenon DEF Uncounted
  <2>2. \A v \in Visitor, d \in Dir : CountedOf(v, d) = 0
    BY <1>4, Zenon DEF CountedOf
  <2>3. \A v \in Visitor, d \in Dir : {v} \X (1..CountedOf(v, d)) = {}
    BY <2>2
  <2> QED
    BY <2>1, <2>3, TwiceMember, Zenon
<1>6. flow.task \in CountType /\ carried \in CountType
  BY Zenon DEF AccountsInv, ProxyTypes
<1>7. flow.task.in = carried.in /\ flow.task.out = carried.out
  BY <1>5, <1>6, FS_EmptySet DEF AccountsInv, FlowIsCarried, Dir, CountType
<1> QED
  BY <1>3, <1>6, <1>7 DEF CountType

\* handleConn, HandleSecret, CopyBuffer and copyConns: when the last handler has
\* returned, NowConn of the task and of the client is 0 and the flow of the task is
\* what was carried, for any number of users, any mode, any limits, refusals, aborts
\* and closes, and any order of their goroutines.
THEOREM AccountsBalance == Spec => []Settles
<1>1. Init => AccountsInv
  BY InitAccounts, Zenon
<1>2. AccountsInv /\ [Next]_vars => AccountsInv'
  BY StepAccounts, Zenon
<1>3. AccountsInv => Settles
  BY AccountsSettle, Zenon
<1> QED
  BY <1>1, <1>2, <1>3, PTL DEF Spec
=============================================================================
