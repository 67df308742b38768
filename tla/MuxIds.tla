-------------------------------- MODULE MuxIds --------------------------------
(***************************************************************************)
(* The ids of the connections of a mux: getId in lib/mux/mux.go, called by *)
(* the goroutines in NewConn at both ends.  The two ends count in steps of *)
(* two from -1 and from 0.  NewMux never stores isInitiator, so that near  *)
(* the end of the range both start again from 0.                           *)
(***************************************************************************)
EXTENDS Integers

CONSTANTS Callers,   \* goroutines that open connections
          Initiator, \* the callers at the end that is the initiator
          MaxInt,    \* math.MaxInt32
          Margin     \* 10000

VARIABLES id,      \* per end: Mux.id
          caller,  \* per caller: [pc, id, arrived] of its connection
          wrapped  \* has an end started again from 0?

idsVars == <<id, caller, wrapped>>

Ends == {"initiator", "acceptor"}
End(k) == IF k \in Initiator THEN "initiator" ELSE "acceptor"

startId == [e \in Ends |-> IF e = "initiator" THEN -1 ELSE 0]

NoConn == [pc |-> "idle", id |-> 0, arrived |-> FALSE]

IdsInit ==
    /\ id = startId
    /\ caller = [k \in Callers |-> NoConn]
    /\ wrapped = FALSE

\* Connections after connMap.Set, and those in the connMap of end e.
Open(k) == caller[k].pc = "open"
InMap(e, i) == \E k \in Callers : /\ Open(k) /\ caller[k].id = i
                                  /\ End(k) = e \/ caller[k].arrived

CallerGoto(k, label) == caller' = [caller EXCEPT ![k].pc = label]

\* LoadInt32 and the comparison with the end of the range.
getId(k) ==
    /\ caller[k].pc \in {"idle", "again"}
    /\ CallerGoto(k, IF MaxInt - id[End(k)] < Margin THEN "reset" ELSE "add")
    /\ UNCHANGED <<id, wrapped>>

\* StoreInt32: isInitiator is false at both ends.
ResetId(k) ==
    /\ caller[k].pc = "reset" /\ CallerGoto(k, "add")
    /\ id' = [id EXCEPT ![End(k)] = 0] /\ wrapped' = TRUE

\* Fault: the counter moves by one.
AddIdOne(k) ==
    /\ caller[k].pc = "add"
    /\ id' = [id EXCEPT ![End(k)] = @ + 1]
    /\ caller' = [caller EXCEPT ![k].pc = "check", ![k].id = id'[End(k)]]
    /\ UNCHANGED wrapped

AddId(k) ==
    /\ caller[k].pc = "add"
    /\ id' = [id EXCEPT ![End(k)] = @ + 2]
    /\ caller' = [caller EXCEPT ![k].pc = "check", ![k].id = id'[End(k)]]
    /\ UNCHANGED wrapped

\* connMap.Get: an id in use is passed over.
CheckId(k) ==
    /\ caller[k].pc = "check"
    /\ CallerGoto(k, IF InMap(End(k), caller[k].id) THEN "again" ELSE "set")
    /\ UNCHANGED <<id, wrapped>>

\* NewConn puts the connection into the map, and later so does the other end.
SetConn(k) ==
    /\ caller[k].pc = "set"
    /\ caller' = [caller EXCEPT ![k].pc = "open"]
    /\ UNCHANGED <<id, wrapped>>

ArriveConn(k) ==
    /\ Open(k) /\ ~caller[k].arrived
    /\ caller' = [caller EXCEPT ![k].arrived = TRUE]
    /\ UNCHANGED <<id, wrapped>>

DeleteConn(k) ==
    /\ Open(k)
    /\ caller' = [caller EXCEPT ![k] = NoConn]
    /\ UNCHANGED <<id, wrapped>>

IdsNext == \E k \in Callers : \/ getId(k) \/ ResetId(k) \/ AddId(k) \/ CheckId(k)
                              \/ SetConn(k) \/ ArriveConn(k) \/ DeleteConn(k)

IdsSpec == IdsInit /\ [][IdsNext]_idsVars
-------------------------------------------------------------------------------
(* Properties *)

Labels == {"idle", "again", "reset", "add", "check", "set", "open"}
CallerType == [pc : Labels, id : Int, arrived : BOOLEAN]

\* Every caller has a connection record, and the counters are integers.
IdsTypeOK == /\ id \in [Ends -> Int]
             /\ caller \in [Callers -> CallerType]
             /\ wrapped \in BOOLEAN

\* "Get New connId as unique flag": no two open connections have the same id,
\* whoever opened them.
UniqueIds ==
    \A j, k \in Callers : j # k /\ Open(j) /\ Open(k) => caller[j].id # caller[k].id

\* This holds until an end starts again from 0.
UniqueUntilReset == wrapped \/ UniqueIds

\* An end that has not started again hands out ids in its own parity, up to its
\* counter, each to one caller: the inductive invariant behind UniqueUntilReset.
HasId(k) == caller[k].pc \in {"check", "set", "open"}
Parity(e) == IF e = "initiator" THEN 1 ELSE 0

Allocated == wrapped \/
    /\ \A e \in Ends : id[e] % 2 = Parity(e)
    /\ \A k \in Callers : HasId(k) => /\ caller[k].id % 2 = Parity(End(k))
                                      /\ caller[k].id <= id[End(k)]
    /\ \A j, k \in Callers : j # k /\ HasId(j) /\ HasId(k) => caller[j].id # caller[k].id
===============================================================================
