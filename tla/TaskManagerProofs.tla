-------------------------- MODULE TaskManagerProofs --------------------------
(***************************************************************************)
(* The tasks of a client, for any tasks, ports, requests, goroutines and   *)
(* starting states.  Three theorems, each with the invariant it needs and  *)
(* resting on the one before.                                              *)
(*                                                                         *)
(* ListeningIsRegistered: RunList knows every server that listens, but for *)
(* the three named races.  The invariant is strengthened by what           *)
(* StopServer has achieved before it deletes an entry: the server it       *)
(* loaded is down, or is one of the lost ones.                             *)
(*                                                                         *)
(* QuietAgrees: once all is quiet a task is served if and only if it is    *)
(* stored as running, unless two goroutines worked on it at a time.  The   *)
(* invariant says what RunList, the servers and the stored tasks owe each  *)
(* other.                                                                  *)
(*                                                                         *)
(* ClientTakesTasks: a client that is deleted, or goes without being       *)
(* stored, takes its tasks with it.                                        *)
(***************************************************************************)
EXTENDS TaskManager, TLAPS

Live(s) == srv[s].pc \in {"new", "listening"}

\* Between RunList.Load and RunList.Delete, StopServer has a server, and once Close has
\* returned the server does not listen and will not, unless it is lost.
ClosedFirst ==
    \A p \in Procs :
       /\ proc[p].pc = "stopClose" => proc[p].svr # NoEntry
       /\ proc[p].pc = "stopDelete" =>
             (proc[p].svr \in Servers => proc[p].svr \in lost \/ ~Live(proc[p].svr))

IInv == TypeOK /\ ListeningRegistered /\ ClosedFirst

GoroutineRec(m) == [pc : BusyPC \cup FreePC, op : Op, task : m \cup {0},
                    svr : Entry, todo : SUBSET m]
ServerRec == [task : Task, pc : ServerPC, port : Port \cup {0}]

\* Servers are numbered from 1, and each has a task.
LEMMA ServerTypes ==
    ASSUME TypeOK, NEW z \in Servers
    PROVE  srv[z] \in ServerRec /\ srv[z].task \in Task /\ z # NoEntry /\ z # NilService
  <1>1. srv \in Seq(ServerRec) /\ z \in 1..Len(srv)
    BY DEF TypeOK, ServerRec, Servers
  <1>2. srv[z] \in ServerRec
    BY <1>1
  <1>3. z # NoEntry /\ z # NilService
    BY <1>1 DEF NoEntry, NilService
  <1> QED
    BY <1>2, <1>3, Zenon DEF ServerRec

\* What a change of a server's pc leaves alone.
LEMMA ServerMoves ==
    ASSUME srv \in Seq(ServerRec), NEW z \in Servers, NEW pc \in ServerPC,
           srv' = [srv EXCEPT ![z].pc = pc]
    PROVE  /\ srv' \in Seq(ServerRec) /\ Servers' = Servers
           /\ srv'[z].pc = pc /\ srv'[z].task = srv[z].task
           /\ \A y \in Servers \ {z} : srv'[y] = srv[y]
  <1> DEFINE r == [srv[z] EXCEPT !.pc = pc]
  <1>1. srv[z] \in ServerRec
    BY DEF Servers
  <1>2. r \in ServerRec /\ r.pc = pc /\ r.task = srv[z].task
    BY <1>1, Zenon DEF ServerRec
  <1>3. srv' = [srv EXCEPT ![z] = r]
    BY Zenon
  <1> HIDE DEF r
  <1> QED
    BY <1>2, <1>3 DEF Servers

\* AfterStop and AfterDel go to one of these places, never into the middle of StopServer.
LEMMA Continuations ==
    ASSUME NEW p
    PROVE  /\ Finish(p) \in {"idle", "done"}
           /\ \A ok \in BOOLEAN :
                 AfterStop(p, ok) \in {"startGet", "dbDel", "next", "idle", "done"}
           /\ AfterDel(p) \in {"next", "idle", "done"}
  BY Zenon DEF Finish, AfterStop, AfterDel

\* Goto changes one goroutine: it is at pc, with the task and the server it had unless
\* it has finished.
LEMMA GotoMoves ==
    ASSUME TypeOK, NEW p \in Procs, NEW pc \in BusyPC \cup FreePC, Goto(p, pc),
           pc \in BusyPC => proc[p].pc \in BusyPC
    PROVE  /\ proc' \in [Procs -> GoroutineRec(made)]
           /\ \A q \in Procs : proc'[q].pc \in BusyPC => proc'[q].task \in made
           /\ proc'[p].pc = pc
           /\ pc \in BusyPC => proc'[p].svr = proc[p].svr
           /\ \A q \in Procs \ {p} : proc'[q] = proc[q]
  <1>1. Finish(p) \in {"idle", "done"}
    BY Continuations, Zenon
  <1>2. proc \in [Procs -> GoroutineRec(made)]
    BY Zenon DEF TypeOK, GoroutineRec
  <1>3. proc[p] \in GoroutineRec(made)
    BY <1>2, Zenon
  <1>4. CASE pc = Finish(p)
    <2> DEFINE r == Goroutine(pc, proc[p].op, 0)
    <2>1. r = [pc |-> pc, op |-> proc[p].op, task |-> 0, svr |-> NoEntry, todo |-> {}]
      BY Zenon DEF Goroutine
    <2>2. r \in GoroutineRec(made)
      <3>1. proc[p].op \in Op
        BY <1>3, Zenon DEF GoroutineRec
      <3>2. NoEntry \in Entry
        BY Zenon DEF Entry
      <3>3. {} \in SUBSET made /\ 0 \in made \cup {0}
        BY Zenon
      <3> QED
        BY <3>1, <3>2, <3>3, <2>1 DEF GoroutineRec
    <2>3. proc' = [proc EXCEPT ![p] = r]
      BY <1>4, Zenon DEF Goto
    <2>4. r.pc = pc /\ pc \notin BusyPC
      BY <1>1, <1>4, <2>1 DEF BusyPC
    <2> HIDE DEF r
    <2> QED
      BY <1>2, <2>2, <2>3, <2>4, Zenon DEF TypeOK
  <1>5. CASE pc # Finish(p)
    <2> DEFINE r == [proc[p] EXCEPT !.pc = pc]
    <2>1. r \in GoroutineRec(made) /\ r.pc = pc /\ r.svr = proc[p].svr /\ r.task = proc[p].task
      BY <1>3, Zenon DEF GoroutineRec
    <2>2. proc' = [proc EXCEPT ![p] = r]
      BY <1>5, Zenon DEF Goto
    <2>3. r.pc \in BusyPC => r.task \in made
      BY <2>1, Zenon DEF TypeOK
    <2> HIDE DEF r
    <2> QED
      BY <1>2, <2>1, <2>2, <2>3, Zenon DEF TypeOK
  <1> QED
    BY <1>4, <1>5, Zenon

\* Handle starts one goroutine, with a task whose id is in m.
LEMMA HandleStarts ==
    ASSUME TypeOK, NEW m, made \subseteq m, NEW w \in Procs, NEW op \in Op,
           NEW t \in m \cup {0}, NEW pc \in BusyPC \cup FreePC, pc \in BusyPC => t \in m,
           Handle(w, op, t, pc)
    PROVE  /\ proc' \in [Procs -> GoroutineRec(m)]
           /\ \A q \in Procs : proc'[q].pc \in BusyPC => proc'[q].task \in m
           /\ proc'[w].pc = pc
           /\ \A q \in Procs \ {w} : proc'[q] = proc[q]
  <1> DEFINE r == Goroutine(pc, op, t)
  <1>1. r = [pc |-> pc, op |-> op, task |-> t, svr |-> NoEntry, todo |-> {}]
    BY Zenon DEF Goroutine
  <1>2. NoEntry \in Entry /\ {} \in SUBSET m
    BY Zenon DEF Entry
  <1>3. r \in GoroutineRec(m) /\ r.pc = pc /\ r.task = t
    BY <1>1, <1>2 DEF GoroutineRec
  <1>4. proc' = [proc EXCEPT ![w] = r]
    BY Zenon DEF Handle
  <1>5. proc \in [Procs -> GoroutineRec(m)]
    <2>1. proc \in [Procs -> GoroutineRec(made)]
      BY Zenon DEF TypeOK, GoroutineRec
    <2>2. GoroutineRec(made) \subseteq GoroutineRec(m)
      BY Zenon DEF GoroutineRec
    <2> QED
      BY <2>1, <2>2, Zenon
  <1> HIDE DEF r
  <1> QED
    BY <1>3, <1>4, <1>5, Zenon DEF TypeOK

\* A step that touches no server and no entry, and brings no goroutine between
\* RunList.Load and RunList.Delete, preserves the other two conjuncts.
LEMMA NoServerTouched ==
    ASSUME ListeningRegistered, ClosedFirst, UNCHANGED <<runList, srv, lost>>,
           \A q \in Procs : proc'[q].pc \in {"stopClose", "stopDelete"} => proc'[q] = proc[q]
    PROVE  ListeningRegistered' /\ ClosedFirst'
  <1>1. ListeningRegistered'
    BY Zenon DEF ListeningRegistered, Servers
  <1>2. ClosedFirst'
    BY Zenon DEF ClosedFirst, Servers, Live
  <1> QED
    BY <1>1, <1>2, Zenon

\* The steps of a goroutine that touch no server and no entry.
SafePC == (BusyPC \ {"stopClose", "stopDelete"}) \cup FreePC

LEMMA PlainStep ==
    ASSUME IInv, NEW p \in Procs, NEW pc \in SafePC, Goto(p, pc),
           pc \in BusyPC => proc[p].pc \in BusyPC,
           UNCHANGED <<bridge, made, runList, srv, lost>>,
           client' \in BOOLEAN, tasks' \subseteq made, status' \in [Task -> BOOLEAN],
           port' \in [Task -> Port], late' \subseteq Task, raced' \subseteq Task
    PROVE  IInv'
  <1>1. pc \in BusyPC \cup FreePC
    BY Zenon DEF SafePC
  <1>2. /\ proc' \in [Procs -> GoroutineRec(made)]
        /\ \A q \in Procs : proc'[q].pc \in BusyPC => proc'[q].task \in made
        /\ proc'[p].pc = pc
        /\ \A q \in Procs \ {p} : proc'[q] = proc[q]
    BY <1>1, GotoMoves, Zenon DEF IInv
  <1>3. TypeOK'
    BY <1>2, Zenon DEF IInv, TypeOK, GoroutineRec, bridge, Entry, Servers
  <1>4. ListeningRegistered' /\ ClosedFirst'
    BY <1>2, NoServerTouched, Zenon DEF IInv, SafePC, BusyPC, FreePC
  <1> QED
    BY <1>3, <1>4, Zenon DEF IInv

LEMMA StopServerSteps ==
    ASSUME IInv, NEW p \in Procs, raced' \subseteq Task,
           StopGet(p) \/ StopUpdate(p) \/ StopLoad(p) \/ StopClose(p) \/ StopDelete(p)
    PROVE  IInv'
  <1> USE DEF At
  <1> DEFINE t == proc[p].task
             s == proc[p].svr
  <1>1. AfterStop(p, TRUE) \in SafePC /\ AfterStop(p, FALSE) \in SafePC
    BY Continuations, ZenonT(30) DEF SafePC, BusyPC, FreePC
  <1>2. /\ proc \in [Procs -> GoroutineRec(made)]
        /\ proc[p].pc \in BusyPC => t \in made /\ t \in Task
    BY Zenon DEF IInv, TypeOK, GoroutineRec
  <1>3. CASE StopGet(p)
    <2>1. proc[p].pc \in BusyPC
      BY <1>3, Zenon DEF StopGet, BusyPC
    <2>2. PICK pc \in SafePC : Goto(p, pc)
      BY <1>1, <1>3, ZenonT(30) DEF StopGet, SafePC, BusyPC
    <2> QED
      BY <1>3, <2>1, <2>2, PlainStep, ZenonT(30) DEF StopGet, IInv, TypeOK, db
  <1>4. CASE StopUpdate(p)
    <2>1. proc[p].pc \in BusyPC /\ "stopLoad" \in SafePC
      BY <1>4, Zenon DEF StopUpdate, BusyPC, SafePC
    <2>2. tasks' \subseteq made /\ status' \in [Task -> BOOLEAN]
      BY <1>2, <1>4, <2>1, Zenon DEF StopUpdate, IInv, TypeOK
    <2> QED
      BY <1>4, <2>1, <2>2, PlainStep, ZenonT(30) DEF StopUpdate, IInv, TypeOK
  <1>5. CASE StopLoad(p)
    <2>1. proc[p].pc \in BusyPC
      BY <1>5, Zenon DEF StopLoad, BusyPC
    <2>2. CASE runList[t] = NoEntry
      <3>1. Goto(p, AfterStop(p, FALSE))
        BY <1>5, <2>2, ZenonT(30) DEF StopLoad
      <3> QED
        BY <1>1, <1>5, <2>1, <3>1, PlainStep, ZenonT(30) DEF StopLoad, IInv, TypeOK, db
    <2>3. CASE runList[t] # NoEntry
      <3>1. proc' = [proc EXCEPT ![p].pc = "stopClose", ![p].svr = runList[t]]
        BY <1>5, <2>3, Zenon DEF StopLoad
      <3>2. runList[t] \in Entry
        BY <1>2, <2>1, Zenon DEF IInv, TypeOK
      <3>3. /\ proc' \in [Procs -> GoroutineRec(made)]
            /\ proc'[p].pc = "stopClose" /\ proc'[p].svr = runList[t] /\ proc'[p].task = t
            /\ \A q \in Procs \ {p} : proc'[q] = proc[q]
        BY <1>2, <3>1, <3>2, ZenonT(30) DEF GoroutineRec, BusyPC
      <3>4. TypeOK'
        BY <1>2, <1>5, <2>1, <3>3, Zenon
        DEF StopLoad, IInv, TypeOK, GoroutineRec, db, bridge, Entry, Servers
      <3>5. ListeningRegistered'
        BY <1>5, Zenon DEF StopLoad, IInv, ListeningRegistered, Servers
      <3>6. ClosedFirst'
        BY <1>5, <2>3, <3>3, Zenon DEF StopLoad, IInv, ClosedFirst, Servers, Live
      <3> QED
        BY <3>4, <3>5, <3>6, Zenon DEF IInv
    <2> QED
      BY <2>2, <2>3, Zenon
  <1>6. CASE StopClose(p)
    <2> DEFINE was == IF s = NilService THEN "new" ELSE srv[s].pc
               to == IF was = "closed" THEN AfterStop(p, FALSE) ELSE "stopDelete"
    <2>1. proc[p].pc \in BusyPC /\ s \in Entry \ {NoEntry}
      BY <1>2, <1>6, Zenon DEF StopClose, BusyPC, GoroutineRec, IInv, ClosedFirst
    <2>2. s \in Servers \/ s = NilService
      BY <2>1, Zenon DEF Entry
    <2>3. to \in BusyPC \cup FreePC /\ Goto(p, to)
      BY <1>1, <1>6, ZenonT(30) DEF StopClose, SafePC, BusyPC
    <2>4. /\ proc' \in [Procs -> GoroutineRec(made)]
          /\ \A q \in Procs : proc'[q].pc \in BusyPC => proc'[q].task \in made
          /\ proc'[p].pc = to
          /\ to \in BusyPC => proc'[p].svr = s
          /\ \A q \in Procs \ {p} : proc'[q] = proc[q]
      <3> HIDE DEF to
      <3> QED
        BY <2>1, <2>3, GotoMoves, Zenon DEF IInv
    <2>5. NilService \notin Servers
      BY ServerTypes, Zenon DEF IInv
    <2>6. /\ srv' \in Seq(ServerRec) /\ Servers' = Servers
          /\ \A z \in Servers : srv'[z].task = srv[z].task /\ (Live(z)' => Live(z))
          /\ lost \subseteq lost' /\ lost' \subseteq Servers
          /\ s \in Servers => s \in lost' \/ srv'[s].pc \notin {"new", "listening"}
      <3>1. srv \in Seq(ServerRec) /\ lost \subseteq Servers
        BY Zenon DEF IInv, TypeOK, ServerRec
      <3>2. /\ srv' = IF was = "listening" THEN [srv EXCEPT ![s].pc = "closed"] ELSE srv
            /\ lost' = IF was = "new" /\ s # NilService THEN lost \cup {s} ELSE lost
        BY <1>6, Zenon DEF StopClose
      <3>3. CASE was = "listening"
        <4>1. s \in Servers
          BY <2>2, <3>3, Zenon
        <4>2. srv' = [srv EXCEPT ![s].pc = "closed"] /\ lost' = lost
          BY <3>2, <3>3, Zenon
        <4>3. "closed" \in ServerPC
          BY Zenon DEF ServerPC
        <4> QED
          BY <3>1, <4>1, <4>2, <4>3, ServerMoves, ZenonT(30) DEF Live
      <3>4. CASE was # "listening"
        <4>1. srv' = srv
          BY <3>2, <3>4, Zenon
        <4>2. lost' = lost \/ (s \in Servers /\ lost' = lost \cup {s})
          BY <2>2, <3>2, Zenon
        <4>3. s \in Servers /\ Live(s) => s \in lost'
          BY <2>5, <3>2, <3>4, Zenon DEF Live
        <4> QED
          BY <3>1, <4>1, <4>2, <4>3, Zenon DEF Servers, Live
      <3> QED
        BY <3>3, <3>4, Zenon
    <2>7. TypeOK'
      BY <1>6, <2>4, <2>6, Zenon
      DEF StopClose, IInv, TypeOK, GoroutineRec, ServerRec, db, bridge, Entry
    <2>8. ListeningRegistered'
      BY <1>6, <2>6, Zenon DEF StopClose, IInv, ListeningRegistered, Live
    <2>9. ClosedFirst'
      <3>1. AfterStop(p, FALSE) \notin {"stopClose", "stopDelete"}
        BY Continuations, ZenonT(30)
      <3>2. /\ proc'[p].pc # "stopClose"
            /\ proc'[p].pc = "stopDelete" => proc'[p].svr = s
        BY <2>4, <3>1, ZenonT(30) DEF BusyPC
      <3> SUFFICES ASSUME NEW q \in Procs
                   PROVE  /\ proc'[q].pc = "stopClose" => proc'[q].svr # NoEntry
                          /\ proc'[q].pc = "stopDelete" => (proc'[q].svr \in Servers' =>
                                proc'[q].svr \in lost' \/ ~Live(proc[q].svr)')
        BY Zenon DEF ClosedFirst
      <3>3. CASE q = p
        BY <2>6, <3>2, <3>3, Zenon DEF Live
      <3>4. CASE q # p
        <4>1. proc'[q] = proc[q]
          BY <2>4, <3>4, Zenon
        <4> QED
          BY <2>6, <4>1, Zenon DEF IInv, ClosedFirst, Live
      <3> QED
        BY <3>3, <3>4, Zenon
    <2> QED
      BY <2>7, <2>8, <2>9, Zenon DEF IInv
  <1>7. CASE StopDelete(p)
    <2>1. proc[p].pc \in BusyPC /\ Goto(p, AfterStop(p, TRUE))
      BY <1>7, ZenonT(30) DEF StopDelete, BusyPC
    <2>2. AfterStop(p, TRUE) \in BusyPC \cup FreePC
      BY <1>1, ZenonT(30) DEF SafePC
    <2>3. /\ proc' \in [Procs -> GoroutineRec(made)]
          /\ \A q \in Procs : proc'[q].pc \in BusyPC => proc'[q].task \in made
          /\ proc'[p].pc = AfterStop(p, TRUE)
          /\ \A q \in Procs \ {p} : proc'[q] = proc[q]
      BY <2>1, <2>2, GotoMoves, ZenonT(30) DEF IInv
    <2>4. /\ runList' = [runList EXCEPT ![t] = NoEntry]
          /\ lost' = lost \cup ({runList[t]} \ {NoEntry, NilService, s})
          /\ srv' = srv
      BY <1>7, Zenon DEF StopDelete, Delete
    <2>5. lost' \subseteq Servers
      BY <1>2, <2>1, <2>4, Zenon DEF IInv, TypeOK, Entry
    <2>6. TypeOK'
      BY <1>7, <2>3, <2>4, <2>5, ZenonT(30)
      DEF StopDelete, IInv, TypeOK, GoroutineRec, db, bridge, Entry, Servers
    <2>7. ListeningRegistered'
      <3> SUFFICES ASSUME NEW z \in Servers, srv[z].pc \in {"new", "listening"}
                   PROVE  z \in lost' \/ runList'[srv[z].task] = z
        BY <2>4, Zenon DEF ListeningRegistered, Servers
      <3>1. srv[z].task \in Task /\ z # NoEntry /\ z # NilService
        BY ServerTypes, Zenon DEF IInv
      <3>2. z \in lost \/ runList[srv[z].task] = z
        BY Zenon DEF IInv, ListeningRegistered
      <3>3. z = s => z \in lost
        BY <1>7, Zenon DEF StopDelete, IInv, ClosedFirst, Live
      <3> QED
        BY <2>4, <3>1, <3>2, <3>3, Zenon DEF IInv, TypeOK
    <2>8. ClosedFirst'
      <3>1. AfterStop(p, TRUE) \notin {"stopClose", "stopDelete"}
        BY Continuations, ZenonT(30)
      <3> QED
        BY <2>3, <2>4, <3>1, ZenonT(30) DEF IInv, ClosedFirst, Servers, Live
    <2> QED
      BY <2>6, <2>7, <2>8, Zenon DEF IInv
  <1> QED
    BY <1>3, <1>4, <1>5, <1>6, <1>7, Zenon

LEMMA StartTaskSteps ==
    ASSUME IInv, NEW p \in Procs, raced' \subseteq Task,
           StartGet(p) \/ Add(p) \/ StartUpdate(p)
    PROVE  IInv'
  <1> USE DEF At
  <1> DEFINE t == proc[p].task
             fin == Finish(p)
  <1>1. fin \in SafePC
    BY Continuations, Zenon DEF SafePC, FreePC
  <1>2. proc[p].pc \in BusyPC /\ t \in made /\ t \in Task
    BY Zenon DEF IInv, TypeOK, StartGet, Add, StartUpdate, BusyPC
  <1>3. {"add", "startUpdate", "dbDel"} \subseteq SafePC
    BY Zenon DEF SafePC, BusyPC
  <1>4. CASE StartGet(p)
    <2>1. PICK pc \in SafePC : Goto(p, pc)
      BY <1>1, <1>3, <1>4, Zenon DEF StartGet
    <2> QED
      BY <1>2, <1>4, <2>1, PlainStep, ZenonT(30) DEF StartGet, IInv, TypeOK, db
  <1>5. CASE StartUpdate(p)
    <2>1. tasks' \subseteq made /\ status' \in [Task -> BOOLEAN] /\ Goto(p, fin)
      BY <1>2, <1>5, Zenon DEF StartUpdate, IInv, TypeOK
    <2> HIDE DEF fin
    <2> QED
      BY <1>1, <1>2, <1>5, <2>1, PlainStep, ZenonT(30) DEF StartUpdate, IInv, TypeOK
  <1>6. CASE Add(p)
    <2>1. PICK pc \in SafePC : Goto(p, pc)
      BY <1>1, <1>3, <1>6, Zenon DEF Add
    <2>2. CASE ~TestServerPort(t)
      BY <1>2, <1>6, <2>1, <2>2, PlainStep, ZenonT(30) DEF Add, IInv, TypeOK, db
    <2>3. CASE TestServerPort(t)
      <3> DEFINE n == Len(srv) + 1
                 e == IF t \in SecretTask THEN NilService ELSE n
      <3>1. /\ runList' = [runList EXCEPT ![t] = e]
            /\ srv' = IF t \in SecretTask THEN srv ELSE Append(srv, NewServer(t))
            /\ lost' = lost \cup ({runList[t]} \ {NoEntry, NilService})
        BY <1>6, <2>3, Zenon DEF Add
      <3>2. pc \in BusyPC \cup FreePC /\ pc \notin {"stopClose", "stopDelete"}
        BY Zenon DEF SafePC, BusyPC, FreePC
      <3>3. /\ proc' \in [Procs -> GoroutineRec(made)]
            /\ \A q \in Procs : proc'[q].pc \in BusyPC => proc'[q].task \in made
            /\ proc'[p].pc = pc
            /\ \A q \in Procs \ {p} : proc'[q] = proc[q]
        BY <1>2, <2>1, <3>2, GotoMoves, Zenon DEF IInv
      <3>4. srv \in Seq(ServerRec) /\ NewServer(t) \in ServerRec
        BY <1>2, Zenon DEF IInv, TypeOK, ServerRec, NewServer, ServerPC
      <3>5. /\ srv' \in Seq(ServerRec) /\ Servers \subseteq Servers'
            /\ \A z \in Servers : srv'[z] = srv[z]
            /\ \A z \in Servers' \ Servers : z = n /\ t \notin SecretTask /\ srv'[z].task = t
            /\ e \in Servers' \cup {NilService}
        BY <3>1, <3>4 DEF Servers, NewServer
      <3>6. lost \subseteq lost' /\ lost' \subseteq Servers
        BY <1>2, <3>1, Zenon DEF IInv, TypeOK, Entry
      <3>7. Entry \subseteq Entry' /\ e \in Entry'
        BY <3>5, Zenon DEF Entry
      <3>8. proc' \in [Procs -> GoroutineRec(made)'] /\ made' = made
        BY <1>6, <3>3, <3>7, Zenon DEF Add, GoroutineRec, db
      <3>9. runList' \in [Task -> Entry']
        BY <1>2, <3>1, <3>7, Zenon DEF IInv, TypeOK
      <3> HIDE DEF e, n
      <3>10. TypeOK'
        BY <1>6, <3>3, <3>5, <3>6, <3>8, <3>9, Zenon
        DEF Add, IInv, TypeOK, GoroutineRec, ServerRec, db, bridge
      <3>11. ListeningRegistered'
        <4> SUFFICES ASSUME NEW z \in Servers', srv'[z].pc \in {"new", "listening"}
                     PROVE  z \in lost' \/ runList'[srv'[z].task] = z
          BY Zenon DEF ListeningRegistered
        <4>1. CASE z \in Servers
          <5>1. srv'[z] = srv[z] /\ srv[z].task \in Task /\ z # NoEntry /\ z # NilService
            BY <3>5, <4>1, ServerTypes, Zenon DEF IInv
          <5>2. z \in lost \/ runList[srv[z].task] = z
            BY <4>1, <5>1, Zenon DEF IInv, ListeningRegistered
          <5> QED
            BY <3>1, <5>1, <5>2, ZenonT(30) DEF IInv, TypeOK
        <4>2. CASE z \notin Servers
          <5>1. z = n /\ e = n /\ srv'[z].task = t
            BY <3>5, <4>2, Zenon DEF e
          <5> QED
            BY <1>2, <3>1, <5>1, ZenonT(30) DEF IInv, TypeOK
        <4> QED
          BY <4>1, <4>2, Zenon
      <3>12. ClosedFirst'
        <4> SUFFICES ASSUME NEW q \in Procs, q # p
                     PROVE  /\ proc[q].pc = "stopClose" => proc[q].svr # NoEntry
                            /\ proc[q].pc = "stopDelete" => (proc[q].svr \in Servers' =>
                                  proc[q].svr \in lost' \/
                                  srv'[proc[q].svr].pc \notin {"new", "listening"})
          BY <3>2, <3>3, Zenon DEF ClosedFirst, Live
        <4>1. proc[q].svr \in Entry
          BY Zenon DEF IInv, TypeOK
        <4>2. NoEntry \notin Servers' /\ NilService \notin Servers'
          BY <3>5 DEF Servers, NoEntry, NilService
        <4> QED
          BY <3>5, <3>6, <4>1, <4>2, Zenon DEF IInv, ClosedFirst, Entry, Live
      <3> QED
        BY <3>10, <3>11, <3>12, Zenon DEF IInv
    <2> QED
      BY <2>2, <2>3, Zenon
  <1> QED
    BY <1>4, <1>5, <1>6, Zenon

\* svr.Start: a server that becomes live was live, and one that fails is removed from
\* RunList with no one else's entry forgotten.
LEMMA ServerSteps ==
    ASSUME IInv, NEW z \in Servers, raced' \subseteq Task, Start(z) \/ StartFailed(z)
    PROVE  IInv'
  <1> DEFINE t == srv[z].task
  <1>1. srv \in Seq(ServerRec) /\ srv[z] \in ServerRec /\ t \in Task
    BY ServerTypes, Zenon DEF IInv, TypeOK, ServerRec
  <1>2. /\ srv' \in Seq(ServerRec) /\ Servers' = Servers
        /\ \A y \in Servers : srv'[y].task = srv[y].task /\ (Live(y)' => Live(y))
    <2>1. CASE Start(z)
      <3>1. CASE PortFree(port[t])
        <4> DEFINE r == [srv[z] EXCEPT !.pc = "listening", !.port = port[t]]
        <4>1. srv' = [srv EXCEPT ![z] = r]
          BY <2>1, <3>1, <1>1, ZenonT(30) DEF Start, ServerRec
        <4>2. port[t] \in Port
          BY <1>1, Zenon DEF IInv, TypeOK
        <4>3. r \in ServerRec /\ r.task = t
          BY <1>1, <4>2, ZenonT(30) DEF ServerRec, ServerPC
        <4>4. Live(z)
          BY <2>1, Zenon DEF Start, Live
        <4> HIDE DEF r
        <4> QED
          BY <1>1, <4>1, <4>3, <4>4 DEF Servers, Live
      <3>2. CASE ~PortFree(port[t])
        <4>1. srv' = [srv EXCEPT ![z].pc = "failed"] /\ "failed" \in ServerPC
          BY <2>1, <3>2, Zenon DEF Start, ServerPC
        <4> QED
          BY <1>1, <4>1, ServerMoves, ZenonT(30) DEF Live
      <3> QED
        BY <3>1, <3>2, Zenon
    <2>2. CASE StartFailed(z)
      <3>1. srv' = [srv EXCEPT ![z].pc = "gone"] /\ "gone" \in ServerPC
        BY <2>2, Zenon DEF StartFailed, ServerPC
      <3> QED
        BY <1>1, <3>1, ServerMoves, ZenonT(30) DEF Live
    <2> QED
      BY <2>1, <2>2, Zenon
  <1>3. /\ runList' \in [Task -> Entry] /\ lost \subseteq lost' /\ lost' \subseteq Servers
        /\ \A y \in Servers : Live(y) /\ runList[srv[y].task] = y =>
              y \in lost' \/ runList'[srv[y].task] = y
    <2>1. CASE Start(z)
      BY <2>1, Zenon DEF Start, IInv, TypeOK
    <2>2. CASE StartFailed(z)
      <3>1. /\ runList' = [runList EXCEPT ![t] = NoEntry] /\ ~Live(z)
            /\ lost' = lost \cup ({runList[t]} \ {NoEntry, NilService, z})
        BY <2>2, Zenon DEF StartFailed, Delete, Live
      <3>2. runList' \in [Task -> Entry] /\ lost' \subseteq Servers
        BY <1>1, <3>1, Zenon DEF IInv, TypeOK, Entry
      <3> QED
        BY <3>1, <3>2, ServerTypes, Zenon DEF IInv, TypeOK
    <2> QED
      BY <2>1, <2>2, Zenon
  <1>4. UNCHANGED <<db, bridge, proc, late>>
    BY Zenon DEF Start, StartFailed
  <1>5. Entry' = Entry
    BY <1>2, Zenon DEF Entry
  <1>6. TypeOK'
    BY <1>2, <1>3, <1>4, <1>5, Zenon DEF IInv, TypeOK, ServerRec, db, bridge
  <1>7. ListeningRegistered'
    BY <1>2, <1>3, Zenon DEF IInv, ListeningRegistered, Live
  <1>8. ClosedFirst'
    BY <1>2, <1>3, <1>4, Zenon DEF IInv, ClosedFirst, Live
  <1> QED
    BY <1>6, <1>7, <1>8, Zenon DEF IInv

LEMMA DelTaskSteps ==
    ASSUME IInv, NEW p \in Procs, raced' \subseteq Task,
           DelLoad(p) \/ DbDel(p) \/ Collect(p) \/ DelNext(p)
    PROVE  IInv'
  <1> USE DEF At
  <1> DEFINE fin == Finish(p)
  <1>1. fin \in SafePC /\ AfterDel(p) \in SafePC /\ fin \notin BusyPC /\ AfterDel(p) \notin BusyPC
    BY Continuations, Zenon DEF SafePC, FreePC, BusyPC
  <1>2. proc \in [Procs -> GoroutineRec(made)] /\ proc[p] \in GoroutineRec(made)
    BY Zenon DEF IInv, TypeOK, GoroutineRec
  <1>3. CASE DelLoad(p)
    <2>1. PICK pc \in SafePC : Goto(p, pc)
      BY <1>3, ZenonT(30) DEF DelLoad, SafePC, BusyPC
    <2>2. proc[p].pc \in BusyPC
      BY <1>3, Zenon DEF DelLoad, BusyPC
    <2> QED
      BY <1>3, <2>1, <2>2, PlainStep, ZenonT(30) DEF DelLoad, IInv, TypeOK, db
  <1>4. CASE DbDel(p)
    <2>1. tasks' \subseteq made
      BY <1>4, Zenon DEF DbDel, IInv, TypeOK
    <2> QED
      BY <1>1, <1>4, <2>1, PlainStep, ZenonT(30) DEF DbDel, IInv, TypeOK
  <1>5. CASE Collect(p)
    <2> DEFINE ids == IF proc[p].op = "purge" THEN tasks ELSE tasks \cap ConfTask
    <2>1. proc' = [proc EXCEPT ![p].pc = "next", ![p].todo = ids]
      BY <1>5, Zenon DEF Collect
    <2>2. ids \in SUBSET made
      BY Zenon DEF IInv, TypeOK
    <2> HIDE DEF ids
    <2>3. /\ proc' \in [Procs -> GoroutineRec(made)]
          /\ proc'[p].pc = "next"
          /\ \A q \in Procs \ {p} : proc'[q] = proc[q]
      BY <1>2, <2>1, <2>2, ZenonT(30) DEF GoroutineRec, FreePC
    <2>4. TypeOK'
      BY <1>5, <2>3
      DEF Collect, IInv, TypeOK, GoroutineRec, db, bridge, Entry, Servers, BusyPC
    <2>5. ListeningRegistered' /\ ClosedFirst'
      BY <1>5, <2>3, NoServerTouched, Zenon DEF Collect, IInv
    <2> QED
      BY <2>4, <2>5, Zenon DEF IInv
  <1>6. CASE DelNext(p)
    <2>1. CASE proc[p].todo = {}
      <3>1. Goto(p, fin) /\ up' \in BOOLEAN /\ client' \in BOOLEAN
        BY <1>6, <2>1, Zenon DEF DelNext, IInv, TypeOK
      <3>2. fin \in BusyPC \cup FreePC
        BY <1>1, Zenon DEF SafePC
      <3> HIDE DEF fin
      <3>3. /\ proc' \in [Procs -> GoroutineRec(made)]
            /\ \A q \in Procs : proc'[q].pc \in BusyPC => proc'[q].task \in made
            /\ proc'[p].pc = fin
            /\ \A q \in Procs \ {p} : proc'[q] = proc[q]
        BY <1>1, <3>1, <3>2, GotoMoves, Zenon DEF IInv
      <3>4. TypeOK'
        BY <1>6, <3>1, <3>3, ZenonT(30) DEF DelNext, IInv, TypeOK, GoroutineRec, Entry, Servers
      <3>5. ListeningRegistered' /\ ClosedFirst'
        BY <1>1, <1>6, <3>3, NoServerTouched, ZenonT(30) DEF DelNext, IInv, BusyPC
      <3> QED
        BY <3>4, <3>5, Zenon DEF IInv
    <2>2. CASE proc[p].todo # {}
      <3>1. PICK t \in proc[p].todo :
               proc' = [proc EXCEPT ![p].pc = "delLoad", ![p].task = t, ![p].todo = @ \ {t}]
        BY <1>6, <2>2, ZenonT(30) DEF DelNext
      <3>2. t \in made /\ proc[p].todo \ {t} \in SUBSET made
        BY <1>2, <3>1, Zenon DEF GoroutineRec
      <3>3. /\ proc' \in [Procs -> GoroutineRec(made)]
            /\ proc'[p].pc = "delLoad" /\ proc'[p].task = t
            /\ \A q \in Procs \ {p} : proc'[q] = proc[q]
        BY <1>2, <3>1, <3>2, Zenon DEF GoroutineRec, BusyPC
      <3>4. UNCHANGED <<up, client>>
        BY <1>6, <2>2, ZenonT(30) DEF DelNext
      <3>5. TypeOK'
        BY <1>6, <3>2, <3>3, <3>4, ZenonT(30) DEF DelNext, IInv, TypeOK, GoroutineRec, Entry, Servers
      <3>6. ListeningRegistered' /\ ClosedFirst'
        BY <1>6, <3>3, NoServerTouched, ZenonT(30) DEF DelNext, IInv
      <3> QED
        BY <3>5, <3>6, Zenon DEF IInv
    <2> QED
      BY <2>1, <2>2, Zenon
  <1> QED
    BY <1>3, <1>4, <1>5, <1>6, Zenon

Begins(w) ==
    \E op \in Op, t \in made' \cup {0}, pc \in SafePC :
       Handle(w, op, t, pc) /\ (pc \in BusyPC => t \in made')

\* A goroutine that starts, at the web interface or for a message of the bridge.
LEMMA Started ==
    ASSUME IInv, NEW w \in Procs, Begins(w),
           made \subseteq made', made' \subseteq Task, tasks' = tasks, client' \in BOOLEAN,
           UNCHANGED <<status, port, up, cnf, ask, runList, srv, lost, late>>,
           openTask' \in Seq(made), closeClient' \in {"none", "sent", "taken", "dropped"},
           raced' \subseteq Task
    PROVE  IInv'
  <1> PICK op \in Op, t \in made' \cup {0}, pc \in SafePC :
              Handle(w, op, t, pc) /\ (pc \in BusyPC => t \in made')
    BY Zenon DEF Begins
  <1>1. pc \in BusyPC \cup FreePC /\ pc \notin {"stopClose", "stopDelete"}
    BY Zenon DEF SafePC, BusyPC, FreePC
  <1>2. /\ proc' \in [Procs -> GoroutineRec(made')]
        /\ \A q \in Procs : proc'[q].pc \in BusyPC => proc'[q].task \in made'
        /\ proc'[w].pc = pc
        /\ \A q \in Procs \ {w} : proc'[q] = proc[q]
    BY <1>1, HandleStarts, ZenonT(30) DEF IInv
  <1>3. TypeOK'
    <2>1. openTask' \in Seq(made')
      OBVIOUS
    <2>2. cnf' \in [pc : {"read", "test", "send", "end"}, todo : Seq(Port), task : made' \cup {0}]
      BY ZenonT(30) DEF IInv, TypeOK
    <2> QED
      BY <1>2, <2>1, <2>2, Zenon DEF IInv, TypeOK, GoroutineRec, Entry, Servers
  <1>4. ListeningRegistered' /\ ClosedFirst'
    BY <1>1, <1>2, NoServerTouched, Zenon DEF IInv
  <1> QED
    BY <1>3, <1>4, Zenon DEF IInv

LEMMA WebSteps ==
    ASSUME IInv, NEW w \in Web, raced' \subseteq Task,
           CreateTunnel(w) \/ TunnelRequest(w) \/ DeleteClient(w) \/ NewTask(w) \/ EditTunnel(w)
    PROVE  IInv'
  <1> USE DEF At
  <1>1. w \in Procs
    BY Zenon DEF Procs
  <1>2. {"newTask", "edit", "startGet", "stopGet", "delLoad", "collect", "add"} \subseteq SafePC
    BY Zenon DEF SafePC, BusyPC, FreePC
  <1>3. openTask \in Seq(made) /\ closeClient \in {"none", "sent", "taken", "dropped"}
    BY Zenon DEF IInv, TypeOK
  <1>4. CASE CreateTunnel(w)
    <2>1. PICK t \in Task : made' = made \cup {t} /\ Handle(w, "create", t, "newTask")
      BY <1>4, Zenon DEF CreateTunnel
    <2>2. UNCHANGED <<status, port, up, cnf, ask, runList, srv, lost, late>>
      BY <1>4, Zenon DEF CreateTunnel, bridge
    <2>3. /\ made' \subseteq Task /\ tasks' = tasks /\ client' \in BOOLEAN
          /\ openTask' = openTask /\ closeClient' = closeClient
      BY <1>4, <2>1, Zenon DEF CreateTunnel, bridge, IInv, TypeOK
    <2>4. Begins(w)
      BY <1>2, <2>1, ZenonT(30) DEF Begins, Op
    <2> QED
      BY <1>1, <1>3, <2>1, <2>2, <2>3, <2>4, Started, Zenon
  <1>5. CASE TunnelRequest(w)
    <2>1. PICK t \in tasks, op \in {"update", "start", "stop", "delete"},
               pc \in {"edit", "startGet", "stopGet", "delLoad"} : Handle(w, op, t, pc)
      BY <1>5, Zenon DEF TunnelRequest
    <2>2. UNCHANGED <<status, port, up, cnf, ask, runList, srv, lost, late>>
      BY <1>5, Zenon DEF TunnelRequest, db, bridge
    <2>3. /\ t \in made' /\ made' = made /\ made \subseteq Task /\ client' \in BOOLEAN
          /\ tasks' = tasks /\ openTask' = openTask /\ closeClient' = closeClient
      BY <1>5, <2>1, Zenon DEF TunnelRequest, IInv, TypeOK, db, bridge
    <2>4. op \in Op /\ pc \in SafePC
      BY <1>2, <2>1, ZenonT(30) DEF Op
    <2>5. Begins(w)
      BY <2>1, <2>3, <2>4, ZenonT(30) DEF Begins, Op
    <2> QED
      BY <1>1, <1>3, <2>2, <2>3, <2>5, Started, Zenon
  <1>6. CASE DeleteClient(w)
    <2>1. Handle(w, "purge", 0, "collect") /\ client' = FALSE
      BY <1>6, Zenon DEF DeleteClient
    <2>2. UNCHANGED <<status, port, up, cnf, ask, runList, srv, lost, late>>
      BY <1>6, Zenon DEF DeleteClient, bridge
    <2>3. /\ made' = made /\ made \subseteq Task /\ tasks' = tasks
          /\ openTask' = openTask /\ closeClient' = closeClient
      BY <1>6, Zenon DEF DeleteClient, IInv, TypeOK, bridge
    <2>4. "collect" \notin BusyPC
      BY Zenon DEF BusyPC
    <2>5. Begins(w)
      BY <1>2, <2>1, <2>4, ZenonT(30) DEF Begins, Op
    <2> QED
      BY <1>1, <1>3, <2>1, <2>2, <2>3, <2>5, Started, ZenonT(30)
  <1>7. CASE NewTask(w)
    <2>1. proc[w].pc \in BusyPC /\ proc[w].task \in made /\ made \subseteq Task
      BY <1>1, <1>7, Zenon DEF NewTask, IInv, TypeOK, BusyPC
    <2>2. tasks' \subseteq made /\ status' \in [Task -> BOOLEAN] /\ late' \subseteq Task
      BY <1>7, <2>1, Zenon DEF NewTask, IInv, TypeOK
    <2> QED
      BY <1>1, <1>2, <1>7, <2>1, <2>2, PlainStep, ZenonT(30) DEF NewTask, IInv, TypeOK
  <1>8. CASE EditTunnel(w)
    <2>1. proc[w].pc \in BusyPC /\ proc[w].task \in made
      BY <1>1, <1>8, Zenon DEF EditTunnel, IInv, TypeOK, BusyPC
    <2>2. tasks' \subseteq made /\ port' \in [Task -> Port]
      BY <1>8, <2>1 DEF EditTunnel, IInv, TypeOK
    <2> QED
      BY <1>1, <1>2, <1>8, <2>1, <2>2, PlainStep, ZenonT(30) DEF EditTunnel, IInv, TypeOK
  <1> QED
    BY <1>4, <1>5, <1>6, <1>7, <1>8, Zenon

LEMMA BridgeSteps ==
    ASSUME IInv, raced' \subseteq Task, Conf \/ Deal \/ NpcGone
    PROVE  IInv'
  <1> DEFINE Cnf(m) == [pc : {"read", "test", "send", "end"}, todo : Seq(Port), task : m \cup {0}]
  <1>1. cnf \in Cnf(made) /\ openTask \in Seq(made) /\ made \subseteq Task
    BY Zenon DEF IInv, TypeOK
  <1>2. CASE Deal
    <2>1. deal \in Procs /\ {"stopGet", "collect"} \subseteq SafePC /\ "collect" \notin BusyPC
      BY Zenon DEF Procs, SafePC, BusyPC, FreePC
    <2>2. CASE DealOpen
      <3>1. Head(openTask) \in made /\ openTask' \in Seq(made)
        BY <1>1, <2>2 DEF DealOpen
      <3>2. Handle(deal, "open", Head(openTask), "stopGet")
        BY <2>2, Zenon DEF DealOpen
      <3>3. UNCHANGED <<status, port, up, cnf, ask, runList, srv, lost, late>>
        BY <2>2, Zenon DEF DealOpen, db
      <3>4. /\ made' = made /\ tasks' = tasks /\ client' \in BOOLEAN
            /\ closeClient' \in {"none", "sent", "taken", "dropped"}
        BY <2>2, Zenon DEF DealOpen, IInv, TypeOK, db
      <3>5. Begins(deal)
        BY <2>1, <3>1, <3>2, <3>4, ZenonT(30) DEF Begins, Op
      <3> QED
        BY <1>1, <2>1, <3>1, <3>3, <3>4, <3>5, Started, Zenon
    <2>3. CASE DealClose
      <3>1. Handle(deal, "sweep", 0, "collect") /\ closeClient' = "taken"
        BY <2>3, Zenon DEF DealClose
      <3>2. UNCHANGED <<status, port, up, cnf, ask, runList, srv, lost, late>>
        BY <2>3, Zenon DEF DealClose, db
      <3>3. made' = made /\ tasks' = tasks /\ client' \in BOOLEAN /\ openTask' = openTask
        BY <2>3, Zenon DEF DealClose, IInv, TypeOK, db
      <3>4. Begins(deal)
        BY <2>1, <3>1, ZenonT(30) DEF Begins, Op
      <3> QED
        BY <1>1, <2>1, <3>1, <3>2, <3>3, <3>4, Started, Zenon
    <2> QED
      BY <1>2, <2>2, <2>3, Zenon DEF Deal
  <1>3. CASE Conf \/ NpcGone
    <2>1. UNCHANGED <<runList, srv, proc, lost, client>>
      BY <1>3, Zenon DEF Conf, ConfHasTunnel, ConfNewTask, ConfTest, ConfSend, NpcGone, db
    <2>2. /\ made \subseteq made' /\ made' \subseteq Task /\ tasks' \subseteq made'
          /\ status' \in [Task -> BOOLEAN] /\ port' \in [Task -> Port] /\ late' \subseteq Task
      <3>1. CASE ConfNewTask
        <4>1. Head(cnf.todo) \in Port
          BY <1>1, <3>1 DEF ConfNewTask
        <4> QED
          BY <3>1, <4>1, TaskManagerAssumption DEF ConfNewTask, IInv, TypeOK
      <3>2. CASE ConfHasTunnel \/ ConfTest \/ ConfSend \/ NpcGone
        BY <3>2, Zenon DEF ConfHasTunnel, ConfTest, ConfSend, NpcGone, db, IInv, TypeOK
      <3> QED
        BY <1>3, <3>1, <3>2, Zenon DEF Conf
    <2>3. up' \in BOOLEAN /\ closeClient' \in {"none", "sent", "taken", "dropped"}
      BY <1>3, ZenonT(30)
      DEF Conf, ConfHasTunnel, ConfNewTask, ConfTest, ConfSend, NpcGone, DelClient, IInv, TypeOK
    <2>4. cnf' \in Cnf(made') /\ (cnf'.pc \in {"test", "send"} => cnf'.task \in made')
      <3>1. CASE ConfHasTunnel
        <4>1. PICK t \in tasks :
                 cnf' = [pc |-> IF t \in ConfTask THEN "send" ELSE "read",
                         todo |-> Tail(cnf.todo), task |-> t]
          BY <3>1, Zenon DEF ConfHasTunnel
        <4>2. t \in made' /\ Tail(cnf.todo) \in Seq(Port)
          BY <1>1, <3>1 DEF ConfHasTunnel, IInv, TypeOK, db
        <4> QED
          BY <4>1, <4>2, Zenon
      <3>2. CASE ConfNewTask
        <4>1. PICK t \in ConfTask \ made : /\ made' = made \cup {t}
                 /\ cnf' = [pc |-> "test", todo |-> Tail(cnf.todo), task |-> t]
          BY <3>2, ZenonT(30) DEF ConfNewTask
        <4>2. Tail(cnf.todo) \in Seq(Port)
          BY <1>1, <3>2 DEF ConfNewTask
        <4> QED
          BY <4>1, <4>2, Zenon
      <3>3. CASE ConfTest \/ ConfSend
        <4>1. cnf.task \in made /\ made' = made
          BY <3>3, Zenon DEF ConfTest, ConfSend, IInv, TypeOK, db
        <4>2. PICK pc \in {"read", "send", "end"} : cnf' = [cnf EXCEPT !.pc = pc]
          BY <3>3, Zenon DEF ConfTest, ConfSend
        <4> QED
          BY <1>1, <4>1, <4>2, Zenon
      <3>4. CASE NpcGone
        BY <3>4, Zenon DEF NpcGone, IInv, TypeOK, db
      <3> QED
        BY <1>3, <3>1, <3>2, <3>3, <3>4, Zenon DEF Conf
    <2>5. openTask' \in Seq(made')
      <3>1. CASE ConfSend
        <4>1. cnf.task \in made /\ made' = made /\ openTask' = Append(openTask, cnf.task)
          BY <3>1, Zenon DEF ConfSend, IInv, TypeOK, db
        <4> QED
          BY <1>1, <4>1
      <3>2. CASE openTask' = openTask
        BY <1>1, <2>2, <3>2
      <3> QED
        BY <1>3, <3>1, <3>2, Zenon DEF Conf, ConfHasTunnel, ConfNewTask, ConfTest, NpcGone
    <2>6. /\ proc' \in [Procs -> GoroutineRec(made')]
          /\ \A q \in Procs : proc'[q].pc \in BusyPC => proc'[q].task \in made'
      <3>1. proc \in [Procs -> GoroutineRec(made)]
        BY Zenon DEF IInv, TypeOK, GoroutineRec
      <3>2. GoroutineRec(made) \subseteq GoroutineRec(made')
        BY <2>2, Zenon DEF GoroutineRec
      <3> QED
        BY <2>1, <2>2, <3>1, <3>2, Zenon DEF IInv, TypeOK
    <2>7. TypeOK'
      BY <2>1, <2>2, <2>3, <2>4, <2>5, <2>6, ZenonT(30) DEF IInv, TypeOK, GoroutineRec, Entry, Servers
    <2>8. ListeningRegistered' /\ ClosedFirst'
      BY <2>1, NoServerTouched, Zenon DEF IInv
    <2> QED
      BY <2>7, <2>8, Zenon DEF IInv
  <1> QED
    BY <1>2, <1>3, Zenon

LEMMA InitInv == Init => IInv
  <1> SUFFICES ASSUME Init PROVE IInv
    BY Zenon
  <1>1. PICK s \in Setups :
          /\ client = TRUE /\ up = TRUE
          /\ made = {s.running[i] : i \in DOMAIN s.running} \cup s.stopped
          /\ tasks = made
          /\ status = [t \in Task |-> t \in made \ s.stopped]
          /\ port = s.port
          /\ srv = [i \in DOMAIN s.running |->
                      [task |-> s.running[i], pc |-> "listening", port |-> s.port[s.running[i]]]]
          /\ runList = [t \in Task |-> IF \E i \in DOMAIN s.running : s.running[i] = t
                                       THEN CHOOSE i \in DOMAIN s.running : s.running[i] = t
                                       ELSE NoEntry]
          /\ proc = [p \in Procs |-> Goroutine("idle", "", 0)]
          /\ cnf = [pc |-> "read", todo |-> s.conf, task |-> 0]
          /\ openTask = <<>> /\ closeClient = "none"
          /\ lost = {} /\ late = {} /\ raced = {}
    BY ZenonT(30) DEF Init
  <1> DEFINE run == s.running
  <1>2. /\ run \in Seq(Task) /\ s.stopped \subseteq Task
        /\ \A i, j \in DOMAIN run : run[i] = run[j] => i = j
        /\ s.port \in [Task -> Port] /\ s.conf \in Seq(Port)
    BY TaskManagerAssumption, Zenon
  <1>3. DOMAIN run = 1..Len(run) /\ Len(run) \in Nat /\ \A i \in DOMAIN run : run[i] \in Task
    BY <1>2
  <1>4. srv = [i \in DOMAIN run |->
                 [task |-> run[i], pc |-> "listening", port |-> s.port[run[i]]]]
    BY <1>1, ZenonT(30)
  <1> HIDE DEF run
  <1>5. \A i \in DOMAIN run :
           [task |-> run[i], pc |-> "listening", port |-> s.port[run[i]]] \in ServerRec
    BY <1>2, <1>3, ZenonT(30) DEF ServerRec, ServerPC
  <1>6. srv \in [1..Len(run) -> ServerRec] /\ Servers = DOMAIN run
    BY <1>3, <1>4, <1>5, Zenon DEF Servers
  <1>7. srv \in Seq(ServerRec)
    BY <1>3, <1>6
  <1>8. \A t \in Task :
           \/ runList[t] \in Servers /\ run[runList[t]] = t
           \/ runList[t] = NoEntry /\ \A i \in DOMAIN run : run[i] # t
    BY <1>1, <1>6, ZenonT(30) DEF run
  <1>9. runList \in [Task -> Entry]
    BY <1>1, <1>8, ZenonT(30) DEF Entry
  <1>10. made \subseteq Task
    BY <1>1, <1>2, <1>3, ZenonT(30) DEF run
  <1>11. /\ proc \in [Procs -> GoroutineRec(made)]
         /\ \A p \in Procs : proc[p].pc = "idle"
    <2>1. NoEntry \in Entry
      BY Zenon DEF Entry
    <2>2. Goroutine("idle", "", 0) \in GoroutineRec(made)
      BY <2>1, Zenon DEF Goroutine, GoroutineRec, FreePC, Op
    <2>3. Goroutine("idle", "", 0).pc = "idle"
      BY Zenon DEF Goroutine
    <2> QED
      BY <1>1, <2>2, <2>3, ZenonT(30)
  <1>12. TypeOK
    <2>1. status \in [Task -> BOOLEAN] /\ port \in [Task -> Port]
      <3>1. status = [t \in Task |-> t \in made \ s.stopped]
        BY <1>1, ZenonT(30)
      <3>2. \A t \in Task : (t \in made \ s.stopped) \in BOOLEAN
        OBVIOUS
      <3>3. status \in [Task -> BOOLEAN]
        BY <3>1, <3>2, Zenon
      <3> QED
        BY <1>1, <1>2, <3>3, ZenonT(30)
    <2>2. /\ cnf \in [pc : {"read", "test", "send", "end"}, todo : Seq(Port), task : made \cup {0}]
          /\ cnf.pc \notin {"test", "send"}
      BY <1>1, <1>2, ZenonT(30)
    <2>3. openTask \in Seq(made)
      <3>1. openTask = <<>>
        BY <1>1, ZenonT(30)
      <3> QED
        BY <3>1
    <2>4. \A p \in Procs : proc[p].pc \in BusyPC => proc[p].task \in made
      BY <1>11, Zenon DEF BusyPC
    <2>5. /\ client \in BOOLEAN /\ up \in BOOLEAN /\ tasks \subseteq made
          /\ closeClient \in {"none", "sent", "taken", "dropped"}
          /\ lost \subseteq Servers /\ late \subseteq Task /\ raced \subseteq Task
      BY <1>1, ZenonT(30)
    <2> QED
      BY <1>7, <1>9, <1>10, <1>11, <2>1, <2>2, <2>3, <2>4, <2>5, Zenon
      DEF TypeOK, GoroutineRec, ServerRec
  <1>13. ListeningRegistered
    <2> SUFFICES ASSUME NEW z \in Servers PROVE runList[srv[z].task] = z
      BY Zenon DEF ListeningRegistered
    <2>1. z \in DOMAIN run /\ srv[z].task = run[z] /\ run[z] \in Task
      BY <1>3, <1>4, <1>6, Zenon
    <2>2. runList[run[z]] \in DOMAIN run /\ run[runList[run[z]]] = run[z]
      BY <1>6, <1>8, <2>1, Zenon
    <2> QED
      BY <1>2, <2>1, <2>2, Zenon DEF run
  <1>14. ClosedFirst
    BY <1>11, Zenon DEF ClosedFirst
  <1> QED
    BY <1>12, <1>13, <1>14, Zenon DEF IInv

LEMMA NextInv == IInv /\ [Next]_vars => IInv'
  <1> SUFFICES ASSUME IInv, [Next]_vars PROVE IInv'
    BY Zenon
  <1>1. CASE Next
    <2>1. raced' \subseteq Task /\ Action
      BY <1>1, Zenon DEF Next, Race, IInv, TypeOK
    <2>2. ASSUME NEW p \in Procs, Step(p) PROVE IInv'
      <3>1. CASE StopGet(p) \/ StopUpdate(p) \/ StopLoad(p) \/ StopClose(p) \/ StopDelete(p)
        BY <2>1, <3>1, StopServerSteps, Zenon
      <3>2. CASE StartGet(p) \/ Add(p) \/ StartUpdate(p)
        BY <2>1, <3>2, StartTaskSteps, Zenon
      <3>3. CASE DelLoad(p) \/ DbDel(p) \/ Collect(p) \/ DelNext(p)
        BY <2>1, <3>3, DelTaskSteps, Zenon
      <3>4. CASE p \in Web /\ (NewTask(p) \/ EditTunnel(p))
        BY <2>1, <3>4, WebSteps, Zenon
      <3> QED
        BY <2>2, <3>1, <3>2, <3>3, <3>4, Zenon DEF Step
    <2>3. ASSUME NEW w \in Web, Request(w) PROVE IInv'
      BY <2>1, <2>3, WebSteps, Zenon DEF Request
    <2>4. ASSUME NEW z \in Servers, Start(z) \/ StartFailed(z) PROVE IInv'
      BY <2>1, <2>4, ServerSteps, Zenon
    <2>5. CASE Conf \/ Deal \/ NpcGone
      BY <2>1, <2>5, BridgeSteps, Zenon
    <2> QED
      BY <2>1, <2>2, <2>3, <2>4, <2>5, Zenon DEF Action
  <1>2. CASE UNCHANGED vars
    <2>1. UNCHANGED <<client, made, tasks, status, port, up, cnf, openTask, closeClient,
                      runList, srv, proc, lost, late, raced>>
      BY <1>2, Zenon DEF vars, db, bridge
    <2>2. TypeOK'
      BY <2>1, ZenonT(30) DEF IInv, TypeOK, Entry, Servers
    <2>3. ListeningRegistered' /\ ClosedFirst'
      BY <2>1, NoServerTouched, Zenon DEF IInv
    <2> QED
      BY <2>2, <2>3, Zenon DEF IInv
  <1> QED
    BY <1>1, <1>2, Zenon

\* Whatever requests, messages and failures come, the state of the task manager is well
\* formed: no goroutine, channel or entry of RunList names a task or a server that was
\* never made.
THEOREM TypeCorrect == Spec => []TypeOK
  <1>1. IInv => TypeOK
    BY Zenon DEF IInv
  <1> QED
    BY <1>1, InitInv, NextInv, PTL DEF Spec

\* RunList has every server that listens or is about to, for any number of tasks and
\* requests, but for the servers of the three races that lost records.
THEOREM RegisteredUnlessLost == Spec => []ListeningRegistered
  <1>1. IInv => ListeningRegistered
    BY Zenon DEF IInv
  <1> QED
    BY <1>1, InitInv, NextInv, PTL DEF Spec

-----------------------------------------------------------------------------
(* Stored, registered and served (QuietAgrees)                             *)

\* RunList has something for the task; the task is stored with Status true; its
\* servers, and whether one of them could not listen.
HasEntry(t) == runList[t] # NoEntry
Stored(t) == t \in tasks /\ status[t]
Of(t) == {s \in Servers : srv[s].task = t}
Gone(t) == \E s \in Of(t) : srv[s].pc = "gone"

\* npc has brought the task and DealBridgeTask has not got to it, or never will.
Pending(t) ==
    \/ cnf.pc \in {"test", "send", "end"} /\ cnf.task = t
    \/ \E i \in DOMAIN openTask : openTask[i] = t

\* Why a stored task may have no server that listens.
Excused(t) == HasEntry(t) \/ Gone(t) \/ Pending(t)

\* An entry is a server of the task, and every server that is, or may come, up is the
\* entry.
EntryOK(t) ==
    /\ t \in SecretTask => runList[t] \in {NoEntry, NilService} /\ Of(t) = {}
    /\ t \notin SecretTask =>
          /\ HasEntry(t) => runList[t] \in Of(t)
          /\ \A s \in Of(t) : srv[s].pc \in {"new", "listening", "failed"} => runList[t] = s

\* The server in RunList has not been closed.
LiveEntry(t) ==
    t \notin SecretTask /\ HasEntry(t) => srv[runList[t]].pc \in {"new", "listening", "failed"}

\* A server listens at the port of its task.
RightPort(t) == \A s \in Of(t) : srv[s].pc = "listening" => srv[s].port = port[t]

\* A task that nobody works on.
RestOK(t) ==
    /\ LiveEntry(t) /\ RightPort(t)
    /\ HasEntry(t) => Stored(t)
    /\ Stored(t) => Excused(t)

\* A task that goroutine r works on, by where r is.
WorkOK(t, r) ==
    /\ r.pc # "stopDelete" => LiveEntry(t)
    /\ RightPort(t) \/ (r.op = "update" /\ r.pc \in {"stopGet", "stopUpdate", "stopLoad", "stopClose"})
    /\ r.pc \in {"delLoad", "startGet", "edit"} => RestOK(t)
    /\ r.pc = "stopGet" => /\ HasEntry(t) => Stored(t)
                           /\ Stored(t) => Excused(t) \/ r.op = "open"
    /\ r.pc \in {"edit", "stopUpdate", "stopLoad", "add", "startUpdate"} => t \in tasks
    /\ r.pc = "newTask" => t \notin tasks /\ ~HasEntry(t) /\ t \notin ConfTask
    /\ r.pc \in {"stopLoad", "stopClose", "stopDelete"} => ~status[t]
    /\ r.pc \in {"stopClose", "stopDelete"} => HasEntry(t) /\ r.svr = runList[t]
    /\ r.pc = "stopDelete" /\ t \notin SecretTask => srv[r.svr].pc = "closed"
    /\ r.pc = "edit" => r.op = "update"
    /\ r.pc = "newTask" => r.op = "create"
    /\ r.pc = "startGet" => r.op # "create"
    /\ r.pc = "dbDel" => ~HasEntry(t)
    /\ r.pc = "add" => /\ HasEntry(t) => t \in SecretTask /\ Stored(t)
                       /\ r.op = "create" => Stored(t)
                       /\ r.op # "create" => (Stored(t) => Excused(t))
    /\ r.pc = "startUpdate" => HasEntry(t) \/ Gone(t)
    /\ r.op \in {"delete", "sweep", "purge"} /\ r.pc \in {"stopGet", "stopUpdate", "stopLoad"} =>
          HasEntry(t)

\* A task that only one goroutine works on at a time: between its operations the
\* database and RunList agree, and during one it is known how far they differ.
TaskOK(t) ==
    /\ ~Overlap(t) /\ EntryOK(t)
    /\ Working(t) = {} => RestOK(t)
    /\ \A p \in Working(t) : WorkOK(t, proc[p])

\* The invariant behind SettledAgrees.
SettledInv ==
    /\ \A t \in Task \ raced : TaskOK(t)
    /\ \A p \in Procs : proc[p].pc = "collect" => proc[p].task = 0

------------------------------------------------------------------------------
(* A step and one task *)

\* Nothing of the task changes, nor does anybody who works on it.
SameTask(t) ==
    /\ runList'[t] = runList[t] /\ status'[t] = status[t] /\ port'[t] = port[t]
    /\ t \in tasks' <=> t \in tasks
    /\ Of(t)' = Of(t) /\ \A s \in Of(t) : srv'[s] = srv[s]
    /\ Pending(t) => Pending(t)'

SameWorkers(t) ==
    /\ Working(t)' = Working(t)
    /\ \A p \in Working(t) : proc'[p] = proc[p]

\* What holds of a task that no step touches still holds.
LEMMA TaskFrame ==
    ASSUME NEW t, SameTask(t), EntryOK(t)
    PROVE  /\ EntryOK(t)'
           /\ HasEntry(t)' <=> HasEntry(t)
           /\ Stored(t)' <=> Stored(t)
           /\ Gone(t)' <=> Gone(t)
           /\ Excused(t) => Excused(t)'
           /\ LiveEntry(t)' <=> LiveEntry(t)
           /\ RightPort(t)' <=> RightPort(t)
           /\ RestOK(t) => RestOK(t)'
  <1>1. HasEntry(t)' <=> HasEntry(t)
    BY Zenon DEF SameTask, HasEntry, NoEntry
  <1>2. Stored(t)' <=> Stored(t)
    BY Zenon DEF SameTask, Stored
  <1>3. EntryOK(t)'
    BY <1>1, Zenon DEF SameTask, EntryOK, NoEntry, NilService
  <1>4. Gone(t)' <=> Gone(t)
    BY Zenon DEF SameTask, Gone
  <1>5. Excused(t) => Excused(t)'
    BY <1>1, <1>4, Zenon DEF SameTask, Excused
  <1>6. LiveEntry(t)' <=> LiveEntry(t)
    BY <1>1, Zenon DEF SameTask, LiveEntry, EntryOK
  <1>7. RightPort(t)' <=> RightPort(t)
    BY Zenon DEF SameTask, RightPort
  <1>8. RestOK(t) => RestOK(t)'
    BY <1>1, <1>2, <1>5, <1>6, <1>7, Zenon DEF RestOK
  <1> QED
    BY <1>1, <1>2, <1>3, <1>4, <1>5, <1>6, <1>7, <1>8, Zenon

\* What is known of a worker stays true while nothing of its task changes.
LEMMA WorkerFrame ==
    ASSUME NEW t, SameTask(t), EntryOK(t), NEW p, proc'[p] = proc[p], WorkOK(t, proc[p])
    PROVE  WorkOK(t, proc[p])'
  <1>1. /\ HasEntry(t)' <=> HasEntry(t)
        /\ Stored(t)' <=> Stored(t)
        /\ Gone(t)' <=> Gone(t)
        /\ Excused(t) => Excused(t)'
        /\ LiveEntry(t)' <=> LiveEntry(t)
        /\ RightPort(t)' <=> RightPort(t)
        /\ RestOK(t) => RestOK(t)'
    BY TaskFrame, Zenon
  <1>2. /\ runList'[t] = runList[t] /\ status'[t] = status[t] /\ (t \in tasks' <=> t \in tasks)
        /\ \A s \in Of(t) : srv'[s] = srv[s]
    BY Zenon DEF SameTask
  <1>3. t \notin SecretTask /\ HasEntry(t) => runList[t] \in Of(t)
    BY Zenon DEF EntryOK
  <1> QED
    BY <1>1, <1>2, <1>3 DEF WorkOK

\* A step that concerns one task at most.
LEMMA OneTask ==
    ASSUME SettledInv, Race, NEW t,
           \A u \in Task \ {t} : SameTask(u) /\ SameWorkers(u),
           t \in Task \ raced /\ ~Overlap(t)' /\ TaskOK(t) =>
              /\ EntryOK(t)'
              /\ Working(t)' = {} => RestOK(t)'
              /\ \A p \in Working(t)' : WorkOK(t, proc[p])',
           \A p \in Procs : proc'[p].pc = "collect" => proc'[p].task = 0
    PROVE  SettledInv'
  <1> SUFFICES ASSUME NEW u \in Task, u \notin raced'
               PROVE  TaskOK(u)'
    BY Zenon DEF SettledInv
  <1>1. u \notin raced /\ ~Overlap(u)'
    BY Zenon DEF Race
  <1>2. TaskOK(u)
    BY <1>1, Zenon DEF SettledInv
  <1>3. CASE u = t
    BY <1>1, <1>2, <1>3, Zenon DEF TaskOK
  <1>4. CASE u # t
    <2>1. SameTask(u) /\ SameWorkers(u) /\ EntryOK(u)
      BY <1>2, <1>4, Zenon DEF TaskOK
    <2>2. EntryOK(u)' /\ (RestOK(u) => RestOK(u)')
      BY <2>1, TaskFrame, Zenon
    <2>3. ASSUME NEW p \in Working(u)
          PROVE  WorkOK(u, proc[p])'
      <3>1. proc'[p] = proc[p] /\ WorkOK(u, proc[p])
        BY <1>2, <2>1, Zenon DEF SameWorkers, TaskOK
      <3> QED
        BY <2>1, <3>1, WorkerFrame, Zenon
    <2>4. Working(u)' = Working(u)
      BY <2>1, Zenon DEF SameWorkers
    <2> QED
      BY <1>1, <1>2, <2>2, <2>3, <2>4, Zenon DEF TaskOK
  <1> QED
    BY <1>3, <1>4, Zenon

\* What a goroutine at work finds, and what it has to leave behind.
Before(p, t) ==
    /\ EntryOK(t) /\ WorkOK(t, proc[p])
    /\ proc[p].pc # "startUpdate" => Starting(t) = {}

\* What is to be shown for the task of the goroutine that moves.
After(p, t) ==
    /\ EntryOK(t)'
    /\ proc'[p].pc \in BusyPC => WorkOK(t, proc[p])'
    /\ proc'[p].pc \notin BusyPC => RestOK(t)'

\* A goroutine goes on with its task, or leaves it.
LEMMA Moved ==
    ASSUME TypeOK, TypeOK', SettledInv, Race, NEW p \in Procs, NEW t \in Task,
           proc[p].pc \in BusyPC, proc[p].task = t,
           \A q \in Procs \ {p} : proc'[q] = proc[q],
           proc'[p].pc \in BusyPC => proc'[p].task = t, proc'[p].pc # "collect",
           \A u \in Task \ {t} : SameTask(u),
           Before(p, t) => After(p, t)
    PROVE  SettledInv'
  <1>1. proc[p].pc \notin {"idle", "done", "next", "collect"}
    BY Zenon DEF BusyPC
  <1>2. proc'[p].pc \in BusyPC <=> proc'[p].pc \notin {"idle", "done", "next"}
    BY Zenon DEF TypeOK, BusyPC, FreePC
  <1>3. ASSUME NEW u \in Task \ {t}
        PROVE  SameTask(u) /\ SameWorkers(u)
    <2>1. p \notin Working(u) /\ p \notin Working(u)'
      BY <1>2, Zenon DEF Working
    <2> QED
      BY <2>1, Zenon DEF Working, SameWorkers
  <1>4. ASSUME t \in Task \ raced, ~Overlap(t)', TaskOK(t)
        PROVE  /\ EntryOK(t)'
               /\ Working(t)' = {} => RestOK(t)'
               /\ \A q \in Working(t)' : WorkOK(t, proc[q])'
    <2>1. p \in Working(t)
      BY <1>1, Zenon DEF Working
    <2>2. Working(t) = {p} /\ (proc[p].pc # "startUpdate" => Starting(t) = {})
      BY <1>4, <2>1, Zenon DEF TaskOK, Overlap
    <2>3. After(p, t)
      BY <1>4, <2>1, <2>2, Zenon DEF TaskOK, Before
    <2>4. \A q \in Working(t)' : q = p
      BY <2>2, Zenon DEF Working
    <2>5. p \in Working(t)' <=> proc'[p].pc \in BusyPC
      BY <1>2, Zenon DEF Working
    <2> QED
      BY <2>3, <2>4, <2>5, Zenon DEF After
  <1>5. \A q \in Procs : proc'[q].pc = "collect" => proc'[q].task = 0
    BY Zenon DEF SettledInv
  <1> QED
    BY <1>3, <1>4, <1>5, OneTask, Zenon

\* A goroutine begins to work on a task.
LEMMA Entered ==
    ASSUME TypeOK, TypeOK', SettledInv, Race, NEW p \in Procs, NEW t \in Task,
           proc[p].pc \in {"idle", "done", "next"}, proc'[p].pc \in BusyPC, proc'[p].task = t,
           \A q \in Procs \ {p} : proc'[q] = proc[q],
           \A u \in Task \ {t} : SameTask(u),
           EntryOK(t) /\ RestOK(t) => EntryOK(t)' /\ WorkOK(t, proc[p])'
    PROVE  SettledInv'
  <1>1. proc'[p].pc \notin {"idle", "done", "next", "collect"}
    BY Zenon DEF BusyPC
  <1>2. ASSUME NEW u \in Task \ {t}
        PROVE  SameTask(u) /\ SameWorkers(u)
    <2>1. p \notin Working(u) /\ p \notin Working(u)'
      BY Zenon DEF Working
    <2> QED
      BY <2>1, Zenon DEF Working, SameWorkers
  <1>3. ASSUME t \in Task \ raced, ~Overlap(t)', TaskOK(t)
        PROVE  /\ EntryOK(t)'
               /\ Working(t)' = {} => RestOK(t)'
               /\ \A q \in Working(t)' : WorkOK(t, proc[q])'
    <2>1. p \in Working(t)' /\ p \notin Working(t)
      BY <1>1, Zenon DEF Working
    <2>2. Working(t)' = {p}
      BY <1>3, <2>1, Zenon DEF Overlap
    <2>3. Working(t) = {}
      BY <2>1, <2>2, Zenon DEF Working
    <2> QED
      BY <1>3, <2>2, <2>3, Zenon DEF TaskOK
  <1>4. \A q \in Procs : proc'[q].pc = "collect" => proc'[q].task = 0
    BY <1>1, Zenon DEF SettledInv
  <1> QED
    BY <1>2, <1>3, <1>4, OneTask, Zenon

\* A goroutine goes on without a task, or none goes on.
LEMMA Unconcerned ==
    ASSUME TypeOK, TypeOK', SettledInv, Race, NEW p \in Procs,
           proc[p].pc \in FreePC, proc'[p].pc \in FreePC,
           proc'[p].pc = "collect" => proc'[p].task = 0,
           \A q \in Procs \ {p} : proc'[q] = proc[q],
           \A u \in Task : SameTask(u)
    PROVE  SettledInv'
  <1>1. 0 \notin Task
    BY TaskManagerAssumption, Zenon
  <1>2. ASSUME NEW u \in Task \ {0}
        PROVE  SameTask(u) /\ SameWorkers(u)
    <2>1. p \notin Working(u)
      BY Zenon DEF Working, FreePC, SettledInv
    <2>2. p \notin Working(u)'
      BY Zenon DEF Working, FreePC
    <2> QED
      BY <2>1, <2>2, Zenon DEF Working, SameWorkers
  <1>3. \A q \in Procs : proc'[q].pc = "collect" => proc'[q].task = 0
    BY Zenon DEF SettledInv
  <1> QED
    BY <1>1, <1>2, <1>3, OneTask, Zenon

\* Goto keeps what the request is, and the rest of the goroutine unless it ends.
LEMMA GotoKeeps ==
    ASSUME TypeOK, NEW p \in Procs, NEW pc \in BusyPC \cup FreePC, Goto(p, pc)
    PROVE  /\ proc'[p].pc = pc /\ proc'[p].op = proc[p].op
           /\ pc # Finish(p) => /\ proc'[p].task = proc[p].task /\ proc'[p].svr = proc[p].svr
                                /\ proc'[p].todo = proc[p].todo
           /\ pc \in BusyPC => /\ proc'[p].task = proc[p].task /\ proc'[p].svr = proc[p].svr
                               /\ proc'[p].todo = proc[p].todo
           /\ pc = Finish(p) => proc'[p].todo = {}
           /\ \A q \in Procs \ {p} : proc'[q] = proc[q]
  <1>1. Finish(p) \notin BusyPC
    BY Zenon DEF Finish, BusyPC
  <1>2. proc \in [Procs -> GoroutineRec(made)] /\ proc[p] \in GoroutineRec(made)
    BY Zenon DEF TypeOK, GoroutineRec
  <1>3. CASE pc = Finish(p)
    <2> DEFINE r == Goroutine(pc, proc[p].op, 0)
    <2>1. r.pc = pc /\ r.op = proc[p].op /\ r.todo = {}
      BY Zenon DEF Goroutine
    <2>2. proc' = [proc EXCEPT ![p] = r]
      BY <1>3, Zenon DEF Goto
    <2> HIDE DEF r
    <2> QED
      BY <1>1, <1>2, <1>3, <2>1, <2>2, Zenon
  <1>4. CASE pc # Finish(p)
    <2> DEFINE r == [proc[p] EXCEPT !.pc = pc]
    <2>1. /\ r.pc = pc /\ r.op = proc[p].op /\ r.svr = proc[p].svr /\ r.task = proc[p].task
          /\ r.todo = proc[p].todo
      BY <1>2, Zenon DEF GoroutineRec
    <2>2. proc' = [proc EXCEPT ![p] = r]
      BY <1>4, Zenon DEF Goto
    <2> HIDE DEF r
    <2> QED
      BY <1>2, <1>4, <2>1, <2>2, Zenon
  <1> QED
    BY <1>3, <1>4, Zenon

\* Steps that leave the servers alone.
LEMMA SameIfKept ==
    ASSUME UNCHANGED <<srv, cnf, openTask>>, NEW u,
           runList'[u] = runList[u], status'[u] = status[u], port'[u] = port[u],
           u \in tasks' <=> u \in tasks
    PROVE  SameTask(u)
  BY Zenon DEF SameTask, Of, Servers, Pending

\* Steps that touch neither RunList nor a server.
LEMMA ServersKept ==
    ASSUME TypeOK, UNCHANGED <<srv, runList, cnf, openTask>>, NEW t
    PROVE  /\ EntryOK(t)' <=> EntryOK(t)
           /\ HasEntry(t)' <=> HasEntry(t)
           /\ Gone(t)' <=> Gone(t)
           /\ Excused(t)' <=> Excused(t)
           /\ LiveEntry(t)' <=> LiveEntry(t)
           /\ port'[t] = port[t] => (RightPort(t)' <=> RightPort(t))
           /\ ~HasEntry(t) /\ EntryOK(t) => RightPort(t)'
  <1>1. HasEntry(t)' <=> HasEntry(t)
    BY Zenon DEF HasEntry, NoEntry
  <1>2. Of(t)' = Of(t)
    BY Zenon DEF Of, Servers
  <1>3. EntryOK(t)' <=> EntryOK(t)
    BY <1>1, <1>2, Zenon DEF EntryOK, NoEntry, NilService
  <1>4. Gone(t)' <=> Gone(t)
    BY <1>2, Zenon DEF Gone
  <1>5. Pending(t)' <=> Pending(t)
    BY Zenon DEF Pending
  <1>6. Excused(t)' <=> Excused(t)
    BY <1>1, <1>4, <1>5, Zenon DEF Excused
  <1>7. LiveEntry(t)' <=> LiveEntry(t)
    BY <1>1, Zenon DEF LiveEntry
  <1>8. port'[t] = port[t] => (RightPort(t)' <=> RightPort(t))
    BY <1>2, Zenon DEF RightPort
  <1>9. ~HasEntry(t) /\ EntryOK(t) => RightPort(t)'
    <2> SUFFICES ASSUME ~HasEntry(t), EntryOK(t), NEW s \in Of(t), srv[s].pc = "listening"
                 PROVE  FALSE
      BY <1>2, Zenon DEF RightPort
    <2>1. runList[t] = s /\ t \notin SecretTask
      BY Zenon DEF EntryOK
    <2> QED
      BY <2>1, ServerTypes, Zenon DEF HasEntry, Of
  <1> QED
    BY <1>1, <1>3, <1>4, <1>6, <1>7, <1>8, <1>9, Zenon

\* Before a server is started the entry of a task, if there is one, listens.
LEMMA EntryListens ==
    ASSUME NEW p, NEW t, Before(p, t), proc[p].pc \notin {"startUpdate", "stopDelete"},
           HasEntry(t), t \notin SecretTask
    PROVE  runList[t] \in Of(t) /\ srv[runList[t]].pc = "listening"
  <1>1. runList[t] \in Of(t) /\ srv[runList[t]].pc \in {"new", "listening", "failed"}
    BY Zenon DEF Before, EntryOK, WorkOK, LiveEntry
  <1>2. runList[t] \notin Starting(t)
    BY Zenon DEF Before
  <1> QED
    BY <1>1, <1>2, Zenon DEF Starting, Of

StopSteps(p) == StopGet(p) \/ StopUpdate(p) \/ StopLoad(p)

\* StopServer, step by step.
LEMMA StopServerSettles ==
    ASSUME TypeOK, TypeOK', SettledInv, Race, NEW p \in Procs, StopSteps(p)
    PROVE  SettledInv'
  <1> USE DEF At
  <1>1. PICK t \in Task : proc[p].task = t /\ proc[p].pc \in BusyPC
    BY ZenonT(30) DEF StopSteps, StopGet, StopUpdate, StopLoad, BusyPC, TypeOK
  <1>2. UNCHANGED <<srv, runList, cnf, openTask, port>>
    BY ZenonT(30) DEF StopSteps, StopGet, StopUpdate, StopLoad, bridge, db
  <1>3. \A u \in Task \ {t} : SameTask(u)
    BY <1>1, <1>2, SameIfKept, ZenonT(30) DEF StopSteps, StopGet, StopUpdate, StopLoad, db, TypeOK
  <1>4. /\ EntryOK(t)' <=> EntryOK(t)
        /\ HasEntry(t)' <=> HasEntry(t)
        /\ Excused(t)' <=> Excused(t)
        /\ LiveEntry(t)' <=> LiveEntry(t)
        /\ RightPort(t)' <=> RightPort(t)
        /\ ~HasEntry(t) /\ EntryOK(t) => RightPort(t)'
    BY <1>1, <1>2, ServersKept, Zenon
  <1>5. AfterStop(p, FALSE) \in BusyPC \cup FreePC /\ AfterStop(p, FALSE) # "collect"
    BY Continuations, ZenonT(30) DEF BusyPC, FreePC
  <1>6. /\ AfterStop(p, FALSE) \in BusyPC =>
              /\ AfterStop(p, FALSE) = "startGet" /\ proc[p].op \in {"update", "open"}
    BY Zenon DEF AfterStop, Finish, BusyPC
  <1>7. CASE StopGet(p)
    <2> DEFINE pc == IF t \in tasks THEN "stopUpdate" ELSE AfterStop(p, FALSE)
    <2>1. Goto(p, pc) /\ pc \in BusyPC \cup FreePC /\ pc # "collect"
      BY <1>1, <1>5, <1>7, ZenonT(30) DEF StopGet, BusyPC
    <2>2. pc \in BusyPC =>
             \/ pc = "stopUpdate" /\ t \in tasks
             \/ pc = "startGet" /\ t \notin tasks /\ proc[p].op \in {"update", "open"}
      BY <1>6, ZenonT(30)
    <2>3. pc \notin BusyPC => t \notin tasks
      BY ZenonT(30) DEF BusyPC
    <2> HIDE DEF pc
    <2>4. /\ proc'[p].pc = pc /\ proc'[p].op = proc[p].op
          /\ pc \in BusyPC => proc'[p].task = t
          /\ \A q \in Procs \ {p} : proc'[q] = proc[q]
      BY <1>1, <2>1, GotoKeeps, Zenon
    <2>5. UNCHANGED <<tasks, status>>
      BY <1>7, Zenon DEF StopGet, db
    <2>6. ASSUME Before(p, t) PROVE After(p, t)
      <3>1. /\ EntryOK(t) /\ LiveEntry(t)
            /\ HasEntry(t) => Stored(t)
            /\ RightPort(t) \/ proc[p].op = "update"
            /\ proc[p].op \in {"delete", "sweep", "purge"} => HasEntry(t)
        BY <1>7, <2>6, Zenon DEF Before, WorkOK, StopGet
      <3>2. t \notin tasks => ~HasEntry(t) /\ ~Stored(t)
        BY <3>1, Zenon DEF Stored
      <3>3. t \notin tasks => RestOK(t)'
        BY <1>4, <2>5, <3>1, <3>2, Zenon DEF RestOK, Stored
      <3>4. pc \in BusyPC => WorkOK(t, proc[p])'
        <4>1. CASE pc = "stopUpdate"
          BY <1>4, <2>2, <2>4, <2>5, <3>1, <4>1, Zenon DEF WorkOK
        <4>2. CASE pc = "startGet"
          BY <1>4, <2>2, <2>4, <3>1, <3>2, <3>3, <4>2, Zenon DEF WorkOK
        <4> QED
          BY <2>2, <4>1, <4>2, Zenon
      <3> QED
        BY <1>4, <2>3, <2>4, <3>1, <3>3, <3>4, Zenon DEF After
    <2> QED
      BY <1>1, <1>3, <2>1, <2>4, <2>6, Moved, Zenon
  <1>8. CASE StopUpdate(p)
    <2>1. Goto(p, "stopLoad") /\ "stopLoad" \in BusyPC
      BY <1>8, Zenon DEF StopUpdate, BusyPC
    <2>2. /\ proc'[p].pc = "stopLoad" /\ proc'[p].op = proc[p].op /\ proc'[p].task = t
          /\ \A q \in Procs \ {p} : proc'[q] = proc[q]
      BY <1>1, <2>1, GotoKeeps, Zenon
    <2>3. t \in tasks' /\ ~status'[t]
      BY <1>1, <1>8, Zenon DEF StopUpdate, TypeOK
    <2>4. ASSUME Before(p, t) PROVE After(p, t)
      <3>1. /\ EntryOK(t) /\ LiveEntry(t)
            /\ RightPort(t) \/ proc[p].op = "update"
            /\ proc[p].op \in {"delete", "sweep", "purge"} => HasEntry(t)
        BY <1>8, <2>4, Zenon DEF Before, WorkOK, StopUpdate
      <3>2. WorkOK(t, proc[p])'
        BY <1>4, <2>2, <2>3, <3>1, Zenon DEF WorkOK
      <3> QED
        BY <1>4, <2>1, <2>2, <3>1, <3>2, Zenon DEF After
    <2> QED
      BY <1>1, <1>3, <2>2, <2>4, Moved, Zenon
  <1>9. CASE StopLoad(p)
    <2>1. UNCHANGED <<tasks, status>>
      BY <1>9, Zenon DEF StopLoad, db
    <2>2. CASE ~HasEntry(t)
      <3>1. Goto(p, AfterStop(p, FALSE))
        BY <1>1, <1>9, <2>2, ZenonT(30) DEF StopLoad, HasEntry
      <3>2. /\ proc'[p].pc = AfterStop(p, FALSE) /\ proc'[p].op = proc[p].op
            /\ proc'[p].pc \in BusyPC => proc'[p].task = t
            /\ \A q \in Procs \ {p} : proc'[q] = proc[q]
        BY <1>1, <1>5, <3>1, GotoKeeps, ZenonT(30)
      <3>3. ASSUME Before(p, t) PROVE After(p, t)
        <4>1. EntryOK(t) /\ LiveEntry(t) /\ ~status[t]
          BY <1>9, <3>3, Zenon DEF Before, WorkOK, StopLoad
        <4>2. RestOK(t)'
          BY <1>4, <2>1, <2>2, <4>1, Zenon DEF RestOK, Stored
        <4>3. proc'[p].pc \in BusyPC => WorkOK(t, proc[p])'
          BY <1>4, <1>6, <2>2, <3>2, <4>1, <4>2, ZenonT(30) DEF WorkOK
        <4> QED
          BY <1>4, <4>1, <4>2, <4>3, Zenon DEF After
      <3> QED
        BY <1>1, <1>3, <1>5, <3>2, <3>3, Moved, ZenonT(30)
    <2>3. CASE HasEntry(t)
      <3>1. proc' = [proc EXCEPT ![p].pc = "stopClose", ![p].svr = runList[t]]
        BY <1>1, <1>9, <2>3, Zenon DEF StopLoad, HasEntry
      <3>2. /\ proc'[p].pc = "stopClose" /\ proc'[p].op = proc[p].op /\ proc'[p].task = t
            /\ proc'[p].svr = runList[t]
            /\ \A q \in Procs \ {p} : proc'[q] = proc[q]
        BY <1>1, <3>1 DEF TypeOK
      <3>3. ASSUME Before(p, t) PROVE After(p, t)
        <4>1. /\ EntryOK(t) /\ LiveEntry(t) /\ ~status[t]
              /\ RightPort(t) \/ proc[p].op = "update"
          BY <1>9, <3>3, Zenon DEF Before, WorkOK, StopLoad
        <4>2. WorkOK(t, proc[p])'
          BY <1>2, <1>4, <2>1, <2>3, <3>2, <4>1, ZenonT(30) DEF WorkOK
        <4> QED
          BY <1>4, <3>2, <4>1, <4>2, Zenon DEF After, BusyPC
      <3> QED
        BY <1>1, <1>3, <3>2, <3>3, Moved, Zenon
    <2> QED
      BY <2>2, <2>3, Zenon
  <1> QED
    BY <1>7, <1>8, <1>9, Zenon DEF StopSteps

\* The servers that RunList has for a task, or that StopServer has found there, are the
\* task's, whatever races there were.
Owned ==
    /\ \A t \in Task : runList[t] \in Servers => srv[runList[t]].task = t
    /\ \A p \in Procs : proc[p].pc = "stopClose" /\ proc[p].svr \in Servers =>
          srv[proc[p].svr].task = proc[p].task

LEMMA StopCloseSettles ==
    ASSUME IInv, TypeOK', Owned, SettledInv, Race, NEW p \in Procs, StopClose(p)
    PROVE  SettledInv'
  <1> USE DEF At, IInv
  <1>1. PICK t \in Task : proc[p].task = t /\ proc[p].pc \in BusyPC
    BY Zenon DEF StopClose, BusyPC, TypeOK
  <1>2. PICK s : s = proc[p].svr
    BY Zenon
  <1>3. s \in Servers \/ s = NilService
    BY <1>2, Zenon DEF StopClose, ClosedFirst, TypeOK, Entry
  <1>4. s \in Servers => s # NilService /\ srv[s].task = t /\ srv[s] \in ServerRec
    BY <1>1, <1>2, ServerTypes, Zenon DEF Owned, StopClose
  <1> DEFINE was == IF s = NilService THEN "new" ELSE srv[s].pc
             pc == IF was = "closed" THEN AfterStop(p, FALSE) ELSE "stopDelete"
  <1>5. /\ Goto(p, pc)
        /\ srv' = IF was = "listening" THEN [srv EXCEPT ![s].pc = "closed"] ELSE srv
    BY <1>2, ZenonT(30) DEF StopClose
  <1>6. pc \in BusyPC \cup FreePC /\ pc # "collect"
    BY Continuations, ZenonT(30) DEF BusyPC, FreePC
  <1>7. /\ proc'[p].pc = pc
        /\ pc \in BusyPC => proc'[p].task = t /\ proc'[p].svr = s
        /\ \A q \in Procs \ {p} : proc'[q] = proc[q]
    <2> HIDE DEF pc
    <2> QED
      BY <1>1, <1>2, <1>5, <1>6, GotoKeeps, Zenon
  <1>8. /\ Servers' = Servers
        /\ \A z \in Servers : srv'[z].task = srv[z].task
        /\ \A z \in Servers \ {s} : srv'[z] = srv[z]
        /\ was = "listening" => srv'[s].pc = "closed"
    <2>1. CASE was = "listening"
      <3>1. s \in Servers /\ srv' = [srv EXCEPT ![s].pc = "closed"] /\ "closed" \in ServerPC
        BY <1>3, <1>5, <2>1, Zenon DEF ServerPC
      <3>2. srv \in Seq(ServerRec)
        BY Zenon DEF TypeOK, ServerRec
      <3> QED
        BY <3>1, <3>2, ServerMoves, ZenonT(30)
    <2>2. CASE was # "listening"
      BY <1>5, <2>2, Zenon DEF Servers
    <2> QED
      BY <2>1, <2>2, Zenon
  <1> HIDE DEF was
  <1>9. UNCHANGED <<runList, tasks, status, port, cnf, openTask>>
    BY Zenon DEF StopClose, db, bridge
  <1>10. \A u : Of(u)' = Of(u)
    BY <1>8, Zenon DEF Of
  <1>11. \A u \in Task \ {t} : SameTask(u)
    <2> SUFFICES ASSUME NEW u \in Task \ {t} PROVE SameTask(u)
      BY Zenon
    <2>1. \A z \in Of(u) : srv'[z] = srv[z]
      BY <1>4, <1>8, Zenon DEF Of
    <2> QED
      BY <1>9, <1>10, <2>1, Zenon DEF SameTask, Pending
  <1>12. ASSUME Before(p, t) PROVE After(p, t)
    <2>1. /\ EntryOK(t) /\ HasEntry(t) /\ s = runList[t] /\ ~status[t]
      BY <1>2, <1>12, Zenon DEF Before, WorkOK, StopClose
    <2>2. t \in SecretTask \/ was = "listening"
      <3>1. t \notin SecretTask => srv[s].pc = "listening" /\ s \in Servers
        BY <1>12, <2>1, EntryListens, Zenon DEF StopClose, Of
      <3> QED
        BY <1>4, <3>1, Zenon DEF was
    <2>3. t \in SecretTask => was = "new"
      BY <2>1, Zenon DEF was, EntryOK, HasEntry
    <2>4. pc = "stopDelete" /\ "stopDelete" \in BusyPC
      BY <2>2, <2>3, ZenonT(30) DEF BusyPC
    <2>5. HasEntry(t)'
      BY <1>9, <2>1, Zenon DEF HasEntry, NoEntry
    <2>6. \A z \in Of(t) : srv'[z].pc \notin {"new", "listening", "failed"}
      <3> SUFFICES ASSUME NEW z \in Of(t) PROVE srv'[z].pc \notin {"new", "listening", "failed"}
        BY Zenon
      <3>1. t \notin SecretTask /\ z \in Servers
        BY <2>1, Zenon DEF EntryOK, Of
      <3>2. z # s => srv'[z].pc \notin {"new", "listening", "failed"}
        BY <1>8, <2>1, <3>1, Zenon DEF EntryOK
      <3> QED
        BY <1>8, <2>2, <3>1, <3>2, Zenon
    <2>7. EntryOK(t)'
      BY <1>9, <1>10, <2>1, <2>5, <2>6, Zenon DEF EntryOK, NoEntry, NilService
    <2>8. RightPort(t)'
      BY <1>10, <2>6, Zenon DEF RightPort
    <2>9. WorkOK(t, proc[p])'
      BY <1>7, <1>8, <1>9, <2>1, <2>2, <2>4, <2>5, <2>8, ZenonT(30) DEF WorkOK
    <2> QED
      BY <1>7, <2>4, <2>7, <2>9, ZenonT(30) DEF After
  <1> QED
    BY <1>1, <1>6, <1>7, <1>11, <1>12, Moved, ZenonT(30)

LEMMA StopDeleteSettles ==
    ASSUME TypeOK, TypeOK', SettledInv, Race, NEW p \in Procs, StopDelete(p)
    PROVE  SettledInv'
  <1> USE DEF At
  <1>1. PICK t \in Task : proc[p].task = t /\ proc[p].pc \in BusyPC
    BY Zenon DEF StopDelete, BusyPC, TypeOK
  <1> DEFINE pc == AfterStop(p, TRUE)
  <1>2. Goto(p, pc) /\ runList' = [runList EXCEPT ![t] = NoEntry]
    BY <1>1, ZenonT(30) DEF StopDelete, Delete
  <1>3. pc \in BusyPC \cup FreePC /\ pc # "collect"
    BY Continuations, ZenonT(30) DEF BusyPC, FreePC
  <1>4. pc \in BusyPC => pc = "dbDel" \/ (pc = "startGet" /\ proc[p].op \in {"update", "open"})
    <2>1. proc[p].op \in {"update", "open"} => pc = "startGet"
      BY Zenon DEF AfterStop
    <2>2. proc[p].op \notin {"update", "open"} => pc \in {"dbDel", "idle", "done"}
      BY Zenon DEF AfterStop, Finish
    <2> HIDE DEF pc
    <2> QED
      BY <2>1, <2>2, Zenon DEF BusyPC
  <1> HIDE DEF pc
  <1>5. /\ proc'[p].pc = pc /\ proc'[p].op = proc[p].op
        /\ pc \in BusyPC => proc'[p].task = t
        /\ \A q \in Procs \ {p} : proc'[q] = proc[q]
    BY <1>1, <1>2, <1>3, GotoKeeps, Zenon
  <1>6. UNCHANGED <<srv, tasks, status, port, cnf, openTask>>
    BY Zenon DEF StopDelete, db, bridge
  <1>7. \A u \in Task \ {t} : SameTask(u)
    BY <1>2, <1>6, SameIfKept, Zenon DEF TypeOK
  <1>8. ASSUME Before(p, t) PROVE After(p, t)
    <2>1. /\ EntryOK(t) /\ HasEntry(t) /\ proc[p].svr = runList[t] /\ ~status[t]
          /\ t \notin SecretTask => srv[runList[t]].pc = "closed"
      BY <1>8, Zenon DEF Before, WorkOK, StopDelete
    <2>2. runList'[t] = NoEntry /\ Of(t)' = Of(t)
      BY <1>2, <1>6, Zenon DEF TypeOK, Of, Servers
    <2>3. ~HasEntry(t)'
      BY <2>2, Zenon DEF HasEntry, NoEntry
    <2>4. \A z \in Of(t) : srv'[z].pc \notin {"new", "listening", "failed"}
      BY <1>6, <2>1, Zenon DEF EntryOK
    <2>5. EntryOK(t)'
      BY <2>1, <2>2, <2>3, <2>4, Zenon DEF EntryOK, NoEntry, NilService
    <2>6. RestOK(t)'
      BY <1>6, <2>1, <2>2, <2>3, <2>4, Zenon DEF RestOK, LiveEntry, RightPort, Stored
    <2>7. pc \in BusyPC => WorkOK(t, proc[p])'
      BY <1>4, <1>5, <2>3, <2>6, Zenon DEF WorkOK, RestOK
    <2> QED
      BY <1>5, <2>5, <2>6, <2>7, Zenon DEF After
  <1> QED
    BY <1>1, <1>3, <1>5, <1>7, <1>8, Moved, Zenon

\* The port of an entry that listens is taken.
LEMMA EntryTakesPort ==
    ASSUME NEW p, NEW t, Before(p, t), proc[p].pc = "startGet", HasEntry(t), TestServerPort(t)
    PROVE  t \in SecretTask
  <1> SUFFICES ASSUME t \notin SecretTask PROVE FALSE
    BY Zenon
  <1>1. runList[t] \in Of(t) /\ srv[runList[t]].pc = "listening"
    BY EntryListens, Zenon
  <1>2. RightPort(t) /\ PortFree(port[t])
    BY Zenon DEF Before, WorkOK, TestServerPort
  <1> QED
    BY <1>1, <1>2, Zenon DEF RightPort, PortFree, Listening, Of

\* StartTask and AddTask, step by step.
LEMMA StartGetSettles ==
    ASSUME TypeOK, TypeOK', SettledInv, Race, NEW p \in Procs, StartGet(p)
    PROVE  SettledInv'
  <1> USE DEF At
  <1>1. PICK t \in Task : proc[p].task = t /\ proc[p].pc \in BusyPC
    BY Zenon DEF StartGet, BusyPC, TypeOK
  <1> DEFINE ok == t \in tasks /\ TestServerPort(t)
             pc == IF ok THEN "add" ELSE Finish(p)
  <1>2. Goto(p, pc)
    BY <1>1, Zenon DEF StartGet
  <1>3. /\ pc \in BusyPC \cup FreePC /\ pc # "collect"
        /\ pc \in BusyPC => pc = "add" /\ t \in tasks /\ TestServerPort(t)
    BY Continuations, Zenon DEF BusyPC, FreePC
  <1> HIDE DEF pc
  <1>4. /\ proc'[p].pc = pc /\ proc'[p].op = proc[p].op
        /\ pc \in BusyPC => proc'[p].task = t
        /\ \A q \in Procs \ {p} : proc'[q] = proc[q]
    BY <1>1, <1>2, <1>3, GotoKeeps, Zenon
  <1>5. UNCHANGED <<srv, runList, tasks, status, port, cnf, openTask>>
    BY Zenon DEF StartGet, db, bridge
  <1>6. \A u \in Task : SameTask(u)
    BY <1>5, SameIfKept, Zenon
  <1>7. ASSUME Before(p, t) PROVE After(p, t)
    <2>1. EntryOK(t) /\ RestOK(t) /\ proc[p].op # "create"
      BY <1>7, Zenon DEF Before, WorkOK, StartGet
    <2>2. /\ EntryOK(t)' /\ RestOK(t)'
          /\ HasEntry(t)' <=> HasEntry(t)
      BY <1>6, <2>1, TaskFrame, ZenonT(30)
    <2>3. pc \in BusyPC => (HasEntry(t) => t \in SecretTask)
      BY <1>3, <1>7, EntryTakesPort, Zenon DEF StartGet
    <2>4. pc \in BusyPC => WorkOK(t, proc[p])'
      BY <1>3, <1>4, <1>5, <2>1, <2>2, <2>3, ZenonT(30) DEF WorkOK, RestOK
    <2> QED
      BY <1>4, <2>2, <2>4, Zenon DEF After
  <1> QED
    BY <1>1, <1>3, <1>4, <1>6, <1>7, Moved, Zenon

LEMMA StartUpdateSettles ==
    ASSUME TypeOK, TypeOK', SettledInv, Race, NEW p \in Procs, StartUpdate(p)
    PROVE  SettledInv'
  <1> USE DEF At
  <1>1. PICK t \in Task : proc[p].task = t /\ proc[p].pc \in BusyPC
    BY Zenon DEF StartUpdate, BusyPC, TypeOK
  <1> DEFINE pc == Finish(p)
  <1>2. Goto(p, pc) /\ pc \in BusyPC \cup FreePC /\ pc # "collect" /\ pc \notin BusyPC
    BY Continuations, Zenon DEF StartUpdate, BusyPC, FreePC
  <1> HIDE DEF pc
  <1>3. proc'[p].pc = pc /\ \A q \in Procs \ {p} : proc'[q] = proc[q]
    BY <1>2, GotoKeeps, Zenon
  <1>4. UNCHANGED <<srv, runList, port, cnf, openTask>> /\ t \in tasks' /\ status'[t]
    BY <1>1, Zenon DEF StartUpdate, bridge, TypeOK
  <1>5. \A u \in Task \ {t} : SameTask(u)
    BY <1>1, <1>4, SameIfKept, ZenonT(30) DEF StartUpdate, TypeOK
  <1>6. ASSUME Before(p, t) PROVE After(p, t)
    <2>1. EntryOK(t) /\ LiveEntry(t) /\ RightPort(t) /\ (HasEntry(t) \/ Gone(t))
      BY <1>6, ZenonT(30) DEF Before, WorkOK, StartUpdate
    <2>2. EntryOK(t)' /\ LiveEntry(t)' /\ RightPort(t)' /\ Excused(t)'
      BY <1>4, <2>1, ServersKept, ZenonT(30) DEF Excused
    <2> QED
      BY <1>2, <1>3, <1>4, <2>2, Zenon DEF After, RestOK, Stored
  <1> QED
    BY <1>1, <1>2, <1>3, <1>5, <1>6, Moved, ZenonT(30)

\* DelTask, and the handlers that store a task.
LEMMA DelSettles ==
    ASSUME TypeOK, TypeOK', SettledInv, Race, NEW p \in Procs, DelLoad(p) \/ DbDel(p)
    PROVE  SettledInv'
  <1> USE DEF At
  <1>1. PICK t \in Task : proc[p].task = t /\ proc[p].pc \in BusyPC
    BY Zenon DEF DelLoad, DbDel, BusyPC, TypeOK
  <1>2. UNCHANGED <<srv, runList, status, port, cnf, openTask>>
    BY ZenonT(30) DEF DelLoad, DbDel, bridge, db
  <1>3. \A u \in Task \ {t} : SameTask(u)
    BY <1>1, <1>2, SameIfKept, Zenon DEF DelLoad, DbDel, db
  <1>4. CASE DelLoad(p)
    <2> DEFINE pc == IF HasEntry(t) THEN "stopGet" ELSE "dbDel"
    <2>1. Goto(p, pc) /\ pc \in BusyPC
      BY <1>1, <1>4, Zenon DEF DelLoad, HasEntry, BusyPC
    <2>2. (HasEntry(t) => pc = "stopGet") /\ (~HasEntry(t) => pc = "dbDel")
      BY Zenon
    <2> HIDE DEF pc
    <2>3. /\ proc'[p].pc = pc /\ proc'[p].op = proc[p].op /\ proc'[p].task = t
          /\ \A q \in Procs \ {p} : proc'[q] = proc[q]
      BY <1>1, <2>1, GotoKeeps, Zenon
    <2>4. SameTask(t)
      BY <1>2, <1>4, SameIfKept, Zenon DEF DelLoad, db
    <2>5. ASSUME Before(p, t) PROVE After(p, t)
      <3>1. EntryOK(t) /\ RestOK(t)
        BY <1>4, <2>5, ZenonT(30) DEF Before, WorkOK, DelLoad
      <3>2. EntryOK(t)' /\ RestOK(t)' /\ (HasEntry(t)' <=> HasEntry(t))
        BY <2>4, <3>1, TaskFrame, Zenon
      <3>3. WorkOK(t, proc[p])'
        BY <2>2, <2>3, <3>2, ZenonT(30) DEF WorkOK, RestOK
      <3> QED
        BY <2>1, <2>3, <3>2, <3>3, Zenon DEF After
    <2>6. proc'[p].pc # "collect"
      BY <2>1, <2>3, Zenon DEF BusyPC
    <2> QED
      BY <1>1, <1>3, <2>3, <2>5, <2>6, Moved, Zenon
  <1>5. CASE DbDel(p)
    <2> DEFINE pc == AfterDel(p)
    <2>1. Goto(p, pc) /\ pc \in BusyPC \cup FreePC /\ pc # "collect" /\ pc \notin BusyPC
      BY <1>5, Continuations, Zenon DEF DbDel, BusyPC, FreePC
    <2> HIDE DEF pc
    <2>2. proc'[p].pc = pc /\ \A q \in Procs \ {p} : proc'[q] = proc[q]
      BY <2>1, GotoKeeps, Zenon
    <2>3. ASSUME Before(p, t) PROVE After(p, t)
      <3>1. EntryOK(t) /\ LiveEntry(t) /\ ~HasEntry(t)
        BY <1>5, <2>3, ZenonT(30) DEF Before, WorkOK, DbDel
      <3>2. EntryOK(t)' /\ LiveEntry(t)' /\ ~HasEntry(t)' /\ RightPort(t)'
        BY <1>2, <3>1, ServersKept, Zenon
      <3>3. ~Stored(t)'
        BY <1>1, <1>5, ZenonT(30) DEF DbDel, Stored
      <3> QED
        BY <2>1, <2>2, <3>2, <3>3, Zenon DEF After, RestOK
    <2> QED
      BY <1>1, <1>3, <2>1, <2>2, <2>3, Moved, Zenon
  <1> QED
    BY <1>4, <1>5, Zenon

LEMMA HandlerSettles ==
    ASSUME TypeOK, TypeOK', SettledInv, Race, NEW p \in Procs, NewTask(p) \/ EditTunnel(p)
    PROVE  SettledInv'
  <1> USE DEF At
  <1>1. PICK t \in Task : proc[p].task = t /\ proc[p].pc \in BusyPC
    BY Zenon DEF NewTask, EditTunnel, BusyPC, TypeOK
  <1>2. UNCHANGED <<srv, runList, cnf, openTask>> /\ t \in tasks'
    BY <1>1, ZenonT(30) DEF NewTask, EditTunnel, bridge
  <1>3. \A u \in Task \ {t} : SameTask(u)
    BY <1>1, <1>2, SameIfKept, ZenonT(30) DEF NewTask, EditTunnel, TypeOK
  <1>4. CASE NewTask(p)
    <2>1. Goto(p, "add") /\ "add" \in BusyPC
      BY <1>4, Zenon DEF NewTask, BusyPC
    <2>2. /\ proc'[p].pc = "add" /\ proc'[p].op = proc[p].op /\ proc'[p].task = t
          /\ \A q \in Procs \ {p} : proc'[q] = proc[q]
      BY <1>1, <2>1, GotoKeeps, Zenon
    <2>3. Stored(t)' /\ port' = port
      BY <1>1, <1>4, Zenon DEF NewTask, TypeOK, Stored
    <2>4. ASSUME Before(p, t) PROVE After(p, t)
      <3>1. EntryOK(t) /\ LiveEntry(t) /\ ~HasEntry(t) /\ proc[p].op = "create"
        BY <1>4, <2>4, ZenonT(30) DEF Before, WorkOK, NewTask
      <3>2. EntryOK(t)' /\ LiveEntry(t)' /\ ~HasEntry(t)' /\ RightPort(t)'
        BY <1>2, <3>1, ServersKept, ZenonT(30)
      <3>3. WorkOK(t, proc[p])'
        BY <1>2, <2>2, <2>3, <3>1, <3>2, ZenonT(30) DEF WorkOK
      <3> QED
        BY <2>1, <2>2, <3>2, <3>3, Zenon DEF After
    <2> QED
      BY <1>1, <1>3, <2>2, <2>4, Moved, Zenon
  <1>5. CASE EditTunnel(p)
    <2>1. Goto(p, "stopGet") /\ "stopGet" \in BusyPC
      BY <1>5, Zenon DEF EditTunnel, BusyPC
    <2>2. /\ proc'[p].pc = "stopGet" /\ proc'[p].op = proc[p].op /\ proc'[p].task = t
          /\ \A q \in Procs \ {p} : proc'[q] = proc[q]
      BY <1>1, <2>1, GotoKeeps, Zenon
    <2>3. status' = status
      BY <1>5, Zenon DEF EditTunnel
    <2>4. ASSUME Before(p, t) PROVE After(p, t)
      <3>1. EntryOK(t) /\ RestOK(t) /\ t \in tasks /\ proc[p].op = "update"
        BY <1>5, <2>4, ZenonT(30) DEF Before, WorkOK, EditTunnel
      <3>2. /\ EntryOK(t)' /\ LiveEntry(t)'
            /\ HasEntry(t)' <=> HasEntry(t)
            /\ Excused(t)' <=> Excused(t)
        BY <1>2, <3>1, ServersKept, ZenonT(30) DEF RestOK
      <3>3. Stored(t)' <=> Stored(t)
        BY <1>2, <2>3, <3>1, Zenon DEF Stored
      <3>4. WorkOK(t, proc[p])'
        BY <2>2, <3>1, <3>2, <3>3, ZenonT(30) DEF WorkOK, RestOK
      <3> QED
        BY <2>1, <2>2, <3>2, <3>4, Zenon DEF After
    <2> QED
      BY <1>1, <1>3, <2>2, <2>4, Moved, Zenon
  <1> QED
    BY <1>4, <1>5, Zenon

\* AddTask tests the port and stores the server it makes.
LEMMA AddSettles ==
    ASSUME TypeOK, TypeOK', SettledInv, Race, NEW p \in Procs, Add(p)
    PROVE  SettledInv'
  <1> USE DEF At
  <1>1. PICK t \in Task : proc[p].task = t /\ proc[p].pc \in BusyPC
    BY Zenon DEF Add, BusyPC, TypeOK
  <1> DEFINE ok == TestServerPort(t)
             creates == proc[p].op = "create"
             pc == IF ~ok THEN IF creates THEN "dbDel" ELSE Finish(p)
                   ELSE IF creates THEN Finish(p) ELSE "startUpdate"
  <1>2. Goto(p, pc)
    BY <1>1, Zenon DEF Add
  <1>3. /\ pc \in BusyPC \cup FreePC /\ pc # "collect"
        /\ pc \in BusyPC => (~ok /\ creates => pc = "dbDel") /\ (ok => pc = "startUpdate" /\ ~creates)
        /\ pc \in BusyPC /\ ~ok => creates
        /\ pc \notin BusyPC /\ ok => creates
        /\ pc \notin BusyPC /\ ~ok => ~creates
    BY Continuations, Zenon DEF BusyPC, FreePC
  <1> HIDE DEF pc
  <1>4. /\ proc'[p].pc = pc /\ proc'[p].op = proc[p].op
        /\ pc \in BusyPC => proc'[p].task = t
        /\ \A q \in Procs \ {p} : proc'[q] = proc[q]
    BY <1>1, <1>2, <1>3, GotoKeeps, Zenon
  <1>5. UNCHANGED <<tasks, status, port, cnf, openTask>>
    BY ZenonT(30) DEF Add, db, bridge
  <1>6. CASE ~ok
    <2>1. UNCHANGED <<srv, runList>>
      BY <1>1, <1>6, ZenonT(30) DEF Add
    <2>2. \A u \in Task : SameTask(u)
      BY <1>5, <2>1, SameIfKept, Zenon
    <2>3. ASSUME Before(p, t) PROVE After(p, t)
      <3>1. /\ EntryOK(t) /\ LiveEntry(t) /\ RightPort(t) /\ ~HasEntry(t)
            /\ ~creates => (Stored(t) => Excused(t))
        BY <1>6, <2>3, ZenonT(30) DEF Before, WorkOK, Add, TestServerPort
      <3>2. /\ EntryOK(t)' /\ LiveEntry(t)' /\ RightPort(t)' /\ ~HasEntry(t)'
            /\ ~creates => (Stored(t)' => Excused(t)')
        BY <2>2, <3>1, TaskFrame, ZenonT(30)
      <3>3. pc \in BusyPC => WorkOK(t, proc[p])'
        BY <1>3, <1>4, <1>6, <3>2, ZenonT(30) DEF WorkOK
      <3>4. pc \notin BusyPC => RestOK(t)'
        BY <1>3, <1>6, <3>2, ZenonT(30) DEF RestOK
      <3> QED
        BY <1>4, <3>2, <3>3, <3>4, Zenon DEF After
    <2> QED
      BY <1>1, <1>3, <1>4, <2>2, <2>3, Moved, Zenon
  <1>7. CASE ok
    <2> DEFINE n == Len(srv) + 1
               e == IF t \in SecretTask THEN NilService ELSE n
    <2>1. /\ runList' = [runList EXCEPT ![t] = e]
          /\ srv' = IF t \in SecretTask THEN srv ELSE Append(srv, NewServer(t))
      BY <1>1, <1>7, Zenon DEF Add
    <2>2. srv \in Seq(ServerRec) /\ NewServer(t) \in ServerRec
      BY Zenon DEF TypeOK, ServerRec, NewServer, ServerPC
    <2>3. /\ Servers \subseteq Servers' /\ n \notin Servers
          /\ \A z \in Servers : srv'[z] = srv[z]
          /\ t \in SecretTask => Servers' = Servers
          /\ t \notin SecretTask => Servers' = Servers \cup {n} /\ srv'[n] = NewServer(t)
      BY <2>1, <2>2 DEF Servers
    <2>4. NewServer(t).task = t /\ NewServer(t).pc = "new"
      BY Zenon DEF NewServer
    <2>5. runList'[t] = e /\ e # NoEntry /\ \A u \in Task \ {t} : runList'[u] = runList[u]
      <3>1. n # NoEntry /\ NilService # NoEntry
        BY <2>2 DEF NoEntry, NilService
      <3> QED
        BY <2>1, <3>1, Zenon DEF TypeOK
    <2> HIDE DEF n
    <2>6. \A u \in Task \ {t} : SameTask(u)
      <3> SUFFICES ASSUME NEW u \in Task \ {t} PROVE SameTask(u)
        BY Zenon
      <3>1. Of(u)' = Of(u) /\ \A z \in Of(u) : srv'[z] = srv[z]
        BY <2>3, <2>4, Zenon DEF Of
      <3> QED
        BY <1>5, <2>5, <3>1, ZenonT(30) DEF SameTask, Pending
    <2>7. ASSUME Before(p, t) PROVE After(p, t)
      <3>1. /\ EntryOK(t) /\ t \in tasks /\ RightPort(t)
            /\ HasEntry(t) => t \in SecretTask
            /\ creates => Stored(t)
        BY <2>7, ZenonT(30) DEF Before, WorkOK, Add
      <3>2. HasEntry(t)'
        BY <2>5, Zenon DEF HasEntry, NoEntry
      <3>3. EntryOK(t)' /\ LiveEntry(t)' /\ RightPort(t)'
        <4>1. CASE t \in SecretTask
          <5>1. Of(t) = {} /\ Of(t)' = {} /\ runList'[t] = NilService
            BY <2>3, <2>5, <3>1, <4>1, Zenon DEF EntryOK, Of
          <5> QED
            BY <4>1, <5>1, Zenon DEF EntryOK, LiveEntry, RightPort, NilService
        <4>2. CASE t \notin SecretTask
          <5>1. runList'[t] = n /\ n \in Of(t)' /\ srv'[n].pc = "new"
            BY <2>3, <2>4, <2>5, <4>2, Zenon DEF Of
          <5>2. \A z \in Of(t)' : z # n => z \in Of(t) /\ srv'[z] = srv[z]
            BY <2>3, <4>2, Zenon DEF Of
          <5>3. \A z \in Of(t) : srv[z].pc \notin {"new", "listening", "failed"}
            BY <3>1, <4>2, ServerTypes, Zenon DEF EntryOK, HasEntry, Of
          <5> QED
            BY <4>2, <5>1, <5>2, <5>3, Zenon DEF EntryOK, LiveEntry, RightPort
        <4> QED
          BY <4>1, <4>2, Zenon
      <3>4. creates => Stored(t)'
        BY <1>5, <3>1, Zenon DEF Stored
      <3>5. pc \in BusyPC => WorkOK(t, proc[p])'
        BY <1>3, <1>4, <1>5, <1>7, <3>1, <3>2, <3>3, ZenonT(30) DEF WorkOK
      <3>6. pc \notin BusyPC => RestOK(t)'
        BY <1>3, <1>7, <3>2, <3>3, <3>4, ZenonT(30) DEF RestOK, Excused
      <3> QED
        BY <1>4, <3>3, <3>5, <3>6, ZenonT(30) DEF After
    <2> QED
      BY <1>1, <1>3, <1>4, <2>6, <2>7, Moved, Zenon
  <1> QED
    BY <1>6, <1>7, Zenon

\* svr.Start, while the goroutine that made the server may be before its UpdateTask.
LEMMA ServerSettles ==
    ASSUME TypeOK, TypeOK', SettledInv, Race, NEW z \in Servers, Start(z) \/ StartFailed(z)
    PROVE  SettledInv'
  <1>1. PICK t \in Task : srv[z].task = t
    BY ServerTypes, Zenon
  <1>2. srv \in Seq(ServerRec) /\ srv[z] \in ServerRec /\ z # NoEntry
    BY ServerTypes, ZenonT(30) DEF TypeOK, ServerRec
  <1>3. UNCHANGED <<proc, tasks, status, port, cnf, openTask>> /\ srv[z].pc \in {"new", "failed"}
    BY Zenon DEF Start, StartFailed, db, bridge
  <1>4. /\ Servers' = Servers /\ srv'[z].task = t
        /\ \A y \in Servers \ {z} : srv'[y] = srv[y]
        /\ Start(z) => \/ srv'[z].pc = "failed"
                       \/ srv'[z].pc = "listening" /\ srv'[z].port = port[t]
        /\ StartFailed(z) => srv'[z].pc = "gone"
    <2>1. CASE Start(z) /\ PortFree(port[t])
      <3> DEFINE r == [srv[z] EXCEPT !.pc = "listening", !.port = port[t]]
      <3>1. srv' = [srv EXCEPT ![z] = r]
        BY <1>1, <1>2, <2>1, ZenonT(30) DEF Start, ServerRec
      <3>2. r.pc = "listening" /\ r.port = port[t] /\ r.task = t
        BY <1>1, <1>2, Zenon DEF ServerRec
      <3>3. ~StartFailed(z)
        BY <2>1, Zenon DEF Start, StartFailed
      <3> HIDE DEF r
      <3> QED
        BY <1>2, <3>1, <3>2, <3>3, Zenon DEF Servers
    <2>2. CASE Start(z) /\ ~PortFree(port[t])
      <3>1. srv' = [srv EXCEPT ![z].pc = "failed"] /\ "failed" \in ServerPC /\ ~StartFailed(z)
        BY <1>1, <2>2, Zenon DEF Start, StartFailed, ServerPC
      <3> QED
        BY <1>1, <1>2, <3>1, ServerMoves, ZenonT(30)
    <2>3. CASE StartFailed(z)
      <3>1. srv' = [srv EXCEPT ![z].pc = "gone"] /\ "gone" \in ServerPC /\ ~Start(z)
        BY <2>3, Zenon DEF Start, StartFailed, ServerPC
      <3> QED
        BY <1>1, <1>2, <2>3, <3>1, ServerMoves, ZenonT(30)
    <2> QED
      BY <2>1, <2>2, <2>3, Zenon
  <1>5. \A u \in Task \ {t} : runList'[u] = runList[u]
    BY <1>1, Zenon DEF Start, StartFailed, Delete, TypeOK
  <1>6. \A u : Of(u)' = Of(u)
    BY <1>1, <1>4, Zenon DEF Of
  <1>7. ASSUME NEW u \in Task \ {t} PROVE SameTask(u) /\ SameWorkers(u)
    <2>1. \A y \in Of(u) : srv'[y] = srv[y]
      BY <1>1, <1>4, Zenon DEF Of
    <2> QED
      BY <1>3, <1>5, <1>6, <2>1, Zenon DEF SameTask, SameWorkers, Working, Pending
  <1>8. ASSUME t \in Task \ raced, TaskOK(t)
        PROVE  /\ EntryOK(t)'
               /\ Working(t)' = {} => RestOK(t)'
               /\ \A q \in Working(t)' : WorkOK(t, proc[q])'
    <2>1. z \in Of(t) /\ z \in Starting(t) /\ Working(t)' = Working(t)
      BY <1>1, <1>3, Zenon DEF Of, Starting, Working
    <2>2. EntryOK(t) /\ t \notin SecretTask /\ runList[t] = z
      BY <1>3, <1>8, <2>1, Zenon DEF TaskOK, EntryOK
    <2>3. \A q \in Working(t) : proc[q].pc = "startUpdate" /\ WorkOK(t, proc[q])
      BY <1>8, <2>1, Zenon DEF TaskOK, Overlap
    <2>4. Stored(t)' <=> Stored(t)
      BY <1>3, Zenon DEF Stored
    <2>5. RightPort(t) => RightPort(t)'
      BY <1>3, <1>4, <1>6 DEF RightPort, Of
    <2>6. CASE Start(z)
      <3>1. runList' = runList
        BY <2>6, Zenon DEF Start
      <3>2. HasEntry(t)' /\ HasEntry(t) /\ EntryOK(t)' /\ LiveEntry(t)'
        BY <1>2, <1>4, <1>6, <2>2, <2>6, <3>1 DEF HasEntry, EntryOK, LiveEntry, NoEntry, Of
      <3>3. RestOK(t) => RestOK(t)'
        BY <2>4, <2>5, <3>2, Zenon DEF RestOK, Excused
      <3>4. ASSUME NEW q \in Working(t) PROVE WorkOK(t, proc[q])'
        <4>1. RightPort(t) /\ t \in tasks
          BY <2>3, ZenonT(30) DEF WorkOK
        <4> QED
          BY <1>3, <2>3, <2>5, <3>2, <4>1, ZenonT(30) DEF WorkOK
      <3> QED
        BY <1>8, <2>1, <3>2, <3>3, <3>4, Zenon DEF TaskOK
    <2>7. CASE StartFailed(z)
      <3>1. runList'[t] = NoEntry
        BY <1>1, <2>7, Zenon DEF StartFailed, Delete, TypeOK
      <3>2. Gone(t)'
        BY <1>4, <1>6, <2>1, <2>7, ZenonT(30) DEF Gone
      <3>3. \A y \in Of(t) : srv'[y].pc \notin {"new", "listening", "failed"}
        BY <1>4, <2>2, <2>7, Zenon DEF EntryOK, Of
      <3>4. ~HasEntry(t)' /\ EntryOK(t)' /\ LiveEntry(t)' /\ RightPort(t)'
        BY <1>6, <2>2, <3>1, <3>3, Zenon DEF HasEntry, EntryOK, LiveEntry, RightPort, NoEntry
      <3>5. RestOK(t)'
        BY <3>2, <3>4, Zenon DEF RestOK, Excused
      <3>6. ASSUME NEW q \in Working(t) PROVE WorkOK(t, proc[q])'
        <4>1. t \in tasks
          BY <2>3, ZenonT(30) DEF WorkOK
        <4> QED
          BY <1>3, <2>3, <3>2, <3>4, <4>1, ZenonT(30) DEF WorkOK
      <3> QED
        BY <2>1, <3>4, <3>5, <3>6, Zenon
    <2> QED
      BY <2>6, <2>7, Zenon
  <1>9. \A q \in Procs : proc'[q].pc = "collect" => proc'[q].task = 0
    BY <1>3, Zenon DEF SettledInv
  <1> QED
    BY <1>7, <1>8, <1>9, OneTask, Zenon

\* Handle makes the goroutine anew.
LEMMA HandleMakes ==
    ASSUME TypeOK, NEW w \in Procs, NEW op, NEW t, NEW pc, Handle(w, op, t, pc)
    PROVE  /\ proc'[w].pc = pc /\ proc'[w].op = op /\ proc'[w].task = t
           /\ \A q \in Procs \ {w} : proc'[q] = proc[q]
  <1> DEFINE r == Goroutine(pc, op, t)
  <1>1. r.pc = pc /\ r.op = op /\ r.task = t
    BY Zenon DEF Goroutine
  <1>2. proc' = [proc EXCEPT ![w] = r] /\ w \in DOMAIN proc
    BY Zenon DEF Handle, TypeOK
  <1> HIDE DEF r
  <1> QED
    BY <1>1, <1>2

\* Without an entry and before its id is handed out nothing is known of a task.
LEMMA NotMade ==
    ASSUME TypeOK, NEW t \in Task \ made, RestOK(t)
    PROVE  ~HasEntry(t) /\ t \notin tasks
  BY Zenon DEF TypeOK, RestOK, Stored

\* The steps that begin an operation.
LEMMA RequestSettles ==
    ASSUME TypeOK, TypeOK', SettledInv, Race, NEW w \in Web, CreateTunnel(w) \/ TunnelRequest(w)
    PROVE  SettledInv'
  <1> USE DEF At
  <1>1. w \in Procs /\ proc[w].pc = "idle"
    BY ZenonT(30) DEF Procs, CreateTunnel, TunnelRequest, Asked
  <1>2. UNCHANGED <<srv, runList, tasks, status, port, cnf, openTask>>
    BY Zenon DEF CreateTunnel, TunnelRequest, db, bridge
  <1>3. \A u \in Task : SameTask(u)
    BY <1>2, SameIfKept, Zenon
  <1>4. CASE CreateTunnel(w)
    <2>1. PICK t \in Task \ (made \cup ConfTask) : Handle(w, "create", t, "newTask")
      BY <1>4, Zenon DEF CreateTunnel
    <2>2. /\ proc'[w].pc = "newTask" /\ proc'[w].op = "create" /\ proc'[w].task = t
          /\ \A q \in Procs \ {w} : proc'[q] = proc[q]
      BY <1>1, <2>1, HandleMakes, Zenon
    <2>3. ASSUME EntryOK(t), RestOK(t) PROVE EntryOK(t)' /\ WorkOK(t, proc[w])'
      <3>1. ~HasEntry(t) /\ t \notin tasks
        BY <2>3, NotMade, Zenon
      <3>2. EntryOK(t)' /\ RestOK(t)' /\ ~HasEntry(t)'
        BY <1>3, <2>3, <3>1, TaskFrame, Zenon
      <3> QED
        BY <1>2, <2>2, <3>1, <3>2, ZenonT(30) DEF WorkOK, RestOK
    <2>4. "newTask" \in BusyPC
      BY Zenon DEF BusyPC
    <2> QED
      BY <1>1, <1>3, <2>2, <2>3, <2>4, Entered, Zenon
  <1>5. CASE TunnelRequest(w)
    <2>1. PICK t \in tasks :
             \/ Handle(w, "update", t, "edit") \/ Handle(w, "start", t, "startGet")
             \/ Handle(w, "stop", t, "stopGet") \/ Handle(w, "delete", t, "delLoad")
      BY <1>5, Zenon DEF TunnelRequest
    <2>2. PICK op, pc : /\ Handle(w, op, t, pc)
                        /\ pc \in {"edit", "startGet", "stopGet", "delLoad"}
                        /\ pc = "edit" => op = "update"
                        /\ pc = "startGet" => op # "create"
                        /\ pc = "stopGet" => op = "stop"
      BY <2>1
    <2>3. /\ proc'[w].pc = pc /\ proc'[w].op = op /\ proc'[w].task = t
          /\ \A q \in Procs \ {w} : proc'[q] = proc[q]
      BY <1>1, <2>2, HandleMakes, Zenon
    <2>4. t \in Task /\ pc \in BusyPC
      BY <2>2, Zenon DEF TypeOK, BusyPC
    <2>5. ASSUME EntryOK(t), RestOK(t) PROVE EntryOK(t)' /\ WorkOK(t, proc[w])'
      <3>1. EntryOK(t)' /\ RestOK(t)'
        BY <1>3, <2>4, <2>5, TaskFrame, Zenon
      <3> QED
        BY <1>2, <2>2, <2>3, <3>1, ZenonT(30) DEF WorkOK, RestOK
    <2> QED
      BY <1>1, <1>3, <2>3, <2>4, <2>5, Entered, ZenonT(30)
  <1> QED
    BY <1>4, <1>5, Zenon

LEMMA DealSettles ==
    ASSUME TypeOK, TypeOK', SettledInv, Race, DealOpen
    PROVE  SettledInv'
  <1> USE DEF At
  <1>1. deal \in Procs /\ proc[deal].pc = "idle" /\ openTask \in Seq(made) /\ openTask # <<>>
    BY ZenonT(30) DEF Procs, DealOpen, TypeOK
  <1>2. PICK t \in Task : t = Head(openTask)
    BY <1>1 DEF TypeOK
  <1>3. /\ proc'[deal].pc = "stopGet" /\ proc'[deal].op = "open" /\ proc'[deal].task = t
        /\ \A q \in Procs \ {deal} : proc'[q] = proc[q]
    BY <1>1, <1>2, HandleMakes DEF DealOpen
  <1>4. UNCHANGED <<srv, runList, tasks, status, port, cnf>> /\ openTask' = Tail(openTask)
    BY Zenon DEF DealOpen, db
  <1>5. \A u \in Task \ {t} : Pending(u) => Pending(u)'
    <2> SUFFICES ASSUME NEW u \in Task \ {t}, NEW i \in DOMAIN openTask, openTask[i] = u
                 PROVE  \E j \in DOMAIN openTask' : openTask'[j] = u
      BY <1>4, Zenon DEF Pending
    <2>1. i \in 1..Len(openTask) /\ i # 1
      BY <1>1, <1>2
    <2>2. i - 1 \in DOMAIN openTask' /\ openTask'[i - 1] = openTask[i]
      BY <1>1, <1>4, <2>1
    <2> QED
      BY <2>2, Zenon
  <1>6. \A u : Of(u)' = Of(u) /\ \A s \in Of(u) : srv'[s] = srv[s]
    BY <1>4, Zenon DEF Of, Servers
  <1>7. \A u \in Task \ {t} : SameTask(u)
    BY <1>4, <1>5, <1>6, Zenon DEF SameTask
  <1>8. ASSUME EntryOK(t), RestOK(t) PROVE EntryOK(t)' /\ WorkOK(t, proc[deal])'
    <2>1. EntryOK(t)' /\ LiveEntry(t)' /\ RightPort(t)' /\ (HasEntry(t)' => HasEntry(t))
      BY <1>4, <1>6, <1>8, Zenon
      DEF EntryOK, RestOK, LiveEntry, RightPort, HasEntry, NoEntry, NilService
    <2>2. HasEntry(t)' => Stored(t)'
      BY <1>4, <1>8, <2>1, Zenon DEF RestOK, Stored
    <2> QED
      BY <1>3, <2>1, <2>2, ZenonT(30) DEF WorkOK
  <1>9. "stopGet" \in BusyPC
    BY Zenon DEF BusyPC
  <1> QED
    BY <1>1, <1>3, <1>7, <1>8, <1>9, Entered, ZenonT(30)

LEMMA SweepSettles ==
    ASSUME TypeOK, TypeOK', SettledInv, Race, NEW p \in Procs, Collect(p) \/ DelNext(p)
    PROVE  SettledInv'
  <1> USE DEF At
  <1>1. UNCHANGED <<srv, runList, tasks, status, port, cnf, openTask>>
    BY ZenonT(30) DEF Collect, DelNext, db, bridge
  <1>2. \A u \in Task : SameTask(u)
    BY <1>1, SameIfKept, Zenon
  <1>3. proc[p] \in GoroutineRec(made) /\ p \in DOMAIN proc
    BY Zenon DEF TypeOK, GoroutineRec
  <1>4. CASE Collect(p)
    <2>1. proc[p].pc = "collect" /\ proc'[p].pc = "next" /\ \A q \in Procs \ {p} : proc'[q] = proc[q]
      BY <1>3, <1>4, Zenon DEF Collect, TypeOK
    <2>2. proc[p].pc \in FreePC /\ proc'[p].pc \in FreePC /\ proc'[p].pc # "collect"
      BY <2>1, Zenon DEF FreePC
    <2> QED
      BY <1>2, <2>1, <2>2, Unconcerned, Zenon
  <1>5. CASE DelNext(p) /\ proc[p].todo = {}
    <2> DEFINE pc == Finish(p)
    <2>1. Goto(p, pc) /\ pc \in FreePC /\ pc # "collect" /\ proc[p].pc \in FreePC
      BY <1>5, Continuations, Zenon DEF DelNext, FreePC
    <2> HIDE DEF pc
    <2>2. proc'[p].pc = pc /\ \A q \in Procs \ {p} : proc'[q] = proc[q]
      BY <2>1, GotoKeeps, Zenon
    <2> QED
      BY <1>2, <2>1, <2>2, Unconcerned, Zenon
  <1>6. CASE DelNext(p) /\ proc[p].todo # {}
    <2>1. PICK t \in proc[p].todo :
             proc' = [proc EXCEPT ![p].pc = "delLoad", ![p].task = t, ![p].todo = @ \ {t}]
      BY <1>6, ZenonT(30) DEF DelNext
    <2>2. /\ proc'[p].pc = "delLoad" /\ proc'[p].op = proc[p].op /\ proc'[p].task = t
          /\ \A q \in Procs \ {p} : proc'[q] = proc[q]
      BY <1>3, <2>1, ZenonT(30) DEF TypeOK
    <2>3. t \in Task /\ proc[p].pc = "next" /\ "delLoad" \in BusyPC
      BY <1>3, <1>6, <2>1, ZenonT(30) DEF TypeOK, GoroutineRec, DelNext, BusyPC
    <2>4. ASSUME EntryOK(t), RestOK(t) PROVE EntryOK(t)' /\ WorkOK(t, proc[p])'
      <3>1. EntryOK(t)' /\ RestOK(t)'
        BY <1>2, <2>3, <2>4, TaskFrame, ZenonT(30)
      <3> QED
        BY <2>2, <3>1, ZenonT(30) DEF WorkOK, RestOK
    <2> QED
      BY <1>2, <2>2, <2>3, <2>4, Entered, Zenon
  <1> QED
    BY <1>4, <1>5, <1>6, Zenon

\* The client is deleted, or DealBridgeTask takes the signal.
LEMMA ClientSettles ==
    ASSUME TypeOK, TypeOK', SettledInv, Race, NEW p \in Procs,
           (p \in Web /\ DeleteClient(p)) \/ (p = deal /\ DealClose)
    PROVE  SettledInv'
  <1> USE DEF At
  <1>1. UNCHANGED <<srv, runList, tasks, status, port, cnf, openTask>>
    BY Zenon DEF DeleteClient, DealClose, db, bridge
  <1>2. \A u \in Task : SameTask(u)
    BY <1>1, SameIfKept, Zenon
  <1>3. PICK op : Handle(p, op, 0, "collect")
    BY Zenon DEF DeleteClient, DealClose
  <1>4. proc[p].pc \in FreePC /\ "collect" \in FreePC
    BY Zenon DEF DeleteClient, DealClose, Asked, FreePC
  <1>5. /\ proc'[p].pc = "collect" /\ proc'[p].task = 0
        /\ \A q \in Procs \ {p} : proc'[q] = proc[q]
    BY <1>3, HandleMakes
  <1> QED
    BY <1>2, <1>4, <1>5, Unconcerned, Zenon

\* npc's requests and its end leave the goroutines and the servers alone.
LEMMA ConfSettles ==
    ASSUME TypeOK, TypeOK', SettledInv, Race, Conf \/ NpcGone
    PROVE  SettledInv'
  <1>1. UNCHANGED <<srv, runList, proc>>
    BY Zenon DEF Conf, NpcGone, ConfHasTunnel, ConfNewTask, ConfTest, ConfSend
  <1>2. \A u : SameWorkers(u)
    BY <1>1, Zenon DEF SameWorkers, Working
  <1>3. \A u : Of(u)' = Of(u) /\ \A s \in Of(u) : srv'[s] = srv[s]
    BY <1>1, Zenon DEF Of, Servers
  <1>4. \A q \in Procs : proc'[q].pc = "collect" => proc'[q].task = 0
    BY <1>1, Zenon DEF SettledInv
  <1>5. cnf = [pc |-> cnf.pc, todo |-> cnf.todo, task |-> cnf.task] /\ openTask \in Seq(made)
    BY Zenon DEF TypeOK
  <1>6. CASE ~ConfNewTask
    <2>1. UNCHANGED <<tasks, status, port>>
      BY <1>6, Zenon DEF Conf, NpcGone, ConfHasTunnel, ConfTest, ConfSend, db
    <2>2. \A u : Pending(u) => Pending(u)'
      <3>1. CASE ConfHasTunnel
        BY <3>1, Zenon DEF ConfHasTunnel, Pending
      <3>2. CASE ConfTest
        <4>1. cnf'.pc \in {"send", "end"} /\ cnf'.task = cnf.task /\ openTask' = openTask
          BY <1>5, <3>2, Zenon DEF ConfTest
        <4> QED
          BY <4>1, Zenon DEF Pending
      <3>3. CASE ConfSend
        <4>1. openTask' = Append(openTask, cnf.task) /\ cnf.task \in made
          BY <3>3, Zenon DEF ConfSend, TypeOK
        <4>2. /\ Len(openTask) + 1 \in DOMAIN openTask' /\ openTask'[Len(openTask) + 1] = cnf.task
              /\ \A i \in DOMAIN openTask : i \in DOMAIN openTask' /\ openTask'[i] = openTask[i]
          BY <1>5, <4>1
        <4> QED
          BY <4>2, Zenon DEF Pending
      <3>4. CASE NpcGone
        BY <3>4, Zenon DEF NpcGone, Pending
      <3> QED
        BY <1>6, <3>1, <3>2, <3>3, <3>4, Zenon DEF Conf
    <2>3. \A u : SameTask(u)
      BY <1>1, <1>3, <2>1, <2>2, Zenon DEF SameTask
    <2>4. 0 \notin Task
      BY TaskManagerAssumption, Zenon
    <2> QED
      BY <1>2, <1>4, <2>3, <2>4, OneTask, Zenon
  <1>7. CASE ConfNewTask
    <2>1. PICK t \in ConfTask \ made :
             /\ tasks' = tasks \cup {t}
             /\ status' = [status EXCEPT ![t] = TRUE]
             /\ port' = [port EXCEPT ![t] = Head(cnf.todo)]
             /\ cnf' = [pc |-> "test", todo |-> Tail(cnf.todo), task |-> t]
      BY <1>7, ZenonT(30) DEF ConfNewTask
    <2>2. t \in Task /\ openTask' = openTask /\ cnf.pc = "read"
      BY <1>7, TaskManagerAssumption, ZenonT(30) DEF ConfNewTask
    <2>3. \A u : Pending(u) => Pending(u)'
      BY <2>2, Zenon DEF Pending
    <2>4. \A u \in Task \ {t} : SameTask(u)
      BY <1>1, <1>3, <2>1, <2>2, <2>3, ZenonT(30) DEF SameTask, TypeOK
    <2>5. ASSUME TaskOK(t)
          PROVE  /\ EntryOK(t)'
                 /\ Working(t)' = {} => RestOK(t)'
                 /\ \A q \in Working(t)' : WorkOK(t, proc[q])'
      <3>1. Working(t) = {}
        <4> SUFFICES ASSUME NEW q \in Working(t) PROVE FALSE
          BY Zenon
        <4>1. q \in Procs /\ proc[q].task = t /\ proc[q].pc \notin {"idle", "done", "next"}
          BY Zenon DEF Working
        <4>2. proc[q].pc = "collect"
          BY <4>1, Zenon DEF TypeOK, FreePC
        <4> QED
          BY <2>2, <4>1, <4>2, TaskManagerAssumption, ZenonT(30) DEF SettledInv
      <3>2. EntryOK(t) /\ RestOK(t) /\ ~HasEntry(t)
        BY <2>2, <2>5, <3>1, NotMade, Zenon DEF TaskOK
      <3>3. \A z \in Of(t) : srv[z].pc \notin {"new", "listening", "failed"}
        BY <3>2, ServerTypes, Zenon DEF EntryOK, HasEntry, Of
      <3>4. EntryOK(t)' /\ ~HasEntry(t)' /\ LiveEntry(t)' /\ RightPort(t)'
        BY <1>1, <1>3, <3>2, <3>3, ZenonT(30) DEF EntryOK, HasEntry, LiveEntry, RightPort, NoEntry, NilService
      <3>5. Pending(t)'
        BY <2>1, Zenon DEF Pending
      <3>6. RestOK(t)' /\ Working(t)' = {}
        BY <1>1, <3>1, <3>4, <3>5, ZenonT(30) DEF RestOK, Excused, Working
      <3> QED
        BY <3>4, <3>6, Zenon
    <2> QED
      BY <1>2, <1>4, <2>4, <2>5, OneTask, Zenon
  <1> QED
    BY <1>6, <1>7, Zenon

------------------------------------------------------------------------------
(* Whose the servers are *)

\* Steps after which every server and every entry still belong to their task.
LEMMA OwnedKept ==
    ASSUME TypeOK, TypeOK', Owned,
           Servers \subseteq Servers', \A z \in Servers : srv'[z].task = srv[z].task,
           \A t \in Task : \/ runList'[t] \in {runList[t], NoEntry}
                           \/ runList'[t] \in Servers' => srv'[runList'[t]].task = t,
           \A q \in Procs : proc'[q].pc = "stopClose" =>
              \/ proc'[q] = proc[q]
              \/ proc'[q].task \in Task /\ proc'[q].svr = runList[proc'[q].task]
    PROVE  Owned'
  <1>0. PICK S : srv' \in Seq(S)
    BY ZenonT(30) DEF TypeOK
  <1>1. NoEntry \notin Servers' /\ NilService \notin Servers'
    BY <1>0 DEF Servers, NoEntry, NilService
  <1>2. \A e \in Entry : e \in Servers' => e \in Servers
    BY <1>1, Zenon DEF Entry
  <1>3. \A t \in Task : runList[t] \in Entry
    BY ZenonT(30) DEF TypeOK
  <1>4. \A t \in Task : runList'[t] \in Servers' => srv'[runList'[t]].task = t
    BY <1>1, <1>2, <1>3 DEF Owned
  <1>5. ASSUME NEW q \in Procs, proc'[q].pc = "stopClose", proc'[q].svr \in Servers'
        PROVE  srv'[proc'[q].svr].task = proc'[q].task
    <2>1. CASE proc'[q] = proc[q]
      <3>1. proc[q].svr \in Entry
        BY ZenonT(30) DEF TypeOK
      <3> QED
        BY <1>2, <1>5, <2>1, <3>1 DEF Owned
    <2>2. CASE proc'[q].task \in Task /\ proc'[q].svr = runList[proc'[q].task]
      BY <1>2, <1>3, <1>5, <2>2, ZenonT(30) DEF Owned
    <2> QED
      BY <1>5, <2>1, <2>2, Zenon
  <1> QED
    BY <1>4, <1>5, ZenonT(30) DEF Owned

\* Only RunList.Load gives a goroutine a server to close.
LEMMA LoadsOnce ==
    ASSUME TypeOK, Action, NEW q \in Procs, proc'[q].pc = "stopClose"
    PROVE  \/ proc'[q] = proc[q]
           \/ proc'[q].task \in Task /\ proc'[q].svr = runList[proc'[q].task]
  <1> USE DEF At
  <1>1. CASE UNCHANGED proc
    BY <1>1, Zenon
  <1>2. ASSUME NEW p \in Procs, NEW pc \in SafePC, Goto(p, pc)
        PROVE  proc'[q] = proc[q]
    <2>1. pc \in BusyPC \cup FreePC /\ pc # "stopClose"
      BY Zenon DEF SafePC, BusyPC, FreePC
    <2> QED
      BY <1>2, <2>1, GotoKeeps, Zenon
  <1>3. ASSUME NEW p \in Procs, NEW op, NEW t, NEW pc, pc # "stopClose", Handle(p, op, t, pc)
        PROVE  proc'[q] = proc[q]
    BY <1>3, HandleMakes, Zenon
  <1>4. ASSUME NEW p \in Procs, Step(p), ~StopLoad(p)
        PROVE  proc'[q] = proc[q]
    <2>1. /\ AfterStop(p, TRUE) \in SafePC /\ AfterStop(p, FALSE) \in SafePC
          /\ Finish(p) \in SafePC /\ AfterDel(p) \in SafePC
          /\ {"stopUpdate", "stopLoad", "stopGet", "add", "startUpdate", "dbDel"} \subseteq SafePC
      BY Continuations, ZenonT(30) DEF SafePC, BusyPC, FreePC
    <2>2. CASE StopGet(p) \/ StopUpdate(p) \/ StartGet(p) \/ Add(p) \/ StartUpdate(p)
      <3>1. PICK pc \in SafePC : Goto(p, pc)
        BY <2>1, <2>2, ZenonT(30) DEF StopGet, StopUpdate, StartGet, Add, StartUpdate
      <3> QED
        BY <1>2, <3>1, Zenon
    <2>3. CASE StopDelete(p) \/ DelLoad(p) \/ DbDel(p) \/ NewTask(p) \/ EditTunnel(p)
      <3>1. PICK pc \in SafePC : Goto(p, pc)
        BY <2>1, <2>3, ZenonT(30) DEF StopDelete, DelLoad, DbDel, NewTask, EditTunnel
      <3> QED
        BY <1>2, <3>1, Zenon
    <2>4. CASE StopClose(p)
      <3>1. PICK pc \in SafePC \cup {"stopDelete"} : Goto(p, pc)
        BY <2>1, <2>4, ZenonT(30) DEF StopClose
      <3>2. pc \in BusyPC \cup FreePC /\ pc # "stopClose"
        BY Zenon DEF SafePC, BusyPC, FreePC
      <3> QED
        BY <3>1, <3>2, GotoKeeps, Zenon
    <2>5. CASE Collect(p)
      <3>1. proc'[p].pc = "next" /\ \A v \in Procs \ {p} : proc'[v] = proc[v]
        BY <2>5, Zenon DEF Collect, TypeOK
      <3> QED
        BY <3>1, Zenon
    <2>6. CASE DelNext(p) /\ proc[p].todo = {}
      <3>1. PICK pc \in SafePC : Goto(p, pc)
        BY <2>1, <2>6, Zenon DEF DelNext
      <3> QED
        BY <1>2, <3>1, Zenon
    <2>7. CASE DelNext(p) /\ proc[p].todo # {}
      <3>1. PICK t \in proc[p].todo :
               proc' = [proc EXCEPT ![p].pc = "delLoad", ![p].task = t, ![p].todo = @ \ {t}]
        BY <2>7, ZenonT(30) DEF DelNext
      <3>2. proc'[p].pc = "delLoad" /\ \A v \in Procs \ {p} : proc'[v] = proc[v]
        BY <3>1, Zenon DEF TypeOK
      <3> QED
        BY <3>2, Zenon
    <2> QED
      BY <1>4, <2>2, <2>3, <2>4, <2>5, <2>6, <2>7, ZenonT(30) DEF Step
  <1>5. ASSUME NEW p \in Procs, StopLoad(p)
        PROVE  \/ proc'[q] = proc[q]
               \/ proc'[q].task \in Task /\ proc'[q].svr = runList[proc'[q].task]
    <2>1. proc[p].task \in Task
      BY <1>5, Zenon DEF StopLoad, TypeOK, BusyPC
    <2>2. CASE runList[proc[p].task] = NoEntry
      <3>1. Goto(p, AfterStop(p, FALSE)) /\ AfterStop(p, FALSE) \in SafePC
        BY <1>5, <2>2, Continuations, ZenonT(30) DEF StopLoad, SafePC, BusyPC, FreePC
      <3> QED
        BY <1>2, <3>1, ZenonT(30)
    <2>3. CASE runList[proc[p].task] # NoEntry
      <3>1. proc' = [proc EXCEPT ![p].pc = "stopClose", ![p].svr = runList[proc[p].task]]
        BY <1>5, <2>3, Zenon DEF StopLoad
      <3>2. /\ proc'[p].task = proc[p].task /\ proc'[p].svr = runList[proc[p].task]
            /\ \A v \in Procs \ {p} : proc'[v] = proc[v]
        BY <3>1, Zenon DEF TypeOK
      <3> QED
        BY <2>1, <3>2, Zenon
    <2> QED
      BY <2>2, <2>3, Zenon
  <1>6. ASSUME NEW w \in Web, Request(w)
        PROVE  proc'[q] = proc[q]
    <2>1. w \in Procs
      BY Zenon DEF Procs
    <2>2. PICK op, t, pc : pc # "stopClose" /\ Handle(w, op, t, pc)
      BY <1>6, Zenon DEF Request, CreateTunnel, TunnelRequest, DeleteClient
    <2> QED
      BY <1>3, <2>1, <2>2, Zenon
  <1>7. CASE Deal
    <2>1. deal \in Procs
      BY Zenon DEF Procs
    <2>2. PICK op, t, pc : pc # "stopClose" /\ Handle(deal, op, t, pc)
      BY <1>7, ZenonT(30) DEF Deal, DealOpen, DealClose
    <2> QED
      BY <1>3, <2>1, <2>2, Zenon
  <1>8. CASE Conf \/ NpcGone \/ \E s \in Servers : Start(s) \/ StartFailed(s)
    BY <1>8, ZenonT(30) DEF Conf, NpcGone, ConfHasTunnel, ConfNewTask, ConfTest, ConfSend, Start, StartFailed
  <1> QED
    BY <1>4, <1>5, <1>6, <1>7, <1>8, Zenon DEF Action

\* Every step is one of them.
LEMMA OwnedStep ==
    ASSUME TypeOK, TypeOK', Owned, Action
    PROVE  Owned'
  <1> USE DEF At
  <1> DEFINE Kept == /\ Servers \subseteq Servers'
                     /\ \A z \in Servers : srv'[z].task = srv[z].task
                     /\ \A t \in Task : \/ runList'[t] \in {runList[t], NoEntry}
                                        \/ runList'[t] \in Servers' => srv'[runList'[t]].task = t
  <1>1. srv \in Seq(ServerRec)
    BY Zenon DEF TypeOK, ServerRec
  <1>2. ASSUME UNCHANGED <<srv, runList>> PROVE Kept
    BY <1>2, Zenon DEF Servers
  <1>3. ASSUME NEW p \in Procs, StopDelete(p) PROVE Kept
    <2>1. srv' = srv /\ runList' = [runList EXCEPT ![proc[p].task] = NoEntry]
      BY <1>3, Zenon DEF StopDelete, Delete
    <2> QED
      BY <2>1, ZenonT(30) DEF Servers, TypeOK
  <1>4. ASSUME NEW p \in Procs, StopClose(p) PROVE Kept
    <2>1. CASE srv' = srv
      BY <1>4, <2>1, Zenon DEF StopClose, Servers
    <2>2. CASE srv' # srv
      <3>1. srv' = [srv EXCEPT ![proc[p].svr].pc = "closed"] /\ runList' = runList
        BY <1>4, <2>2, Zenon DEF StopClose
      <3>2. "closed" \in ServerPC /\ proc[p].svr \in Servers
        BY <1>1, <2>2, <3>1 DEF ServerPC, Servers
      <3> QED
        BY <1>1, <3>1, <3>2, ServerMoves, ZenonT(30)
    <2> QED
      BY <2>1, <2>2, Zenon
  <1>5. ASSUME NEW p \in Procs, Add(p) PROVE Kept
    <2>1. PICK t \in Task : proc[p].task = t
      BY <1>5, Zenon DEF Add, TypeOK, BusyPC
    <2>2. CASE ~TestServerPort(t)
      BY <1>5, <2>1, <2>2, Zenon DEF Add, Servers
    <2>3. CASE TestServerPort(t) /\ t \in SecretTask
      <3>1. srv' = srv /\ runList' = [runList EXCEPT ![t] = NilService]
        BY <1>5, <2>1, <2>3, ZenonT(30) DEF Add
      <3>2. NilService \notin Servers'
        BY <1>1, <3>1 DEF Servers, NilService
      <3> QED
        BY <3>1, <3>2, ZenonT(30) DEF Servers, TypeOK
    <2>4. CASE TestServerPort(t) /\ t \notin SecretTask
      <3>1. /\ srv' = Append(srv, NewServer(t))
            /\ runList' = [runList EXCEPT ![t] = Len(srv) + 1]
        BY <1>5, <2>1, <2>4, ZenonT(30) DEF Add
      <3>2. NewServer(t) \in ServerRec /\ NewServer(t).task = t
        BY Zenon DEF NewServer, ServerRec, ServerPC
      <3>3. /\ Servers \subseteq Servers' /\ \A z \in Servers : srv'[z] = srv[z]
            /\ srv'[Len(srv) + 1] = NewServer(t)
        BY <1>1, <3>1, <3>2 DEF Servers
      <3> QED
        BY <3>1, <3>2, <3>3, ZenonT(30) DEF TypeOK
    <2> QED
      BY <2>2, <2>3, <2>4, Zenon
  <1>6. ASSUME NEW s \in Servers, Start(s) \/ StartFailed(s) PROVE Kept
    <2>1. /\ Servers' = Servers
          /\ \A z \in Servers : srv'[z].task = srv[z].task
      <3>1. srv[s] \in ServerRec
        BY <1>1 DEF Servers
      <3>2. PICK x : srv' = [srv EXCEPT ![s] = x] /\ x.task = srv[s].task
        BY <1>6, <3>1 DEF Start, StartFailed, ServerRec
      <3> QED
        BY <1>1, <3>2, Zenon DEF Servers
    <2>2. CASE Start(s)
      BY <2>1, <2>2, ZenonT(30) DEF Start
    <2>3. CASE StartFailed(s)
      BY <2>1, <2>3, Zenon DEF StartFailed, Delete, TypeOK
    <2> QED
      BY <1>6, <2>1, <2>2, <2>3, ZenonT(30)
  <1>7. Kept
    <2>1. ASSUME NEW p \in Procs, Step(p) PROVE Kept
      <3>1. CASE StopDelete(p) \/ StopClose(p) \/ Add(p)
        BY <1>3, <1>4, <1>5, <3>1, Zenon
      <3>2. CASE ~(StopDelete(p) \/ StopClose(p) \/ Add(p))
        <4>1. UNCHANGED <<srv, runList>>
          BY <2>1, <3>2, ZenonT(30)
          DEF Step, StopGet, StopUpdate, StopLoad, StartGet, StartUpdate, DelLoad, DbDel, Collect,
              DelNext, NewTask, EditTunnel
        <4> QED
          BY <1>2, <4>1, Zenon
      <3> QED
        BY <3>1, <3>2, Zenon
    <2>2. ASSUME NEW w \in Web, Request(w) PROVE Kept
      <3>1. UNCHANGED <<srv, runList>>
        BY <2>2, Zenon DEF Request, CreateTunnel, TunnelRequest, DeleteClient
      <3> QED
        BY <1>2, <3>1, Zenon
    <2>3. CASE Conf \/ Deal \/ NpcGone
      <3>1. UNCHANGED <<srv, runList>>
        BY <2>3, Zenon
        DEF Conf, Deal, NpcGone, ConfHasTunnel, ConfNewTask, ConfTest, ConfSend, DealOpen, DealClose
      <3> QED
        BY <1>2, <3>1, Zenon
    <2> HIDE DEF Kept
    <2> QED
      BY <1>6, <2>1, <2>2, <2>3, Zenon DEF Action
  <1> QED
    BY <1>7, LoadsOnce, OwnedKept, Zenon

------------------------------------------------------------------------------

\* The inductive invariant.
SInv == IInv /\ Owned /\ SettledInv

\* Every step keeps it.
LEMMA NextSettled ==
    ASSUME SInv, [Next]_vars
    PROVE  SInv'
  <1>1. IInv /\ IInv' /\ TypeOK /\ TypeOK'
    BY NextInv, Zenon DEF SInv, IInv
  <1>2. CASE Next
    <2>1. Owned'
      BY <1>1, <1>2, OwnedStep, Zenon DEF SInv, Next
    <2>2. Owned /\ SettledInv /\ Race
      BY <1>2, Zenon DEF SInv, Next
    <2>3. ASSUME NEW p \in Procs, Step(p) PROVE SettledInv'
      <3>1. CASE StopSteps(p)
        BY <1>1, <2>2, <3>1, StopServerSettles, Zenon
      <3>2. CASE StopClose(p)
        BY <1>1, <2>2, <3>2, StopCloseSettles, Zenon
      <3>3. CASE StopDelete(p)
        BY <1>1, <2>2, <3>3, StopDeleteSettles, Zenon
      <3>4. CASE StartGet(p)
        BY <1>1, <2>2, <3>4, StartGetSettles, Zenon
      <3>5. CASE Add(p)
        BY <1>1, <2>2, <3>5, AddSettles, Zenon
      <3>6. CASE StartUpdate(p)
        BY <1>1, <2>2, <3>6, StartUpdateSettles, Zenon
      <3>7. CASE DelLoad(p) \/ DbDel(p)
        BY <1>1, <2>2, <3>7, DelSettles, Zenon
      <3>8. CASE Collect(p) \/ DelNext(p)
        BY <1>1, <2>2, <3>8, SweepSettles, Zenon
      <3>9. CASE NewTask(p) \/ EditTunnel(p)
        BY <1>1, <2>2, <3>9, HandlerSettles, Zenon
      <3> QED
        BY <2>3, <3>1, <3>2, <3>3, <3>4, <3>5, <3>6, <3>7, <3>8, <3>9, Zenon DEF Step, StopSteps
    <2>4. ASSUME NEW w \in Web, Request(w) PROVE SettledInv'
      <3>1. w \in Procs
        BY Zenon DEF Procs
      <3>2. CASE DeleteClient(w)
        <4>1. (w \in Web /\ DeleteClient(w)) \/ (w = deal /\ DealClose)
          BY <3>2, Zenon
        <4> QED
          BY <1>1, <2>2, <3>1, <4>1, ClientSettles, Zenon
      <3>3. CASE CreateTunnel(w) \/ TunnelRequest(w)
        BY <1>1, <2>2, <3>3, RequestSettles, Zenon
      <3> QED
        BY <2>4, <3>2, <3>3, Zenon DEF Request
    <2>5. ASSUME NEW s \in Servers, Start(s) \/ StartFailed(s) PROVE SettledInv'
      BY <1>1, <2>2, <2>5, ServerSettles, Zenon
    <2>6. ASSUME Conf \/ NpcGone PROVE SettledInv'
      BY <1>1, <2>2, <2>6, ConfSettles, Zenon
    <2>7. ASSUME Deal PROVE SettledInv'
      <3>1. deal \in Procs
        BY Zenon DEF Procs
      <3>2. CASE DealClose
        <4>1. (deal \in Web /\ DeleteClient(deal)) \/ (deal = deal /\ DealClose)
          BY <3>2, Zenon
        <4> QED
          BY <1>1, <2>2, <3>1, <4>1, ClientSettles, Zenon
      <3>3. CASE DealOpen
        BY <1>1, <2>2, <3>3, DealSettles, Zenon
      <3> QED
        BY <2>7, <3>2, <3>3, Zenon DEF Deal
    <2>8. SettledInv'
      BY <1>2, <2>3, <2>4, <2>5, <2>6, <2>7, Zenon DEF Next, Action
    <2> QED
      BY <1>1, <2>1, <2>8, Zenon DEF SInv
  <1>3. CASE UNCHANGED vars
    <2>1. UNCHANGED <<tasks, status, port, cnf, openTask, runList, srv, proc, raced>>
      BY <1>3, Zenon DEF vars, db, bridge
    <2>2. Owned'
      BY <2>1, Zenon DEF SInv, Owned, Servers
    <2>3. \A u : SameTask(u) /\ SameWorkers(u)
      BY <2>1, Zenon DEF SameTask, SameWorkers, Of, Servers, Pending, Working
    <2>4. ASSUME NEW t \in Task, t \notin raced' PROVE TaskOK(t)'
      <3>1. TaskOK(t)
        BY <2>1, <2>4, Zenon DEF SInv, SettledInv
      <3>2. ~Overlap(t)'
        BY <2>1, <3>1, ZenonT(30) DEF TaskOK, Overlap, Working, Starting, Servers
      <3>3. EntryOK(t)' /\ (RestOK(t) => RestOK(t)')
        BY <2>3, <3>1, TaskFrame, Zenon DEF TaskOK
      <3>4. ASSUME NEW q \in Working(t) PROVE WorkOK(t, proc[q])'
        BY <2>1, <2>3, <3>1, WorkerFrame, Zenon DEF TaskOK
      <3> QED
        BY <2>3, <3>1, <3>2, <3>3, <3>4, ZenonT(30) DEF TaskOK, SameWorkers
    <2>5. SettledInv'
      BY <2>1, <2>4, Zenon DEF SInv, SettledInv
    <2> QED
      BY <1>1, <2>2, <2>5, Zenon DEF SInv
  <1> QED
    BY <1>2, <1>3, Zenon

\* What a sequence is.
LEMMA SequenceOf == ASSUME NEW S, NEW q \in Seq(S)
                    PROVE  DOMAIN q = 1..Len(q) /\ Len(q) \in Nat /\ (\A i \in DOMAIN q : q[i] \in S) /\ 0 \notin DOMAIN q
  OBVIOUS

\* It holds when nps has started its tasks.
LEMMA InitSettled == Init => SInv
  <1> SUFFICES ASSUME Init PROVE Owned /\ SettledInv
    BY InitInv, Zenon DEF SInv
  <1>1. PICK s \in Setups :
          /\ made = {s.running[i] : i \in DOMAIN s.running} \cup s.stopped
          /\ tasks = made
          /\ status = [t \in Task |-> t \in made \ s.stopped]
          /\ port = s.port
          /\ srv = [i \in DOMAIN s.running |->
                      [task |-> s.running[i], pc |-> "listening", port |-> s.port[s.running[i]]]]
          /\ runList = [t \in Task |-> IF \E i \in DOMAIN s.running : s.running[i] = t
                                       THEN CHOOSE i \in DOMAIN s.running : s.running[i] = t
                                       ELSE NoEntry]
          /\ proc = [p \in Procs |-> Goroutine("idle", "", 0)]
    BY ZenonT(30) DEF Init
  <1> DEFINE run == s.running
  <1>2. /\ run \in Seq(Task)
        /\ \A i, j \in DOMAIN run : run[i] = run[j] => i = j
        /\ \A i \in DOMAIN run : run[i] \notin s.stopped \cup SecretTask
    BY TaskManagerAssumption, Zenon
  <1>3. NoEntry \notin DOMAIN run /\ \A i \in DOMAIN run : run[i] \in Task
    BY <1>2, SequenceOf, Zenon DEF NoEntry
  <1>4. srv = [i \in DOMAIN run |->
                 [task |-> run[i], pc |-> "listening", port |-> port[run[i]]]]
    BY <1>1, ZenonT(30)
  <1>5. \A t \in Task :
           \/ runList[t] \in DOMAIN run /\ run[runList[t]] = t
           \/ runList[t] = NoEntry /\ \A i \in DOMAIN run : run[i] # t
    BY <1>1, ZenonT(30)
  <1>6. /\ \A i \in DOMAIN run : run[i] \in tasks /\ status[run[i]]
        /\ \A t \in tasks : t \in Task /\ status[t] => \E i \in DOMAIN run : run[i] = t
    BY <1>1, <1>2, <1>3, ZenonT(30)
  <1> HIDE DEF run
  <1>7. /\ Servers = DOMAIN run
        /\ \A i \in Servers : srv[i].task = run[i] /\ srv[i].pc = "listening" /\ srv[i].port = port[run[i]]
    BY <1>4, Zenon DEF Servers
  <1>8. \A p \in Procs : proc[p].pc = "idle"
    BY <1>1, ZenonT(30) DEF Goroutine
  <1>9. Owned
    <2>1. \A t \in Task : runList[t] \in Servers => srv[runList[t]].task = t
      <3> SUFFICES ASSUME NEW t \in Task, runList[t] \in Servers PROVE srv[runList[t]].task = t
        BY Zenon
      <3>1. runList[t] \in DOMAIN run /\ run[runList[t]] = t
        BY <1>3, <1>5, <1>7, Zenon
      <3> QED
        BY <1>7, <3>1, Zenon
    <2>2. \A p \in Procs : proc[p].pc # "stopClose"
      BY <1>8, Zenon
    <2> QED
      BY <2>1, <2>2, Zenon DEF Owned
  <1>10. ASSUME NEW t \in Task PROVE TaskOK(t)
    <2>1. Working(t) = {} /\ Starting(t) = {}
      BY <1>7, <1>8, Zenon DEF Working, Starting
    <2>2. NoEntry \notin Servers
      BY <1>3, <1>7, Zenon
    <2>3. \A i \in Of(t) : i \in DOMAIN run /\ run[i] = t /\ srv[i].pc = "listening" /\ srv[i].port = port[t]
      BY <1>7 DEF Of
    <2>4. \A i \in Of(t) : runList[t] = i /\ t \notin SecretTask
      BY <1>2, <1>5, <2>3
    <2>5. HasEntry(t) => runList[t] \in Of(t)
      BY <1>5, <1>7, Zenon DEF HasEntry, Of
    <2>6. Of(t) = {} => ~HasEntry(t)
      BY <2>5, Zenon
    <2>7. EntryOK(t)
      BY <2>4, <2>5, Zenon DEF EntryOK, HasEntry
    <2>8. HasEntry(t) <=> Stored(t)
      <3>1. HasEntry(t) => Stored(t)
        BY <1>6, <2>3, <2>5 DEF Stored
      <3>2. Stored(t) => HasEntry(t)
        <4> SUFFICES ASSUME Stored(t) PROVE HasEntry(t)
          BY Zenon
        <4>1. PICK i \in DOMAIN run : run[i] = t
          BY <1>6, Zenon DEF Stored
        <4>2. runList[t] \in DOMAIN run
          BY <1>5, <4>1, Zenon
        <4> QED
          BY <1>7, <2>2, <4>2, Zenon DEF HasEntry
      <3> QED
        BY <3>1, <3>2, Zenon
    <2>9. RestOK(t)
      BY <2>3, <2>5, <2>8, Zenon DEF RestOK, LiveEntry, RightPort, Excused
    <2> QED
      BY <2>1, <2>7, <2>9, ZenonT(30) DEF TaskOK, Overlap
  <1> QED
    BY <1>8, <1>9, <1>10, Zenon DEF SettledInv

\* Once nobody works, it says that what is served is what is stored.
LEMMA SettledWhenQuiet == SInv => SettledAgrees
  <1> SUFFICES ASSUME SInv, Quiet, NEW t \in Task \ (raced \cup SecretTask)
               PROVE  /\ Serving(t) = {runList[t]} \ {NoEntry}
                      /\ Serving(t) # {} => t \in tasks /\ status[t]
                      /\ t \in tasks /\ status[t] =>
                            \/ Serving(t) # {}
                            \/ \E s \in Servers : srv[s].task = t /\ srv[s].pc = "gone"
                            \/ cnf.pc = "end" /\ cnf.task = t
    BY Zenon DEF SettledAgrees
  <1>1. Working(t) = {} /\ Starting(t) = {}
    BY Zenon DEF Quiet, Working
  <1>2. EntryOK(t) /\ RestOK(t)
    BY <1>1, Zenon DEF SInv, SettledInv, TaskOK
  <1>3. \A s \in Of(t) : srv[s].pc \notin {"new", "failed"}
    BY <1>1, Zenon DEF Starting, Of
  <1>4. HasEntry(t) => runList[t] \in Of(t) /\ srv[runList[t]].pc = "listening"
    BY <1>2, <1>3, ZenonT(30) DEF EntryOK, RestOK, LiveEntry
  <1>5. \A s \in Serving(t) : s = runList[t] /\ s # NoEntry
    BY <1>2, ServerTypes, Zenon DEF EntryOK, Serving, Listening, Of, SInv, IInv
  <1>6. Serving(t) = {runList[t]} \ {NoEntry}
    BY <1>4, <1>5, Zenon DEF HasEntry, Serving, Listening, Of
  <1>7. Serving(t) # {} <=> HasEntry(t)
    BY <1>6, Zenon DEF HasEntry
  <1>8. Pending(t) => cnf.pc = "end" /\ cnf.task = t
    BY DEF Quiet, Pending
  <1> QED
    BY <1>2, <1>6, <1>7, <1>8, ZenonT(30) DEF RestOK, Stored, Excused, Gone, Of

\* A task that no two goroutines worked on at a time is served, once all is quiet, if and
\* only if it is stored with Status true and its port could be opened, by the one server
\* that RunList has for it, for any number of tasks and requests.
THEOREM QuietAgrees == Spec => []SettledAgrees
  BY InitSettled, NextSettled, SettledWhenQuiet, PTL DEF Spec

-----------------------------------------------------------------------------
(* The tasks of a client that is gone (ClientTakesTasks)                   *)

\* The labels of DelTask, the goroutines that delete the tasks of a client, and
\* whether handleDeleteClient was called.
DelPC == {"delLoad", "stopGet", "stopUpdate", "stopLoad", "stopClose", "stopDelete", "dbDel"}
Deletes(r) == r.op \in {"purge", "sweep"}

\* The loop of DelTunnelAndHostByClientId still has t before it, or in its hands.
Sweeps(r, t) == r.pc = "collect" \/ t \in r.todo \/ (r.pc \in DelPC /\ r.task = t)

Purged == \E w \in Web : proc[w].op = "purge"

\* Those that delete tasks do nothing else, and a handler is not used again.
OnlyDeletes ==
    /\ \A p \in Procs : Deletes(proc[p]) => proc[p].pc \in DelPC \cup FreePC
    /\ \A p \in Procs : proc[p].pc \in {"idle", "done"} => proc[p].todo = {}
    /\ \A w \in Web : proc[w].op = "purge" => proc[w].pc # "idle"
    /\ proc[deal].op # "purge"

\* The client is gone from the database or from the bridge only after handleDeleteClient
\* has begun or the signal was given.
ClientGone ==
    /\ ~client => Purged \/ ~up
    /\ closeClient # "none" => ~up
    /\ \A p \in Procs : proc[p].op = "sweep" => ~up
    /\ Purged => ~client

\* A task that should go is still ahead of a goroutine that deletes.
StillThere(t) ==
    /\ \A w \in Web : proc[w].op = "purge" => Sweeps(proc[w], t)
    /\ t \in ConfTask => \/ up \/ closeClient \in {"sent", "dropped"} \/ Purged
                         \/ proc[deal].op = "sweep" /\ Sweeps(proc[deal], t)

\* The invariant behind NothingOutlivesClient.
LeftInv ==
    /\ OnlyDeletes /\ ClientGone
    /\ \A t \in tasks \ (raced \cup late) : StillThere(t)

\* A step of an operation does not change which operation it is.
LEMMA StepKeepsOp ==
    ASSUME TypeOK, NEW p \in Procs, Step(p)
    PROVE  /\ proc'[p].op = proc[p].op
           /\ p \in Web => proc'[p].pc # "idle"
           /\ proc'[p].pc \in {"idle", "done"} => proc'[p].todo = {}
           /\ \A q \in Procs \ {p} : proc'[q] = proc[q]
  <1> USE DEF At
  <1>1. p \in Web => Finish(p) = "done"
    BY TaskManagerAssumption DEF Finish, Web, deal
  <1> DEFINE Ends(pc) == pc \in {"idle", "done"} => pc = Finish(p)
  <1>2. ASSUME NEW pc \in BusyPC \cup FreePC, Goto(p, pc), Ends(pc)
        PROVE  /\ proc'[p].op = proc[p].op
               /\ p \in Web => proc'[p].pc # "idle"
               /\ proc'[p].pc \in {"idle", "done"} => proc'[p].todo = {}
               /\ \A q \in Procs \ {p} : proc'[q] = proc[q]
    BY <1>1, <1>2, GotoKeeps, Zenon
  <1>3. /\ AfterStop(p, TRUE) \in BusyPC \cup FreePC /\ AfterStop(p, FALSE) \in BusyPC \cup FreePC
        /\ Finish(p) \in BusyPC \cup FreePC /\ AfterDel(p) \in BusyPC \cup FreePC
        /\ {"stopUpdate", "stopLoad", "stopGet", "add", "startUpdate", "dbDel", "stopDelete"}
              \subseteq BusyPC \cup FreePC
    BY Continuations, ZenonT(30) DEF BusyPC, FreePC
  <1>4. /\ Ends(AfterStop(p, TRUE)) /\ Ends(AfterStop(p, FALSE))
        /\ Ends(AfterDel(p)) /\ Ends(Finish(p))
        /\ \A pc \in {"stopUpdate", "stopLoad", "stopGet", "add", "startUpdate", "dbDel",
                      "stopDelete"} : Ends(pc)
    <2>1. Ends(AfterStop(p, TRUE))
      BY Zenon DEF AfterStop
    <2>2. Ends(AfterStop(p, FALSE))
      BY Zenon DEF AfterStop
    <2>3. Ends(AfterDel(p))
      BY Zenon DEF AfterDel
    <2> QED
      BY <2>1, <2>2, <2>3, ZenonT(30)
  <1> HIDE DEF Ends
  <1>5. CASE StopGet(p) \/ StopUpdate(p) \/ StartGet(p) \/ Add(p) \/ StartUpdate(p)
    <2>1. PICK pc \in BusyPC \cup FreePC : Goto(p, pc) /\ Ends(pc)
      BY <1>3, <1>4, <1>5, ZenonT(30) DEF StopGet, StopUpdate, StartGet, Add, StartUpdate
    <2> QED
      BY <1>2, <2>1, Zenon
  <1>6. CASE StopDelete(p) \/ DelLoad(p) \/ DbDel(p) \/ NewTask(p) \/ EditTunnel(p)
    <2>1. PICK pc \in BusyPC \cup FreePC : Goto(p, pc) /\ Ends(pc)
      BY <1>3, <1>4, <1>6, ZenonT(30) DEF StopDelete, DelLoad, DbDel, NewTask, EditTunnel
    <2> QED
      BY <1>2, <2>1, Zenon
  <1>7. CASE StopClose(p)
    <2>1. PICK pc \in BusyPC \cup FreePC : Goto(p, pc) /\ Ends(pc)
      BY <1>3, <1>4, <1>7, ZenonT(30) DEF StopClose
    <2> QED
      BY <1>2, <2>1, Zenon
  <1>8. CASE StopLoad(p)
    <2>1. CASE runList[proc[p].task] = NoEntry
      <3>1. Goto(p, AfterStop(p, FALSE))
        BY <1>8, <2>1, ZenonT(30) DEF StopLoad
      <3> QED
        BY <1>2, <1>3, <1>4, <3>1, ZenonT(30)
    <2>2. CASE runList[proc[p].task] # NoEntry
      <3>1. proc' = [proc EXCEPT ![p].pc = "stopClose", ![p].svr = runList[proc[p].task]]
        BY <1>8, <2>2, Zenon DEF StopLoad
      <3> QED
        BY <3>1 DEF TypeOK
    <2> QED
      BY <2>1, <2>2, Zenon
  <1>9. CASE Collect(p)
    BY <1>9 DEF Collect, TypeOK
  <1>10. CASE DelNext(p)
    <2>1. CASE proc[p].todo = {}
      <3>1. Goto(p, Finish(p))
        BY <1>10, <2>1, Zenon DEF DelNext
      <3> QED
        BY <1>2, <1>3, <1>4, <3>1, Zenon
    <2>2. CASE proc[p].todo # {}
      <3>1. PICK t \in proc[p].todo :
               proc' = [proc EXCEPT ![p].pc = "delLoad", ![p].task = t, ![p].todo = @ \ {t}]
        BY <1>10, <2>2, ZenonT(30) DEF DelNext
      <3> QED
        BY <3>1 DEF TypeOK
    <2> QED
      BY <2>1, <2>2, Zenon
  <1> QED
    BY <1>5, <1>6, <1>7, <1>8, <1>9, <1>10, Zenon DEF Step

\* A goroutine that deletes a task goes on with it until it takes the next.
LEMMA DeletesOn ==
    ASSUME TypeOK, NEW p \in Procs, Step(p), Deletes(proc[p]), proc[p].pc \in DelPC
    PROVE  /\ proc'[p].pc \in DelPC \cup {"next"}
           /\ proc'[p].task = proc[p].task /\ proc'[p].todo = proc[p].todo
  <1> USE DEF At
  <1>1. /\ AfterStop(p, TRUE) = "dbDel" /\ AfterStop(p, FALSE) = "next" /\ AfterDel(p) = "next"
    BY Zenon DEF AfterStop, AfterDel, Deletes
  <1>2. ASSUME NEW pc \in DelPC \cup {"next"}, Goto(p, pc)
        PROVE  /\ proc'[p].pc \in DelPC \cup {"next"}
               /\ proc'[p].task = proc[p].task /\ proc'[p].todo = proc[p].todo
    <2>1. pc \in BusyPC \cup FreePC /\ pc # Finish(p)
      BY Zenon DEF DelPC, BusyPC, FreePC, Finish
    <2> QED
      BY <1>2, <2>1, GotoKeeps, Zenon
  <1>3. {"stopUpdate", "stopLoad", "stopGet", "dbDel", "stopDelete"} \subseteq DelPC
    BY Zenon DEF DelPC
  <1>4. CASE StopGet(p) \/ StopUpdate(p) \/ StopDelete(p) \/ DelLoad(p) \/ DbDel(p)
    <2>1. PICK pc \in DelPC \cup {"next"} : Goto(p, pc)
      BY <1>1, <1>3, <1>4, ZenonT(30) DEF StopGet, StopUpdate, StopDelete, DelLoad, DbDel
    <2> QED
      BY <1>2, <2>1, Zenon
  <1>5. CASE StopClose(p)
    <2>1. PICK pc \in DelPC \cup {"next"} : Goto(p, pc)
      BY <1>1, <1>3, <1>5, ZenonT(30) DEF StopClose
    <2> QED
      BY <1>2, <2>1, Zenon
  <1>6. CASE StopLoad(p)
    <2>1. CASE runList[proc[p].task] = NoEntry
      BY <1>1, <1>2, <1>6, <2>1, ZenonT(30) DEF StopLoad
    <2>2. CASE runList[proc[p].task] # NoEntry
      <3>1. proc' = [proc EXCEPT ![p].pc = "stopClose", ![p].svr = runList[proc[p].task]]
        BY <1>6, <2>2, Zenon DEF StopLoad
      <3> QED
        BY <3>1 DEF TypeOK, DelPC
    <2> QED
      BY <2>1, <2>2, Zenon
  <1>7. CASE StartGet(p) \/ Add(p) \/ StartUpdate(p) \/ NewTask(p) \/ EditTunnel(p)
    BY <1>7, Zenon DEF StartGet, Add, StartUpdate, NewTask, EditTunnel, DelPC
  <1>8. CASE Collect(p) \/ DelNext(p)
    BY <1>8, ZenonT(30) DEF Collect, DelNext, DelPC
  <1> QED
    BY <1>4, <1>5, <1>6, <1>7, <1>8, Zenon DEF Step

\* What is known of a task at which one goroutine works.
LEMMA AtWork ==
    ASSUME SInv, NEW p \in Procs, NEW t \in Task \ raced, proc[p].pc \in BusyPC, proc[p].task = t
    PROVE  Before(p, t)
  <1>1. p \in Working(t)
    BY Zenon DEF Working, BusyPC
  <1> QED
    BY <1>1, Zenon DEF SInv, SettledInv, TaskOK, Before, Overlap

\* The loop loses no task: it takes the next one only when this one is deleted.
LEMMA SweepGoesOn ==
    ASSUME SInv, OnlyDeletes, NEW p \in Procs, Step(p), NEW t \in tasks, t \in tasks', t \notin raced,
           Deletes(proc[p]), proc[p].op = "sweep" => t \in ConfTask, Sweeps(proc[p], t)
    PROVE  Sweeps(proc[p], t)'
  <1> USE DEF At
  <1>1. TypeOK /\ t \in Task
    BY Zenon DEF SInv, IInv, TypeOK
  <1>2. CASE proc[p].pc \in DelPC
    <2>1. /\ proc'[p].pc \in DelPC \cup {"next"}
          /\ proc'[p].task = proc[p].task /\ proc'[p].todo = proc[p].todo
      BY <1>1, <1>2, DeletesOn, Zenon
    <2>2. CASE t \in proc[p].todo
      BY <2>1, <2>2, Zenon DEF Sweeps
    <2>3. CASE t \notin proc[p].todo
      <3>1. proc[p].task = t
        BY <1>2, <2>3, Zenon DEF Sweeps, DelPC
      <3>2. Before(p, t)
        BY <1>1, <1>2, <3>1, AtWork, Zenon DEF DelPC, BusyPC
      <3>3. AfterStop(p, TRUE) = "dbDel"
        BY Zenon DEF AfterStop, Deletes
      <3>4. ASSUME NEW pc \in DelPC, Goto(p, pc) PROVE proc'[p].pc \in DelPC
        BY <1>1, <3>4, GotoKeeps, Zenon DEF DelPC, BusyPC
      <3>5. {"stopUpdate", "stopLoad", "stopGet", "dbDel", "stopDelete"} \subseteq DelPC
        BY Zenon DEF DelPC
      <3>6. proc'[p].pc \in DelPC
        <4>1. CASE StopGet(p) \/ StopUpdate(p) \/ StopDelete(p) \/ DelLoad(p)
          <5>1. PICK pc \in DelPC : Goto(p, pc)
            BY <3>1, <3>3, <3>5, <4>1, ZenonT(30) DEF StopGet, StopUpdate, StopDelete, DelLoad
          <5> QED
            BY <3>4, <5>1, Zenon
        <4>2. CASE StopLoad(p)
          <5>1. HasEntry(t)
            BY <3>2, <4>2, Zenon DEF StopLoad, Before, WorkOK, Deletes
          <5>2. proc' = [proc EXCEPT ![p].pc = "stopClose", ![p].svr = runList[t]]
            BY <3>1, <4>2, <5>1, Zenon DEF StopLoad, HasEntry
          <5> QED
            BY <1>1, <5>2 DEF TypeOK, DelPC
        <4>3. CASE StopClose(p)
          <5>1. HasEntry(t) /\ proc[p].svr = runList[t] /\ EntryOK(t)
            BY <3>2, <4>3, Zenon DEF StopClose, Before, WorkOK
          <5>2. proc[p].svr = NilService \/ srv[proc[p].svr].pc = "listening"
            <6>1. CASE t \in SecretTask
              BY <5>1, <6>1, Zenon DEF EntryOK, HasEntry
            <6>2. CASE t \notin SecretTask
              BY <3>2, <4>3, <5>1, <6>2, EntryListens, Zenon DEF StopClose
            <6> QED
              BY <6>1, <6>2, Zenon
          <5>3. Goto(p, "stopDelete")
            BY <4>3, <5>2, ZenonT(30) DEF StopClose
          <5> QED
            BY <3>4, <3>5, <5>3, Zenon
        <4>4. CASE DbDel(p)
          BY <3>1, <4>4, Zenon DEF DbDel
        <4>5. CASE StartGet(p) \/ Add(p) \/ StartUpdate(p) \/ NewTask(p) \/ EditTunnel(p)
          BY <1>2, <4>5, Zenon DEF StartGet, Add, StartUpdate, NewTask, EditTunnel, DelPC
        <4>6. CASE Collect(p) \/ DelNext(p)
          BY <1>2, <4>6, ZenonT(30) DEF Collect, DelNext, DelPC
        <4> QED
          BY <4>1, <4>2, <4>3, <4>4, <4>5, <4>6, Zenon DEF Step
      <3> QED
        BY <2>1, <3>1, <3>6, Zenon DEF Sweeps
    <2> QED
      BY <2>2, <2>3, Zenon
  <1>3. CASE proc[p].pc = "collect"
    <2>1. Collect(p)
      BY <1>3, Zenon
      DEF Step, StopGet, StopUpdate, StopLoad, StopClose, StopDelete, StartGet, Add, StartUpdate,
          DelLoad, DbDel, DelNext, NewTask, EditTunnel
    <2> DEFINE ids == IF proc[p].op = "purge" THEN tasks ELSE tasks \cap ConfTask
    <2>2. t \in ids
      BY Zenon DEF Deletes
    <2>3. proc' = [proc EXCEPT ![p].pc = "next", ![p].todo = ids]
      BY <2>1, Zenon DEF Collect
    <2> HIDE DEF ids
    <2> QED
      BY <1>1, <2>2, <2>3 DEF TypeOK, Sweeps
  <1>4. CASE proc[p].pc \notin DelPC \cup {"collect"}
    <2>1. t \in proc[p].todo
      BY <1>4, Zenon DEF Sweeps
    <2>2. proc[p].pc \in FreePC
      BY <1>4, Zenon DEF OnlyDeletes
    <2>3. DelNext(p)
      BY <1>4, <2>2, ZenonT(30)
      DEF Step, StopGet, StopUpdate, StopLoad, StopClose, StopDelete, StartGet, Add, StartUpdate,
          DelLoad, DbDel, Collect, NewTask, EditTunnel, FreePC
    <2>4. PICK u \in proc[p].todo :
             proc' = [proc EXCEPT ![p].pc = "delLoad", ![p].task = u, ![p].todo = @ \ {u}]
      BY <2>1, <2>3, ZenonT(30) DEF DelNext
    <2>5. proc'[p].pc = "delLoad" /\ proc'[p].task = u /\ proc'[p].todo = proc[p].todo \ {u}
      BY <1>1, <2>4 DEF TypeOK
    <2> QED
      BY <2>1, <2>5, Zenon DEF Sweeps, DelPC
  <1> QED
    BY <1>2, <1>3, <1>4, Zenon

\* The steps of the operations keep the invariant.
LEMMA StepLeft ==
    ASSUME SInv, LeftInv, Race, NEW p \in Procs, Step(p)
    PROVE  LeftInv'
  <1> USE DEF At
  <1>1. TypeOK /\ OnlyDeletes /\ ClientGone
    BY Zenon DEF SInv, IInv, LeftInv
  <1>2. /\ proc'[p].op = proc[p].op
        /\ p \in Web => proc'[p].pc # "idle"
        /\ proc'[p].pc \in {"idle", "done"} => proc'[p].todo = {}
        /\ \A q \in Procs \ {p} : proc'[q] = proc[q]
    BY <1>1, StepKeepsOp, Zenon
  <1>3. \A q \in Procs : proc'[q].op = proc[q].op
    BY <1>2, Zenon
  <1>4. Web \subseteq Procs /\ deal \in Procs
    BY Zenon DEF Procs
  <1>5. Purged' <=> Purged
    BY <1>3, <1>4, Zenon DEF Purged
  <1>6. OnlyDeletes'
    <2>1. Deletes(proc[p]) => proc'[p].pc \in DelPC \cup FreePC
      <3> SUFFICES ASSUME Deletes(proc[p]) PROVE proc'[p].pc \in DelPC \cup FreePC
        BY Zenon
      <3>1. CASE proc[p].pc \in DelPC
        BY <1>1, <3>1, DeletesOn, Zenon DEF FreePC
      <3>2. CASE proc[p].pc \notin DelPC
        <4>1. proc[p].pc \in FreePC
          BY <1>1, <3>2, Zenon DEF OnlyDeletes
        <4>2. Collect(p) \/ DelNext(p)
          BY <4>1, ZenonT(30)
          DEF Step, StopGet, StopUpdate, StopLoad, StopClose, StopDelete, StartGet, Add, StartUpdate,
              DelLoad, DbDel, NewTask, EditTunnel, FreePC
        <4>3. CASE Collect(p)
          BY <1>1, <4>3 DEF Collect, TypeOK, FreePC
        <4>4. CASE DelNext(p) /\ proc[p].todo = {}
          BY <1>1, <4>4, GotoKeeps, Continuations, Zenon DEF DelNext, FreePC
        <4>5. CASE DelNext(p) /\ proc[p].todo # {}
          <5>1. PICK u \in proc[p].todo :
                   proc' = [proc EXCEPT ![p].pc = "delLoad", ![p].task = u, ![p].todo = @ \ {u}]
            BY <4>5, ZenonT(30) DEF DelNext
          <5> QED
            BY <1>1, <5>1 DEF TypeOK, DelPC
        <4> QED
          BY <4>2, <4>3, <4>4, <4>5, Zenon
      <3> QED
        BY <3>1, <3>2, Zenon
    <2>2. \A q \in Procs : Deletes(proc[q])' => proc'[q].pc \in DelPC \cup FreePC
      BY <1>1, <1>2, <2>1, Zenon DEF OnlyDeletes, Deletes
    <2>3. \A q \in Procs : proc'[q].pc \in {"idle", "done"} => proc'[q].todo = {}
      BY <1>1, <1>2, Zenon DEF OnlyDeletes
    <2>4. \A w \in Web : proc'[w].op = "purge" => proc'[w].pc # "idle"
      BY <1>1, <1>2, <1>4, Zenon DEF OnlyDeletes
    <2> QED
      BY <1>1, <1>3, <1>4, <2>2, <2>3, <2>4, Zenon DEF OnlyDeletes
  <1>7. /\ up' => up
        /\ up /\ ~up' => proc[p].op = "purge"
        /\ client' => client
        /\ client /\ ~client' => proc[p].op = "sweep"
        /\ closeClient' = closeClient
    <2>1. ASSUME DelNext(p), proc[p].todo = {}
          PROVE  /\ up' = (up /\ proc[p].op # "purge")
                 /\ client' = (client /\ ~(proc[p].op = "sweep" /\ ask.noStore))
                 /\ closeClient' = closeClient
      BY <2>1, Zenon DEF DelNext
    <2>2. CASE DelNext(p) /\ proc[p].todo = {}
      BY <2>1, <2>2, Zenon
    <2>3. CASE DelNext(p) /\ proc[p].todo # {}
      <3>1. UNCHANGED <<up, client, closeClient>>
        BY <2>3, ZenonT(30) DEF DelNext
      <3> QED
        BY <3>1, Zenon
    <2>4. CASE ~DelNext(p)
      <3>1. UNCHANGED <<up, client, closeClient>>
        BY <2>4, ZenonT(30)
        DEF Step, StopGet, StopUpdate, StopLoad, StopClose, StopDelete, StartGet, Add, StartUpdate,
            DelLoad, DbDel, Collect, NewTask, EditTunnel, db, bridge
      <3> QED
        BY <3>1, Zenon
    <2> QED
      BY <2>2, <2>3, <2>4, Zenon
  <1>8. up /\ ~up' => Purged
    BY <1>1, <1>7, Zenon DEF OnlyDeletes, Purged, Procs
  <1>9. ClientGone'
    BY <1>1, <1>3, <1>5, <1>7, Zenon DEF ClientGone
  <1>10. ASSUME NEW t \in tasks', t \notin raced', t \notin late'
         PROVE  StillThere(t)'
    <2>1. t \notin raced /\ t \notin late
      BY <1>10, ZenonT(30)
      DEF Race, Step, StopGet, StopUpdate, StopLoad, StopClose, StopDelete, StartGet, Add, StartUpdate,
          DelLoad, DbDel, Collect, DelNext, NewTask, EditTunnel
    <2>2. CASE t \in tasks
      <3>1. StillThere(t)
        BY <2>1, <2>2, Zenon DEF LeftInv
      <3>2. ASSUME NEW w \in Web, proc'[w].op = "purge" PROVE Sweeps(proc[w], t)'
        <4>1. Sweeps(proc[w], t) /\ w \in Procs
          BY <1>3, <1>4, <3>1, <3>2, Zenon DEF StillThere
        <4>2. CASE w = p
          <5>1. Deletes(proc[p]) /\ proc[p].op # "sweep"
            BY <1>3, <3>2, <4>1, <4>2, Zenon DEF Deletes
          <5> QED
            BY <1>1, <1>10, <2>1, <2>2, <4>1, <4>2, <5>1, SweepGoesOn, Zenon
        <4>3. CASE w # p
          BY <1>2, <4>1, <4>3, Zenon DEF Sweeps
        <4> QED
          BY <4>2, <4>3, Zenon
      <3>3. ASSUME t \in ConfTask, proc[deal].op = "sweep", Sweeps(proc[deal], t)
            PROVE  Sweeps(proc[deal], t)'
        <4>1. CASE deal = p
          <5>1. Deletes(proc[p])
            BY <3>3, <4>1, Zenon DEF Deletes
          <5> QED
            BY <1>1, <1>10, <2>1, <2>2, <3>3, <4>1, <5>1, SweepGoesOn, Zenon
        <4>2. CASE deal # p
          BY <1>2, <1>4, <3>3, <4>2, Zenon DEF Sweeps
        <4> QED
          BY <4>1, <4>2, Zenon
      <3> QED
        BY <1>3, <1>4, <1>5, <1>7, <1>8, <3>1, <3>2, <3>3, Zenon DEF StillThere
    <2>3. CASE t \notin tasks
      <3>1. /\ StopUpdate(p) \/ StartUpdate(p) \/ EditTunnel(p) \/ NewTask(p)
            /\ t = proc[p].task
        BY <1>10, <2>3, ZenonT(30)
        DEF Step, StopGet, StopUpdate, StopLoad, StopClose, StopDelete, StartGet, Add, StartUpdate,
            DelLoad, DbDel, Collect, DelNext, NewTask, EditTunnel, db
      <3>2. proc[p].pc \in {"stopUpdate", "startUpdate", "edit", "newTask"} /\ t \in Task
        BY <1>1, <3>1, Zenon DEF StopUpdate, StartUpdate, EditTunnel, NewTask, TypeOK, BusyPC
      <3>3. Before(p, t)
        BY <2>1, <3>1, <3>2, AtWork, Zenon DEF BusyPC
      <3>4. proc[p].pc = "newTask" /\ t \notin ConfTask
        BY <2>3, <3>2, <3>3, Zenon DEF Before, WorkOK
      <3>5. NewTask(p)
        BY <3>1, <3>4, Zenon DEF StopUpdate, StartUpdate, EditTunnel
      <3>6. client
        BY <1>10, <3>1, <3>5, Zenon DEF NewTask
      <3>7. ~Purged'
        BY <1>1, <1>5, <3>6, Zenon DEF ClientGone
      <3> QED
        BY <3>4, <3>7, Zenon DEF StillThere, Purged
    <2> QED
      BY <2>2, <2>3, Zenon
  <1> QED
    BY <1>6, <1>9, <1>10, Zenon DEF LeftInv

\* A request, the bridge, getConfig, npc and the servers keep it.
LEMMA RequestLeft ==
    ASSUME SInv, LeftInv, Race, NEW w \in Web, Request(w)
    PROVE  LeftInv'
  <1>1. TypeOK /\ OnlyDeletes /\ ClientGone
    BY Zenon DEF SInv, IInv, LeftInv
  <1>2. Web \subseteq Procs /\ deal \in Procs /\ deal # w
    BY TaskManagerAssumption DEF Procs, Web, deal
  <1>3. proc[w].pc = "idle"
    BY Zenon DEF Request, CreateTunnel, TunnelRequest, DeleteClient, Asked, At
  <1>4. proc[w].op # "purge"
    BY <1>1, <1>3, Zenon DEF OnlyDeletes
  <1>5. UNCHANGED <<up, closeClient, tasks, late>>
    BY Zenon DEF Request, CreateTunnel, TunnelRequest, DeleteClient, db, bridge
  <1>6. PICK op, t, pc : /\ Handle(w, op, t, pc) /\ pc \notin {"idle", "done"} /\ op # "sweep"
                         /\ op = "purge" => pc = "collect" /\ DeleteClient(w)
                         /\ op # "purge" => client' = client
    <2>1. CASE CreateTunnel(w)
      BY <2>1 DEF CreateTunnel
    <2>2. CASE TunnelRequest(w)
      <3>1. PICK t \in tasks :
               \/ Handle(w, "update", t, "edit") \/ Handle(w, "start", t, "startGet")
               \/ Handle(w, "stop", t, "stopGet") \/ Handle(w, "delete", t, "delLoad")
        BY <2>2, Zenon DEF TunnelRequest
      <3>2. client' = client
        BY <2>2, Zenon DEF TunnelRequest, db
      <3> QED
        BY <3>1, <3>2
    <2>3. CASE DeleteClient(w)
      <3>1. Handle(w, "purge", 0, "collect")
        BY <2>3, Zenon DEF DeleteClient
      <3> QED
        BY <2>3, <3>1
    <2> QED
      BY <2>1, <2>2, <2>3, Zenon DEF Request
  <1>7. /\ proc'[w].pc = pc /\ proc'[w].op = op /\ proc'[w].todo = {}
        /\ \A q \in Procs \ {w} : proc'[q] = proc[q]
    <2> DEFINE r == Goroutine(pc, op, t)
    <2>1. r.pc = pc /\ r.op = op /\ r.todo = {}
      BY Zenon DEF Goroutine
    <2>2. proc' = [proc EXCEPT ![w] = r] /\ w \in DOMAIN proc
      BY <1>1, <1>2, <1>6, Zenon DEF Handle, TypeOK
    <2> HIDE DEF r
    <2> QED
      BY <2>1, <2>2
  <1>8. OnlyDeletes'
    <2>1. "collect" \in FreePC
      BY Zenon DEF FreePC
    <2>2. \A q \in Procs : Deletes(proc[q])' => proc'[q].pc \in DelPC \cup FreePC
      BY <1>1, <1>2, <1>6, <1>7, <2>1, Zenon DEF OnlyDeletes, Deletes
    <2>3. \A q \in Procs : proc'[q].pc \in {"idle", "done"} => proc'[q].todo = {}
      BY <1>1, <1>2, <1>7, Zenon DEF OnlyDeletes
    <2> QED
      BY <1>1, <1>2, <1>6, <1>7, <2>2, <2>3, Zenon DEF OnlyDeletes
  <1>9. CASE op = "purge"
    <2>1. client /\ ~client'
      BY <1>6, <1>9, Zenon DEF DeleteClient
    <2>2. ~Purged /\ Purged'
      BY <1>1, <1>7, <1>9, <2>1, Zenon DEF ClientGone, Purged
    <2>3. ClientGone'
      BY <1>1, <1>2, <1>5, <1>6, <1>7, <2>1, <2>2, Zenon DEF ClientGone
    <2>4. \A u : \A v \in Web : proc'[v].op = "purge" => Sweeps(proc[v], u)'
      BY <1>2, <1>6, <1>7, <1>9, <2>2, Zenon DEF Purged, Sweeps
    <2> QED
      BY <1>8, <2>2, <2>3, <2>4, Zenon DEF LeftInv, StillThere
  <1>10. CASE op # "purge"
    <2>1. client' = client
      BY <1>6, <1>10, Zenon
    <2>2. Purged' <=> Purged
      BY <1>2, <1>4, <1>7, <1>10, Zenon DEF Purged
    <2>3. ClientGone'
      BY <1>1, <1>2, <1>5, <1>6, <1>7, <2>1, <2>2, Zenon DEF ClientGone
    <2>4. ASSUME NEW u \in tasks', u \notin raced', u \notin late' PROVE StillThere(u)'
      <3>1. StillThere(u)
        BY <1>5, <2>4, Zenon DEF LeftInv, Race
      <3>2. \A v \in Web : proc'[v].op = "purge" => Sweeps(proc[v], u)'
        BY <1>2, <1>7, <1>10, <3>1, Zenon DEF StillThere, Sweeps
      <3>3. proc[deal].op = "sweep" /\ Sweeps(proc[deal], u) => (proc[deal].op = "sweep" /\ Sweeps(proc[deal], u))'
        BY <1>2, <1>7, Zenon DEF Sweeps
      <3> QED
        BY <1>5, <2>2, <3>1, <3>2, <3>3, Zenon DEF StillThere
    <2> QED
      BY <1>8, <2>3, <2>4, Zenon DEF LeftInv
  <1> QED
    BY <1>9, <1>10, Zenon

LEMMA DealLeft ==
    ASSUME SInv, LeftInv, Race, Deal
    PROVE  LeftInv'
  <1>1. TypeOK /\ OnlyDeletes /\ ClientGone
    BY Zenon DEF SInv, IInv, LeftInv
  <1>2. Web \subseteq Procs /\ deal \in Procs /\ deal \notin Web
    BY TaskManagerAssumption DEF Procs, Web, deal
  <1>3. proc[deal].pc = "idle" /\ proc[deal].todo = {}
    BY <1>1, <1>2, Zenon DEF Deal, DealOpen, DealClose, At, OnlyDeletes
  <1>4. UNCHANGED <<up, client, tasks, late>>
    BY Zenon DEF Deal, DealOpen, DealClose, db
  <1>5. PICK op, t, pc : /\ Handle(deal, op, t, pc) /\ pc \notin {"idle", "done"}
                         /\ \/ op = "open" /\ closeClient' = closeClient
                            \/ op = "sweep" /\ pc = "collect" /\ closeClient = "sent" /\ closeClient' = "taken"
    <2>1. CASE DealOpen
      BY <2>1 DEF DealOpen
    <2>2. CASE DealClose
      BY <2>2, Zenon DEF DealClose
    <2> QED
      BY <2>1, <2>2, Zenon DEF Deal
  <1>6. /\ proc'[deal].pc = pc /\ proc'[deal].op = op /\ proc'[deal].todo = {}
        /\ \A q \in Procs \ {deal} : proc'[q] = proc[q]
    <2> DEFINE r == Goroutine(pc, op, t)
    <2>1. r.pc = pc /\ r.op = op /\ r.todo = {}
      BY Zenon DEF Goroutine
    <2>2. proc' = [proc EXCEPT ![deal] = r] /\ deal \in DOMAIN proc
      BY <1>1, <1>2, <1>5, Zenon DEF Handle, TypeOK
    <2> HIDE DEF r
    <2> QED
      BY <2>1, <2>2
  <1>7. OnlyDeletes'
    <2>1. "collect" \in FreePC
      BY Zenon DEF FreePC
    <2>2. \A q \in Procs : Deletes(proc[q])' => proc'[q].pc \in DelPC \cup FreePC
      BY <1>1, <1>2, <1>5, <1>6, <2>1, Zenon DEF OnlyDeletes, Deletes
    <2>3. \A q \in Procs : proc'[q].pc \in {"idle", "done"} => proc'[q].todo = {}
      BY <1>1, <1>2, <1>5, <1>6, Zenon DEF OnlyDeletes
    <2> QED
      BY <1>1, <1>2, <1>5, <1>6, <2>2, <2>3, Zenon DEF OnlyDeletes
  <1>8. Purged' <=> Purged
    BY <1>2, <1>6, Zenon DEF Purged
  <1>9. ClientGone'
    BY <1>1, <1>2, <1>4, <1>5, <1>6, <1>8, Zenon DEF ClientGone
  <1>10. ASSUME NEW u \in tasks', u \notin raced', u \notin late' PROVE StillThere(u)'
    <2>1. StillThere(u)
      BY <1>4, <1>10, Zenon DEF LeftInv, Race
    <2>2. \A v \in Web : proc'[v].op = "purge" => Sweeps(proc[v], u)'
      BY <1>2, <1>6, <2>1, Zenon DEF StillThere, Sweeps
    <2>3. ~Sweeps(proc[deal], u)
      BY <1>3, Zenon DEF Sweeps, DelPC
    <2>4. op = "sweep" => Sweeps(proc[deal], u)' /\ proc'[deal].op = "sweep"
      BY <1>5, <1>6, Zenon DEF Sweeps
    <2> QED
      BY <1>4, <1>5, <1>8, <2>1, <2>2, <2>3, <2>4, Zenon DEF StillThere
  <1> QED
    BY <1>7, <1>9, <1>10, Zenon DEF LeftInv

LEMMA ConfLeft ==
    ASSUME SInv, LeftInv, Race, Conf \/ NpcGone \/ \E s \in Servers : Start(s) \/ StartFailed(s)
    PROVE  LeftInv'
  <1>1. OnlyDeletes /\ ClientGone
    BY Zenon DEF LeftInv
  <1>2. UNCHANGED <<client, proc>>
    BY ZenonT(30) DEF Conf, NpcGone, ConfHasTunnel, ConfNewTask, ConfTest, ConfSend, Start, StartFailed, db
  <1>3. OnlyDeletes' /\ (Purged' <=> Purged)
    BY <1>1, <1>2, Zenon DEF OnlyDeletes, Deletes, Purged
  <1>4. UNCHANGED <<up, closeClient>> \/ DelClient
    BY ZenonT(30) DEF Conf, NpcGone, ConfHasTunnel, ConfNewTask, ConfTest, ConfSend, Start, StartFailed, bridge
  <1>5. ClientGone'
    <2>1. CASE UNCHANGED <<up, closeClient>>
      BY <1>1, <1>2, <1>3, <2>1, Zenon DEF ClientGone
    <2>2. CASE DelClient
      <3>1. ~up'
        BY <2>2, Zenon DEF DelClient
      <3> QED
        BY <1>1, <1>2, <1>3, <3>1, Zenon DEF ClientGone
    <2> QED
      BY <1>4, <2>1, <2>2, Zenon
  <1>6. ASSUME NEW t, StillThere(t) PROVE StillThere(t)'
    <2>1. /\ \A v \in Web : proc'[v].op = "purge" => Sweeps(proc[v], t)'
          /\ proc[deal].op = "sweep" /\ Sweeps(proc[deal], t) =>
                proc'[deal].op = "sweep" /\ Sweeps(proc[deal], t)'
      BY <1>2, <1>6, Zenon DEF StillThere, Sweeps
    <2>2. CASE UNCHANGED <<up, closeClient>>
      BY <1>3, <1>6, <2>1, <2>2, Zenon DEF StillThere
    <2>3. CASE DelClient /\ up /\ client
      <3>1. closeClient' \in {"sent", "dropped"}
        BY <2>3, Zenon DEF DelClient
      <3> QED
        BY <2>1, <3>1, Zenon DEF StillThere
    <2>4. CASE DelClient /\ up /\ ~client
      <3>1. Purged'
        BY <1>1, <1>3, <2>4, Zenon DEF ClientGone
      <3> QED
        BY <2>1, <3>1, Zenon DEF StillThere
    <2>5. CASE DelClient /\ ~up
      <3>1. closeClient' = closeClient
        BY <2>5, Zenon DEF DelClient
      <3> QED
        BY <1>3, <1>6, <2>1, <2>5, <3>1, Zenon DEF StillThere
    <2> QED
      BY <1>4, <2>2, <2>3, <2>4, <2>5, Zenon
  <1>7. ASSUME NEW t \in tasks', t \notin raced', t \notin late' PROVE StillThere(t)'
    <2>1. CASE t \in tasks /\ t \notin late
      BY <1>6, <1>7, <2>1, Zenon DEF LeftInv, Race
    <2>2. CASE ~(t \in tasks /\ t \notin late)
      <3>1. ConfNewTask
        BY <1>7, <2>2, ZenonT(30)
        DEF Conf, NpcGone, ConfHasTunnel, ConfTest, ConfSend, Start, StartFailed, db
      <3>2. up /\ client /\ up' = up
        BY <1>7, <2>2, <3>1, Zenon DEF ConfNewTask
      <3>3. ~Purged'
        BY <1>1, <1>3, <3>2, Zenon DEF ClientGone
      <3> QED
        BY <3>2, <3>3, Zenon DEF StillThere, Purged
    <2> QED
      BY <2>1, <2>2, Zenon
  <1> QED
    BY <1>3, <1>5, <1>7, Zenon DEF LeftInv

\* The inductive invariant.
LInv == SInv /\ LeftInv

\* Every step keeps it.
LEMMA NextLeft ==
    ASSUME LInv, [Next]_vars
    PROVE  LInv'
  <1>1. SInv /\ SInv' /\ LeftInv
    BY NextSettled, Zenon DEF LInv
  <1>2. CASE Next
    <2>1. Race
      BY <1>2, Zenon DEF Next
    <2> QED
      BY <1>1, <1>2, <2>1, StepLeft, RequestLeft, DealLeft, ConfLeft, Zenon DEF LInv, Next, Action
  <1>3. CASE UNCHANGED vars
    <2>1. UNCHANGED <<client, up, closeClient, tasks, proc, raced, late>>
      BY <1>3, Zenon DEF vars, db, bridge
    <2>2. OnlyDeletes' /\ (Purged' <=> Purged)
      BY <1>1, <2>1, Zenon DEF LeftInv, OnlyDeletes, Deletes, Purged
    <2>3. ClientGone'
      BY <1>1, <2>1, <2>2, Zenon DEF LeftInv, ClientGone
    <2>4. \A t : StillThere(t) => StillThere(t)'
      BY <2>1, <2>2, Zenon DEF StillThere, Sweeps
    <2> QED
      BY <1>1, <2>1, <2>2, <2>3, <2>4, Zenon DEF LInv, LeftInv
  <1> QED
    BY <1>2, <1>3, Zenon

\* It holds when nps has started its tasks.
LEMMA InitLeft == Init => LInv
  <1> SUFFICES ASSUME Init PROVE LeftInv
    BY InitSettled, Zenon DEF LInv
  <1>1. /\ client = TRUE /\ up = TRUE /\ closeClient = "none"
        /\ proc = [p \in Procs |-> Goroutine("idle", "", 0)]
    BY ZenonT(30) DEF Init
  <1>2. Web \subseteq Procs /\ deal \in Procs
    BY Zenon DEF Procs
  <1>3. \A p \in Procs : proc[p].pc = "idle" /\ proc[p].op = "" /\ proc[p].todo = {}
    BY <1>1, ZenonT(30) DEF Goroutine
  <1> QED
    BY <1>1, <1>2, <1>3, ZenonT(30) DEF LeftInv, OnlyDeletes, ClientGone, StillThere, Deletes, Purged

\* Once nobody works, it says that no task has outlived its client.
LEMMA NothingLeft == LInv => NothingOutlivesClient
  <1> SUFFICES ASSUME LInv, Quiet, NEW t \in tasks, t \notin raced, t \notin late
               PROVE  /\ t \in ConfTask => up \/ closeClient = "dropped"
                      /\ \A w \in Web : proc[w].op # "purge"
    BY Zenon DEF NothingOutlivesClient
  <1>1. OnlyDeletes /\ StillThere(t)
    BY Zenon DEF LInv, LeftInv
  <1>2. Web \subseteq Procs /\ deal \in Procs
    BY Zenon DEF Procs
  <1>3. \A p \in Procs : ~Sweeps(proc[p], t)
    BY <1>1, Zenon DEF Quiet, OnlyDeletes, Sweeps, DelPC
  <1> QED
    BY <1>1, <1>2, <1>3, Zenon DEF StillThere, Purged, Quiet

\* When all is quiet no task outlives its client: those that npc brought are deleted unless
\* the signal was dropped, and handleDeleteClient has left none, but for tasks that others
\* worked on at the same time.
THEOREM ClientTakesTasks == Spec => []NothingOutlivesClient
  BY InitLeft, NextLeft, NothingLeft, PTL DEF Spec
==============================================================================
