----------------------------- MODULE TaskManager -----------------------------
(***************************************************************************)
(* The tasks of nps and the servers that run them: RunList with AddTask,   *)
(* StartTask, StopServer and DelTask (server/server.go), called by the     *)
(* handlers of the web interface (web/api/tunnels.go, clients.go), by      *)
(* DealBridgeTask and, through its channels, by npc with a configuration   *)
(* file (bridge/config.go).  A server of server/proxy/tcp.go opens its     *)
(* listener in a goroutine of its own.                                     *)
(*                                                                         *)
(* All tasks belong to one client.  A task is its pointer and its id, both *)
(* of which are never used again.  Servers are numbered as they are made.  *)
(* The indexes and the files of the database are left out, and so are      *)
(* requests that are refused before they change anything.                  *)
(***************************************************************************)
EXTENDS Integers, Sequences, FiniteSets

CONSTANTS Task,       \* ids of tasks
          ConfTask,   \* those that npc brings from its configuration: NoStore
          SecretTask, \* those of mode secret or p2p, which open no port
          Port,
          Requests,   \* how many requests reach the web interface, one handler each
          ChanCap,    \* the room in OpenTask, 100
          Setups      \* the tasks that run and that are stopped, their ports, what
                      \* the web is asked for, what npc brings, whether it may go,
                      \* whether the client itself is NoStore, whether requests come
                      \* one after the other

ASSUME TaskManagerAssumption ==
    /\ ConfTask \subseteq Task /\ SecretTask \subseteq Task \ ConfTask /\ 0 \notin Task
    /\ ChanCap \in Nat \ {0} /\ Requests \in Nat
    /\ \A s \in Setups :
          /\ s.running \in Seq(Task) /\ s.stopped \subseteq Task
          /\ \A i, j \in DOMAIN s.running : s.running[i] = s.running[j] => i = j
          /\ \A i \in DOMAIN s.running : s.running[i] \notin s.stopped \cup SecretTask
          /\ s.port \in [Task -> Port] /\ s.conf \in Seq(Port)

deal == 0              \* DealBridgeTask
Web == 1..Requests     \* the handlers, as the requests arrive
Procs == Web \cup {deal}

VARIABLES client,  \* the client is in the database
          up,      \* the client is in Bridge.Client
          made,    \* the ids handed out by GetTaskId
          tasks,   \* JsonDb.Tasks
          status,  \* per task: Status
          port,    \* per task: Port
          runList, \* RunList: 0 for no entry, else a server, NilService for nil
          srv,     \* the servers: [task, pc, port]
          proc,    \* the goroutines: [pc, op, task, svr, todo]
          cnf,     \* getConfig: [pc, todo, task]
          openTask,    \* Bridge.OpenTask
          closeClient, \* the signal in Bridge.CloseClient: none, sent, taken, dropped
          ask,     \* what the web may be asked for, whether one request waits for
                   \* the answer to the last, whether npc may go, NoStore
          lost,    \* history: servers whose entry went to or was removed by another
          late,    \* history: tasks made after their client had gone
          raced    \* history: tasks that two goroutines worked on at a time

db == <<client, made, tasks, status, port>>
bridge == <<up, cnf, openTask, closeClient, ask>>

vars == <<db, bridge, runList, srv, proc, lost, late, raced>>

NoEntry == 0
NilService == -1
Goroutine(pc, op, t) == [pc |-> pc, op |-> op, task |-> t, svr |-> NoEntry, todo |-> {}]
NewServer(t) == [task |-> t, pc |-> "new", port |-> 0]

Servers == DOMAIN srv
Listening(s) == srv[s].pc = "listening"
Serving(t) == {s \in Servers : srv[s].task = t /\ Listening(s)}

\* TestServerPort: nobody listens there.
PortFree(p) == \A s \in Servers : Listening(s) => srv[s].port # p
TestServerPort(t) == t \in SecretTask \/ PortFree(port[t])

Init ==
    \E s \in Setups :
       /\ client = TRUE /\ up = TRUE
       /\ made = {s.running[i] : i \in DOMAIN s.running} \cup s.stopped
       /\ tasks = made
       /\ status = [t \in Task |-> t \in made \ s.stopped]
       /\ port = s.port
       /\ srv = [i \in DOMAIN s.running |->
                   [task |-> s.running[i], pc |-> "listening", port |-> s.port[s.running[i]]]]
       /\ runList = [t \in Task |-> IF \E i \in DOMAIN s.running : s.running[i] = t
                                    THEN CHOOSE i \in DOMAIN s.running : s.running[i] = t
                                    ELSE NoEntry]
       /\ proc = [p \in Procs |-> Goroutine("idle", "", 0)]
       /\ cnf = [pc |-> "read", todo |-> s.conf, task |-> 0]
       /\ openTask = <<>> /\ closeClient = "none"
       /\ ask = [ops |-> s.ops, go |-> s.go, noStore |-> s.noStore, inOrder |-> s.inOrder]
       /\ lost = {} /\ late = {} /\ raced = {}

------------------------------------------------------------------------------
\* Fault: DealBridgeTask without its loop.
FinishOnce(p) == "done"

\* Where a goroutine goes on.  Web handlers end, DealBridgeTask takes the next.
Finish(p) == IF p = deal THEN "idle" ELSE "done"

\* After StopServer, with or without an error; DelTask gives up on an error.
AfterStop(p, ok) ==
    CASE proc[p].op \in {"update", "open"} -> "startGet"
      [] proc[p].op \in {"delete", "sweep", "purge"} /\ ok -> "dbDel"
      [] proc[p].op \in {"sweep", "purge"} /\ ~ok -> "next"
      [] OTHER -> Finish(p)

AfterDel(p) == IF proc[p].op \in {"sweep", "purge"} THEN "next" ELSE Finish(p)

Goto(p, pc) ==
    proc' = [proc EXCEPT ![p] = IF pc = Finish(p)
                                THEN Goroutine(pc, proc[p].op, 0)
                                ELSE [@ EXCEPT !.pc = pc]]
At(p, pc) == proc[p].pc = pc

\* RunList.Delete, on behalf of server s.
Delete(t, s) ==
    /\ runList' = [runList EXCEPT ![t] = NoEntry]
    /\ lost' = lost \cup ({runList[t]} \ {NoEntry, NilService, s})

------------------------------------------------------------------------------
(* StopServer *)

\* GetTask.
StopGet(p) ==
    /\ At(p, "stopGet")
    /\ Goto(p, IF proc[p].task \in tasks THEN "stopUpdate" ELSE AfterStop(p, FALSE))
    /\ UNCHANGED <<db, bridge, runList, srv, lost, late>>

\* Fault: Status keeps its value.
StopUpdateKeeps(p) ==
    LET t == proc[p].task IN
    /\ At(p, "stopUpdate")
    /\ tasks' = tasks \cup {t}
    /\ Goto(p, "stopLoad")
    /\ UNCHANGED <<client, made, status, port, bridge, runList, srv, lost, late>>

\* Status = false and UpdateTask, which stores the task again.
StopUpdate(p) ==
    LET t == proc[p].task IN
    /\ At(p, "stopUpdate")
    /\ status' = [status EXCEPT ![t] = FALSE]
    /\ tasks' = tasks \cup {t}
    /\ Goto(p, "stopLoad")
    /\ UNCHANGED <<client, made, port, bridge, runList, srv, lost, late>>

\* RunList.Load; without an entry the task is not running.
StopLoad(p) ==
    LET s == runList[proc[p].task] IN
    /\ At(p, "stopLoad")
    /\ IF s = NoEntry THEN Goto(p, AfterStop(p, FALSE))
       ELSE proc' = [proc EXCEPT ![p].pc = "stopClose", ![p].svr = s]
    /\ UNCHANGED <<db, bridge, runList, srv, lost, late>>

\* Fault: Close closes the connections and not the listener.
StopCloseConns(p) ==
    /\ At(p, "stopClose")
    /\ Goto(p, "stopDelete")
    /\ UNCHANGED <<db, bridge, runList, srv, lost, late>>

\* svr.Close: nothing to do before the listener is there, an error when it is closed
\* already.
StopClose(p) ==
    LET s == proc[p].svr
        pc == IF s = NilService THEN "new" ELSE srv[s].pc
    IN
    /\ At(p, "stopClose")
    /\ srv' = IF pc = "listening" THEN [srv EXCEPT ![s].pc = "closed"] ELSE srv
    /\ lost' = IF pc = "new" /\ s # NilService THEN lost \cup {s} ELSE lost
    /\ Goto(p, IF pc = "closed" THEN AfterStop(p, FALSE) ELSE "stopDelete")
    /\ UNCHANGED <<db, bridge, runList, late>>

StopDelete(p) ==
    /\ At(p, "stopDelete")
    /\ Delete(proc[p].task, proc[p].svr)
    /\ Goto(p, AfterStop(p, TRUE))
    /\ UNCHANGED <<db, bridge, srv, late>>

------------------------------------------------------------------------------
(* StartTask and AddTask *)

\* GetTask and the first test of the port.
StartGet(p) ==
    LET t == proc[p].task IN
    /\ At(p, "startGet")
    /\ Goto(p, IF t \in tasks /\ TestServerPort(t) THEN "add" ELSE Finish(p))
    /\ UNCHANGED <<db, bridge, runList, srv, lost, late>>

\* AddTask stores nil for a secret task, or a new server if the port is still free.
\* handleCreateTunnel deletes its task again when it fails.
Add(p) ==
    LET t == proc[p].task
        creates == proc[p].op = "create"
        s == Len(srv) + 1
        then == IF creates THEN Finish(p) ELSE "startUpdate"
    IN
    /\ At(p, "add")
    /\ IF ~TestServerPort(t)
       THEN /\ Goto(p, IF creates THEN "dbDel" ELSE Finish(p))
            /\ UNCHANGED <<runList, srv, lost>>
       ELSE /\ runList' = [runList EXCEPT ![t] = IF t \in SecretTask THEN NilService ELSE s]
            /\ srv' = IF t \in SecretTask THEN srv ELSE Append(srv, NewServer(t))
            /\ lost' = lost \cup ({runList[t]} \ {NoEntry, NilService})
            /\ Goto(p, then)
    /\ UNCHANGED <<db, bridge, late>>

\* Status = true and UpdateTask.
StartUpdate(p) ==
    LET t == proc[p].task IN
    /\ At(p, "startUpdate")
    /\ status' = [status EXCEPT ![t] = TRUE]
    /\ tasks' = tasks \cup {t}
    /\ Goto(p, Finish(p))
    /\ UNCHANGED <<client, made, port, bridge, runList, srv, lost, late>>

\* svr.Start in its goroutine: the port is the one the task has by now.
Start(s) ==
    LET p == port[srv[s].task] IN
    /\ srv[s].pc = "new"
    /\ srv' = IF PortFree(p) THEN [srv EXCEPT ![s].pc = "listening", ![s].port = p]
                             ELSE [srv EXCEPT ![s].pc = "failed"]
    /\ UNCHANGED <<db, bridge, runList, proc, lost, late>>

\* Start has failed: the goroutine deletes the entry of the task.
StartFailed(s) ==
    /\ srv[s].pc = "failed"
    /\ srv' = [srv EXCEPT ![s].pc = "gone"]
    /\ Delete(srv[s].task, s)
    /\ UNCHANGED <<db, bridge, proc, late>>

------------------------------------------------------------------------------
(* DelTask and the loop of DelTunnelAndHostByClientId *)

DelLoad(p) ==
    /\ At(p, "delLoad")
    /\ Goto(p, IF runList[proc[p].task] # NoEntry THEN "stopGet" ELSE "dbDel")
    /\ UNCHANGED <<db, bridge, runList, srv, lost, late>>

\* DbUtils.DelTask.
DbDel(p) ==
    /\ At(p, "dbDel")
    /\ tasks' = tasks \ {proc[p].task}
    /\ Goto(p, AfterDel(p))
    /\ UNCHANGED <<client, made, status, port, bridge, runList, srv, lost, late>>

\* Fault: the test of NoStore is the wrong way round.
CollectStored(p) ==
    /\ At(p, "collect")
    /\ proc' = [proc EXCEPT ![p].pc = "next",
                            ![p].todo = IF proc[p].op = "purge" THEN tasks
                                        ELSE tasks \ ConfTask]
    /\ UNCHANGED <<db, bridge, runList, srv, lost, late>>

\* The ids to delete: NoStore tasks, or all when the client itself is deleted.
Collect(p) ==
    /\ At(p, "collect")
    /\ proc' = [proc EXCEPT ![p].pc = "next",
                            ![p].todo = IF proc[p].op = "purge" THEN tasks
                                        ELSE tasks \cap ConfTask]
    /\ UNCHANGED <<db, bridge, runList, srv, lost, late>>

\* One after another.  At the end DealBridgeTask deletes a NoStore client, and
\* handleDeleteClient calls DelClientConnect, which finds no client to signal for.
DelNext(p) ==
    /\ At(p, "next")
    /\ \/ \E t \in proc[p].todo :
             /\ proc' = [proc EXCEPT ![p].pc = "delLoad", ![p].task = t,
                                     ![p].todo = @ \ {t}]
             /\ UNCHANGED <<up, client>>
       \/ /\ proc[p].todo = {}
          /\ Goto(p, Finish(p))
          /\ up' = (up /\ proc[p].op # "purge")
          /\ client' = (client /\ ~(proc[p].op = "sweep" /\ ask.noStore))
    /\ UNCHANGED <<made, tasks, status, port, cnf, openTask, closeClient, ask, runList, srv, lost, late>>

------------------------------------------------------------------------------
(* Requests to the web interface *)

Asked(w, op) ==
    /\ At(w, "idle") /\ op \in ask.ops[w]
    /\ \A v \in Web : v < w => IF ask.inOrder THEN At(v, "done") ELSE ~At(v, "idle")

Handle(w, op, t, pc) == proc' = [proc EXCEPT ![w] = Goroutine(pc, op, t)]

\* handleCreateTunnel up to NewTask: an id, a port that is free.
CreateTunnel(w) ==
    \E t \in Task \ (made \cup ConfTask) :
       /\ Asked(w, "create") /\ client /\ TestServerPort(t)
       /\ made' = made \cup {t}
       /\ Handle(w, "create", t, "newTask")
       /\ UNCHANGED <<client, tasks, status, port, bridge, runList, srv, lost, late>>

NewTask(w) ==
    LET t == proc[w].task IN
    /\ At(w, "newTask")
    /\ tasks' = tasks \cup {t}
    /\ status' = [status EXCEPT ![t] = TRUE]
    /\ late' = IF client THEN late ELSE late \cup {t}
    /\ Goto(w, "add")
    /\ UNCHANGED <<client, made, port, bridge, runList, srv, lost>>

\* requireTunnelAccess has found the task; each handler goes on from there.
TunnelRequest(w) ==
    /\ \E t \in tasks :
          \/ Asked(w, "update") /\ Handle(w, "update", t, "edit")
          \/ Asked(w, "start") /\ Handle(w, "start", t, "startGet")
          \/ Asked(w, "stop") /\ Handle(w, "stop", t, "stopGet")
          \/ Asked(w, "delete") /\ Handle(w, "delete", t, "delLoad")
    /\ UNCHANGED <<db, bridge, runList, srv, lost, late>>

\* handleUpdateTunnel changes the task in place and stores it.
EditTunnel(w) ==
    LET t == proc[w].task IN
    /\ At(w, "edit")
    /\ \E p \in Port : /\ p = port[t] \/ t \in SecretTask \/ PortFree(p)
                       /\ port' = [port EXCEPT ![t] = p]
    /\ tasks' = tasks \cup {t}
    /\ Goto(w, "stopGet")
    /\ UNCHANGED <<client, made, status, bridge, runList, srv, lost, late>>

\* handleDeleteClient: the client first, then what it owns.
DeleteClient(w) ==
    /\ Asked(w, "purge") /\ client
    /\ client' = FALSE
    /\ Handle(w, "purge", 0, "collect")
    /\ UNCHANGED <<made, tasks, status, port, bridge, runList, srv, lost, late>>

------------------------------------------------------------------------------
(* npc with a configuration file, and the channels *)

\* Bridge.DelClient: the signal is dropped when other clients fill the channel.
DelClient ==
    /\ up' = FALSE
    /\ IF up /\ client THEN closeClient' \in {"sent", "dropped"} ELSE UNCHANGED closeClient

\* NEW_TASK for a port.  HasTunnel: a task with this port is there already.
ConfHasTunnel ==
    /\ cnf.pc = "read" /\ cnf.todo # <<>>
    /\ \E t \in tasks :
          /\ port[t] = Head(cnf.todo)
          /\ cnf' = [pc |-> IF t \in ConfTask THEN "send" ELSE "read", todo |-> Tail(cnf.todo),
                     task |-> t]
    /\ UNCHANGED <<db, up, openTask, closeClient, ask, runList, srv, proc, lost, late>>

\* Otherwise NewTask; if the port is taken the client is deleted and the loop ends.
ConfNewTask ==
    /\ cnf.pc = "read" /\ cnf.todo # <<>>
    /\ \A t \in tasks : port[t] # Head(cnf.todo)
    /\ \E t \in ConfTask \ made :
          /\ made' = made \cup {t} /\ tasks' = tasks \cup {t}
          /\ status' = [status EXCEPT ![t] = TRUE]
          /\ port' = [port EXCEPT ![t] = Head(cnf.todo)]
          /\ late' = IF up /\ client THEN late ELSE late \cup {t}
          /\ cnf' = [pc |-> "test", todo |-> Tail(cnf.todo), task |-> t]
    /\ UNCHANGED <<client, up, openTask, closeClient, ask, runList, srv, proc, lost>>

ConfTest ==
    /\ cnf.pc = "test"
    /\ IF TestServerPort(cnf.task)
       THEN cnf' = [cnf EXCEPT !.pc = "send"] /\ UNCHANGED <<up, closeClient>>
       ELSE cnf' = [cnf EXCEPT !.pc = "end"] /\ DelClient
    /\ UNCHANGED <<db, openTask, ask, runList, srv, proc, lost, late>>

\* OpenTask <- t, which waits for room.
ConfSend ==
    /\ cnf.pc = "send" /\ Len(openTask) < ChanCap
    /\ openTask' = Append(openTask, cnf.task)
    /\ cnf' = [cnf EXCEPT !.pc = "read"]
    /\ UNCHANGED <<db, up, closeClient, ask, runList, srv, proc, lost, late>>

\* npc is gone: ping or a failed link deletes the client.
NpcGone ==
    /\ ask.go /\ ask' = [ask EXCEPT !.go = FALSE]
    /\ DelClient
    /\ UNCHANGED <<db, cnf, openTask, runList, srv, proc, lost, late>>

\* DealBridgeTask: select takes either channel.
DealOpen ==
    /\ At(deal, "idle") /\ openTask # <<>>
    /\ Handle(deal, "open", Head(openTask), "stopGet")
    /\ openTask' = Tail(openTask)
    /\ UNCHANGED <<db, up, cnf, closeClient, ask, runList, srv, lost, late>>

DealClose ==
    /\ At(deal, "idle") /\ closeClient = "sent"
    /\ Handle(deal, "sweep", 0, "collect")
    /\ closeClient' = "taken"
    /\ UNCHANGED <<db, up, cnf, openTask, ask, runList, srv, lost, late>>

------------------------------------------------------------------------------
Step(p) ==
    \/ StopGet(p) \/ StopUpdate(p) \/ StopLoad(p) \/ StopClose(p) \/ StopDelete(p)
    \/ StartGet(p) \/ Add(p) \/ StartUpdate(p)
    \/ DelLoad(p) \/ DbDel(p) \/ Collect(p) \/ DelNext(p)
    \/ p \in Web /\ (NewTask(p) \/ EditTunnel(p))

Request(w) == CreateTunnel(w) \/ TunnelRequest(w) \/ DeleteClient(w)
Conf == ConfHasTunnel \/ ConfNewTask \/ ConfTest \/ ConfSend
Deal == DealOpen \/ DealClose

Action ==
    \/ \E p \in Procs : Step(p)
    \/ \E w \in Web : Request(w)
    \/ \E s \in Servers : Start(s) \/ StartFailed(s)
    \/ Conf \/ Deal \/ NpcGone

\* Two goroutines at a task, or one while a server of the task is being started
\* by another; StartTask itself goes on while its server starts.
Working(t) == {p \in Procs : proc[p].task = t /\ proc[p].pc \notin {"idle", "done", "next"}}
Starting(t) == {s \in Servers : srv[s].task = t /\ srv[s].pc \in {"new", "failed"}}
Overlap(t) ==
    \/ \E p, q \in Working(t) : p # q
    \/ \E s \in Starting(t), p \in Working(t) : proc[p].pc # "startUpdate"
    \/ \E s, z \in Starting(t) : s # z
Race == raced' = raced \cup {t \in Task : Overlap(t)'}

Next == Action /\ Race

Spec == Init /\ [][Next]_vars

\* The goroutines that have something to do, which is finite.  Nobody has to send a
\* request, and npc may stop sending.
Goroutines ==
    /\ \/ \E p \in Procs : Step(p)
       \/ \E s \in Servers : Start(s) \/ StartFailed(s)
       \/ ConfTest \/ ConfSend \/ Deal
    /\ Race

\* Go schedules them.
FairSpec == Spec /\ WF_vars(Goroutines)

------------------------------------------------------------------------------
Quiet ==
    /\ \A p \in Procs : proc[p].pc \in {"idle", "done"}
    /\ \A t \in Task : Starting(t) = {}
    /\ openTask = <<>> /\ closeClient # "sent" /\ cnf.pc \in {"read", "end"}

ServerPC == {"new", "failed", "listening", "closed", "gone"}
BusyPC == {"stopGet", "stopUpdate", "stopLoad", "stopClose", "stopDelete", "startGet", "add",
           "startUpdate", "delLoad", "dbDel", "newTask", "edit"}
FreePC == {"idle", "done", "collect", "next"}
Op == {"", "create", "update", "start", "stop", "delete", "purge", "open", "sweep"}
Entry == Servers \cup {NoEntry, NilService}

\* Every variable has a value of its type; a task in the database, in a channel or in
\* the hands of a goroutine has an id that was handed out, and a server in RunList or
\* in the hands of a goroutine has been made.
TypeOK ==
    /\ client \in BOOLEAN /\ up \in BOOLEAN
    /\ made \subseteq Task /\ tasks \subseteq made
    /\ status \in [Task -> BOOLEAN] /\ port \in [Task -> Port]
    /\ srv \in Seq([task : Task, pc : ServerPC, port : Port \cup {0}])
    /\ runList \in [Task -> Entry]
    /\ proc \in [Procs -> [pc : BusyPC \cup FreePC, op : Op, task : made \cup {0},
                          svr : Entry, todo : SUBSET made]]
    /\ \A p \in Procs : proc[p].pc \in BusyPC => proc[p].task \in made
    /\ cnf \in [pc : {"read", "test", "send", "end"}, todo : Seq(Port), task : made \cup {0}]
    /\ cnf.pc \in {"test", "send"} => cnf.task \in made
    /\ openTask \in Seq(made) /\ closeClient \in {"none", "sent", "taken", "dropped"}
    /\ lost \subseteq Servers /\ late \subseteq Task /\ raced \subseteq Task

\* A server that listens, or is about to, is the one RunList has for its task, so that
\* StopServer can close it; except a server that was closed before it listened, whose
\* entry AddTask overwrote, or whose entry was deleted on behalf of another one.
ListeningRegistered ==
    \A s \in Servers : srv[s].pc \in {"new", "listening"} =>
       s \in lost \/ runList[srv[s].task] = s

\* A task that no two goroutines worked on at a time is served, once everything is
\* quiet, if and only if it is in the database with Status true and the port could be
\* opened for it, and then by the one server that RunList has for it.
SettledAgrees ==
    Quiet => \A t \in Task \ (raced \cup SecretTask) :
       /\ Serving(t) = {runList[t]} \ {NoEntry}
       /\ Serving(t) # {} => t \in tasks /\ status[t]
       /\ t \in tasks /\ status[t] =>
             \/ Serving(t) # {}
             \/ \E s \in Servers : srv[s].task = t /\ srv[s].pc = "gone"
             \/ cnf.pc = "end" /\ cnf.task = t

\* When all is quiet no task outlives its client: those that npc brought before it
\* went are deleted unless the signal was dropped, and handleDeleteClient has left
\* none; except tasks that others worked on at the same time.
NothingOutlivesClient ==
    Quiet => \A t \in tasks \ (raced \cup late) :
       /\ t \in ConfTask => up \/ closeClient = "dropped"
       /\ \A w \in Web : proc[w].op # "purge"

\* Every request, every task that npc brings and every signal is dealt with.
EverythingSettles == <>[]Quiet

\* handleStopTunnel takes the listener down: a stopped task has none.
StoppedIsDown ==
    Quiet => \A t \in tasks : ~status[t] => Serving(t) = {}
==============================================================================
