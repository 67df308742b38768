------------------------------- MODULE FileDb -------------------------------
(***************************************************************************)
(* The database of nps: the maps of clients, tasks, hosts and the global   *)
(* settings (lib/file/db.go), the indexes that have to follow them         *)
(* (lib/index), the JSON files they are stored in (lib/file/file.go) and   *)
(* the handlers of the web interface and of npc's configuration that work  *)
(* on them, each in a goroutine of its own, while the process may die and  *)
(* start again.                                                            *)
(*                                                                         *)
(* A handler is the sequence of steps that it still has to take; a step is *)
(* an access to shared state.  A record is its pointer and, while the      *)
(* process lives, its id: handlers edit records in place.  Tasks are of    *)
(* mode secret, which need a password and open no port; one runs when its  *)
(* Status says so (RunList itself is in TaskManager).  Fields that nothing *)
(* here depends on are one field, data.                                    *)
(***************************************************************************)
EXTENDS Integers, Sequences, FiniteSets, SequencesExt

CONSTANTS Id,         \* ids of records, 1..n
          Key,        \* verify keys of clients
          Pass,       \* passwords a request may give
          Requests,   \* how many handlers run
          MaxTunnelNum, \* tasks and hosts a client may have, 0 for any number
          Setups      \* where to start: tables, the requests of each handler,
                      \* apart (they are about different records and values), restarts,
                      \* fails and panics (how often these happen)

Tab == {"client", "task", "host", "global"}
Proc == 1..Requests
Empty == 0
Keep == -1                  \* a field the request leaves alone
NoName == <<0, 0>>
Rnd(n) == 100 + n           \* crypt.GetRandomString: a value nobody else has

NoRec == [client |-> [in |-> FALSE, key |-> Empty, user |-> Empty, on |-> FALSE, store |-> FALSE],
          task   |-> [in |-> FALSE, client |-> 0, pass |-> Empty, on |-> FALSE, store |-> FALSE,
                      data |-> 0, of |-> 0],
          host   |-> [in |-> FALSE, client |-> 0, name |-> NoName, on |-> FALSE, store |-> FALSE,
                      data |-> 0, of |-> 0],
          global |-> [in |-> FALSE, store |-> TRUE, data |-> 0]]
NoReq == [op |-> "none", id |-> 0, client |-> Keep, key |-> Keep, user |-> Keep, pass |-> Keep,
          name |-> NoName, on |-> TRUE, store |-> TRUE, data |-> Keep, web |-> TRUE]
NoTmp == [due |-> {}, seen |-> {}, recs |-> <<>>]
NoTables == [t \in Tab |-> [i \in Id |-> NoRec[t]]]

VARIABLES mem,     \* the records, in: in the map of their table
          next,    \* ClientIncreaseId, TaskIncreaseId, HostIncreaseId
          vkeys,   \* Blake2bVkeyIndex
          passes,  \* TaskPasswordIndex
          names,   \* HostIndex, as pairs of a name and an id
          disk,    \* the JSON files
          lock,    \* clientLock, taskLock, hostLock, globalLock: 0 or the holder
          tmp,     \* what the temporary files hold: the ids that Range has visited
          proc,    \* the handlers: [todo, req, res]
          ask,     \* the setup, and the restarts and failures left of it
          dirty,   \* history: tables whose last rename failed
          life     \* history: per client id, how many clients have had it; the field of
                   \* of a task or host is the one it was given to

indexes == <<vkeys, passes, names>>
skipped == <<mem, next, indexes, disk, lock, tmp, dirty, life>>
vars == <<mem, next, indexes, disk, lock, tmp, proc, ask, dirty, life>>

Keys == Key \cup {Empty} \cup {Rnd(p) : p \in Proc}
Passes == Pass \cup {Empty} \cup {Rnd(i) : i \in Id}
In(t, i) == mem[t][i].in
Live(t) == {i \in Id : In(t, i)}
Stored(r, t) == IF r.in /\ r.store THEN r ELSE NoRec[t]

------------------------------------------------------------------------------
(* Handlers as programs *)

Step(act, t, id) == [act |-> act, tab |-> t, id |-> id]
Steps(t, id, acts) == [k \in DOMAIN acts |-> Step(acts[k], t, id)]

\* StoreClientsToJsonFile and the like: under the lock of the table.
Save(t, id) == Steps(t, id, <<"lock", "range", "rename">>)

NewClient(id) == Steps("client", id, <<"verify", "put", "addKey">>) \o Save("client", id)
DelClient(id) == Steps("client", id, <<"dropKey", "delete">>) \o Save("client", id)

NewTask(id) == Steps("task", id, <<"claim", "addPass", "put">>) \o Save("task", id)
UpdateTask(id) == Steps("task", id, <<"unclaim", "claim", "addPass", "put">>) \o Save("task", id)
DelTask(id) == Steps("task", id, <<"dropPass", "delete">>) \o Save("task", id)

NewHost(id) == Steps("host", id, <<"isHostExist", "addName", "put">>) \o Save("host", id)
DelHost(id) == Steps("host", id, <<"dropName", "delete">>) \o Save("host", id)

SaveGlobal == Steps("global", 1, <<"edit">>) \o Save("global", 1)

\* server.go: StopServer gives up on a task that is gone, and so does StartTask.
StopServer(id) == Steps("task", id, <<"stop">>) \o UpdateTask(id)
StartTask(id) == Steps("task", id, <<"start">>) \o UpdateTask(id)
ServerDelTask(id) == Steps("task", id, <<"ifRunning">>) \o StopServer(id) \o DelTask(id)

handleCreateClient(r) == NewClient(0)
\* Fault: the new key is never entered into the index.
UpdateWithoutIndex(r) ==
    Steps("client", r.id, <<"get", "verifyKey", "removeKey", "setKey", "edit", "edit">>) \o Save("client", r.id)

handleUpdateClient(r) ==
    Steps("client", r.id, <<"get", "verifyKey", "removeKey", "setKey", "addKey", "edit">>)
      \o Save("client", r.id)
handleClientStatus(r) == Steps("client", r.id, <<"get", "edit">>) \o Save("client", r.id)
handleClearClient(r) == handleClientStatus(r)
handleDeleteClient(r) ==
    Steps("client", r.id, <<"get">>) \o DelClient(r.id)
      \o Steps("task", r.id, <<"sweep">>) \o Steps("host", r.id, <<"sweep">>)

handleCreateTunnel(r) ==
    Steps("client", r.client, <<"get", "quota">>) \o Steps("task", 0, <<"make">>) \o NewTask(0)
      \o Steps("task", 0, <<"limit">>) \o Save("task", 0)
handleUpdateTunnel(r) ==
    Steps("task", r.id, <<"get", "move", "edit">>) \o UpdateTask(r.id)
      \o StopServer(r.id) \o StartTask(r.id)
handleDeleteTunnel(r) == Steps("task", r.id, <<"get">>) \o ServerDelTask(r.id)
handleStartTunnel(r) == Steps("task", r.id, <<"get">>) \o StartTask(r.id)
handleStopTunnel(r) == Steps("task", r.id, <<"get">>) \o StopServer(r.id)
handleToggleTunnel(r) == Steps("task", r.id, <<"get", "edit">>) \o UpdateTask(r.id)
handleClearTunnel(r) == handleToggleTunnel(r)

handleCreateHost(r) ==
    Steps("client", r.client, <<"get", "quota">>) \o Steps("host", 0, <<"make">>) \o NewHost(0)
      \o Steps("host", 0, <<"limit">>) \o Save("host", 0)
handleUpdateHost(r) ==
    Steps("host", r.id, <<"get", "move", "plan", "removeName", "newName", "setName", "edit">>)
      \o Save("host", r.id)
handleDeleteHost(r) == Steps("host", r.id, <<"get">>) \o DelHost(r.id)
setHostClosed(r) == Steps("host", r.id, <<"get", "edit">>) \o Save("host", r.id)
handleToggleHost(r) == setHostClosed(r)
handleClearHost(r) == setHostClosed(r)

\* NEW_HOST: a host that the client already has is updated, unless it is stored.
confHost(r) == Steps("host", 0, <<"make", "hasHost">>) \o NewHost(0)
\* NEW_TASK; DealBridgeTask then restarts the task.
confTask(r) ==
    Steps("task", 0, <<"make", "hasTunnel">>) \o NewTask(0) \o StopServer(0) \o StartTask(0)
\* DealBridgeTask, CloseClient: what npc brought goes, and so does a client it made.
closeClient(r) ==
    Steps("task", r.id, <<"sweepNoStore">>) \o Steps("host", r.id, <<"sweepNoStore">>)
      \o Steps("client", r.id, <<"ifNoStore">>) \o DelClient(r.id)
flowSession(r) == Save("host", 0) \o Save("task", 0) \o Save("client", 0) \o Save("global", 0)

Program(r) ==
    CASE r.op = "createClient" -> handleCreateClient(r)
      [] r.op = "updateClient" -> handleUpdateClient(r)
      [] r.op = "clientStatus" -> handleClientStatus(r)
      [] r.op = "clearClient"  -> handleClearClient(r)
      [] r.op = "deleteClient" -> handleDeleteClient(r)
      [] r.op = "createTask"   -> handleCreateTunnel(r)
      [] r.op = "updateTask"   -> handleUpdateTunnel(r)
      [] r.op = "deleteTask"   -> handleDeleteTunnel(r)
      [] r.op = "startTask"    -> handleStartTunnel(r)
      [] r.op = "stopTask"     -> handleStopTunnel(r)
      [] r.op = "toggleTask"   -> handleToggleTunnel(r)
      [] r.op = "clearTask"    -> handleClearTunnel(r)
      [] r.op = "createHost"   -> handleCreateHost(r)
      [] r.op = "updateHost"   -> handleUpdateHost(r)
      [] r.op = "deleteHost"   -> handleDeleteHost(r)
      [] r.op = "stopHost"     -> setHostClosed(r)
      [] r.op = "toggleHost"   -> handleToggleHost(r)
      [] r.op = "clearHost"    -> handleClearHost(r)
      [] r.op = "confHost"     -> confHost(r)
      [] r.op = "confTask"     -> confTask(r)
      [] r.op = "closeClient"  -> closeClient(r)
      [] r.op = "saveGlobal"   -> SaveGlobal
      [] r.op = "flush"        -> flowSession(r)

------------------------------------------------------------------------------
(* Steps *)

Cur(p) == Head(proc[p].todo)
Running(p) == proc[p].res = "run"
At(p, act, t) == Running(p) /\ Cur(p).act = act /\ Cur(p).tab = t

\* The handler goes on with todo, or is done.
With(p, todo, req) ==
    proc' = [proc EXCEPT ![p] = [todo |-> todo, req |-> req,
                                 res |-> IF todo = <<>> THEN "ok" ELSE "run"]]
Rest(p, n) == SubSeq(proc[p].todo, n + 1, Len(proc[p].todo))
Go(p) == With(p, Rest(p, 1), proc[p].req)
Refuse(p) == proc' = [proc EXCEPT ![p].todo = <<>>, ![p].res = "refused"]
GoIf(p, ok) == IF ok THEN Go(p) ELSE Refuse(p)
\* The steps on a new record learn its id.
GoWithId(p, t, id) ==
    With(p, [k \in DOMAIN Rest(p, 1) |->
               LET s == Rest(p, 1)[k] IN
               IF s.tab = t /\ s.id = 0 THEN [s EXCEPT !.id = id] ELSE s], proc[p].req)

\* GetClient, GetTask and GetHostById in a handler that needs the record.
Get(p) ==
    /\ \E t \in Tab : At(p, "get", t)
    /\ GoIf(p, In(Cur(p).tab, Cur(p).id))
    /\ UNCHANGED skipped

\* Tasks.Store or Hosts.Store.
Put(p) ==
    /\ \E t \in {"task", "host"} : At(p, "put", t)
    /\ mem' = [mem EXCEPT ![Cur(p).tab][Cur(p).id].in = TRUE]
    /\ Go(p)
    /\ UNCHANGED <<next, indexes, disk, lock, tmp, dirty, life>>

\* Clients.Delete, Tasks.Delete or Hosts.Delete.
Delete(p) ==
    /\ \E t \in Tab : At(p, "delete", t)
    /\ mem' = [mem EXCEPT ![Cur(p).tab][Cur(p).id].in = FALSE]
    /\ Go(p)
    /\ UNCHANGED <<next, indexes, disk, lock, tmp, dirty, life>>

(* Clients *)

VerifyVkey(key, id) == \A i \in Live("client") \ {id} : mem.client[i].key # key
VerifyUserName(user, id) == \A i \in Live("client") \ {id} : mem.client[i].user # user

\* NewClient: a key that is not given is made up until nobody has it.
VerifyNew(p) ==
    LET r == proc[p].req IN
    /\ At(p, "verify", "client")
    /\ IF (r.user # Empty /\ ~VerifyUserName(r.user, 0)) \/ ~VerifyVkey(r.key, 0)
       THEN Refuse(p)
       ELSE With(p, Rest(p, 1), [r EXCEPT !.key = IF @ = Empty THEN Rnd(p) ELSE @])
    /\ UNCHANGED skipped

\* GetClientId and Clients.Store.
PutClient(p) ==
    LET r == proc[p].req
        id == next.client + 1 IN
    /\ At(p, "put", "client") /\ id \in Id
    /\ next' = [next EXCEPT !.client = id]
    /\ mem' = [mem EXCEPT !.client[id] = [in |-> TRUE, key |-> r.key, user |-> r.user,
                                          on |-> TRUE, store |-> r.store]]
    /\ life' = [life EXCEPT ![id] = @ + 1]
    /\ GoWithId(p, "client", id)
    /\ UNCHANGED <<indexes, disk, lock, tmp, dirty>>

\* Blake2bVkeyIndex.Add, and its removal by DelClient.
IndexKey(p) ==
    LET id == Cur(p).id
        key == mem.client[id].key IN
    /\ \/ At(p, "addKey", "client") /\ vkeys' = [vkeys EXCEPT ![key] = id]
       \/ At(p, "dropKey", "client")
          /\ vkeys' = IF In("client", id) THEN [vkeys EXCEPT ![key] = 0] ELSE vkeys
    /\ Go(p)
    /\ UNCHANGED <<mem, next, passes, names, disk, lock, tmp, dirty, life>>

\* handleUpdateClient: names and keys that change must be free.
VerifyUpdate(p) ==
    LET r == proc[p].req
        c == mem.client[Cur(p).id]
        newUser == r.user \notin {Keep, c.user}
        newKey == r.key \notin {Keep, c.key} IN
    /\ At(p, "verifyKey", "client")
    /\ CASE newUser /\ r.user # Empty /\ ~VerifyUserName(r.user, Cur(p).id) -> Refuse(p)
         [] newKey /\ ~VerifyVkey(r.key, Cur(p).id) -> Refuse(p)
         [] newKey -> Go(p)
         [] OTHER -> With(p, Rest(p, 4), r)
    /\ UNCHANGED skipped

\* The old entry goes before the new key is set.
Rekey(p) ==
    LET id == Cur(p).id IN
    /\ \/ /\ At(p, "removeKey", "client")
          /\ vkeys' = [vkeys EXCEPT ![mem.client[id].key] = 0]
          /\ mem' = mem
       \/ /\ At(p, "setKey", "client")
          /\ mem' = [mem EXCEPT !.client[id].key = proc[p].req.key]
          /\ vkeys' = vkeys
    /\ Go(p)
    /\ UNCHANGED <<next, passes, names, disk, lock, tmp, dirty, life>>

Given(x, old) == IF x = Keep THEN old ELSE x

EditClient(p) ==
    LET id == Cur(p).id
        r == proc[p].req IN
    /\ At(p, "edit", "client")
    /\ mem' = [mem EXCEPT !.client[id].user = Given(r.user, @), !.client[id].on = r.on]
    /\ Go(p)
    /\ UNCHANGED <<next, indexes, disk, lock, tmp, dirty, life>>

GetTunnelNum(c) == Cardinality({i \in Live("task") : mem.task[i].client = c})
                     + Cardinality({i \in Live("host") : mem.host[i].client = c})

Quota(p) ==
    /\ At(p, "quota", "client")
    /\ GoIf(p, MaxTunnelNum = 0 \/ GetTunnelNum(Cur(p).id) < MaxTunnelNum)
    /\ UNCHANGED skipped

\* DealBridgeTask: a client that npc brought goes with it.
IfNoStore(p) ==
    LET id == Cur(p).id IN
    /\ At(p, "ifNoStore", "client")
    /\ With(p, IF In("client", id) /\ ~mem.client[id].store THEN Rest(p, 1) ELSE <<>>, proc[p].req)
    /\ UNCHANGED skipped

(* Tasks *)

UpdateLen == Len(UpdateTask(0))
DelLen == Len(DelTask(0))

\* GetTaskId or GetHostId, and the new object that only this handler knows.
Make(p) ==
    LET t == Cur(p).tab
        id == next[t] + 1
        r == proc[p].req IN
    /\ \E u \in {"task", "host"} : At(p, "make", u)
    /\ id \in Id
    /\ next' = [next EXCEPT ![t] = id]
    /\ mem' = IF t = "task"
              THEN [mem EXCEPT !.task[id] =
                     [in |-> FALSE, client |-> r.client, pass |-> IF r.pass = Empty THEN Rnd(id) ELSE r.pass,
                      on |-> TRUE, store |-> r.store, data |-> 0, of |-> life[r.client]]]
              ELSE [mem EXCEPT !.host[id] =
                     [in |-> FALSE, client |-> r.client, name |-> r.name, on |-> TRUE,
                      store |-> r.store, data |-> 0, of |-> life[r.client]]]
    /\ GoWithId(p, t, id)
    /\ UNCHANGED <<indexes, disk, lock, tmp, dirty, life>>

\* NEW_TASK: HasTunnel; a task of npc is updated and restarted, a stored one is left alone.
HasTunnel(p) ==
    LET r == proc[p].req
        has == {i \in Live("task") : mem.task[i].client = r.client /\ mem.task[i].pass = r.pass} IN
    /\ At(p, "hasTunnel", "task")
    /\ \/ has = {} /\ Go(p) /\ mem' = mem
       \/ \E i \in has :
            IF mem.task[i].store
            THEN With(p, <<>>, r) /\ mem' = mem
            ELSE /\ mem' = [mem EXCEPT !.task[i].data = r.data]
                 /\ With(p, StopServer(i) \o StartTask(i), r)
    /\ UNCHANGED <<next, indexes, disk, lock, tmp, dirty, life>>

\* NewTask and UpdateTask: a password that another task has is replaced.
Claim(p) ==
    LET id == Cur(p).id
        pass == mem.task[id].pass IN
    /\ At(p, "claim", "task")
    /\ mem' = IF passes[pass] \in {0, id} THEN mem ELSE [mem EXCEPT !.task[id].pass = Rnd(id)]
    /\ Go(p)
    /\ UNCHANGED <<next, indexes, disk, lock, tmp, dirty, life>>

\* UpdateTask: the object in the map is the one that has been edited already, so
\* what is taken out of the index is the new password.
Unclaim(p) ==
    LET id == Cur(p).id
        pass == IF mem.task[id].pass = Empty THEN Rnd(id) ELSE mem.task[id].pass IN
    /\ At(p, "unclaim", "task")
    /\ mem' = [mem EXCEPT !.task[id].pass = pass]
    /\ passes' = IF In("task", id) /\ passes[pass] = id THEN [passes EXCEPT ![pass] = 0] ELSE passes
    /\ Go(p)
    /\ UNCHANGED <<next, vkeys, names, disk, lock, tmp, dirty, life>>

\* TaskPasswordIndex.Add, and the removal in DelTask.
IndexPass(p) ==
    LET id == Cur(p).id
        pass == mem.task[id].pass IN
    /\ \/ At(p, "addPass", "task") /\ passes' = [passes EXCEPT ![pass] = id]
       \/ At(p, "dropPass", "task")
          /\ passes' = IF In("task", id) THEN [passes EXCEPT ![pass] = 0] ELSE passes
    /\ Go(p)
    /\ UNCHANGED <<mem, next, vkeys, names, disk, lock, tmp, dirty, life>>

\* StopServer; without the task it fails, and server.DelTask with it.
Stop(p) ==
    LET id == Cur(p).id
        past == IF Len(proc[p].todo) > UpdateLen + 1 /\ proc[p].todo[UpdateLen + 2].act = "dropPass"
                THEN DelLen ELSE 0 IN
    /\ At(p, "stop", "task")
    /\ IF In("task", id)
       THEN mem' = [mem EXCEPT !.task[id].on = FALSE] /\ Go(p)
       ELSE mem' = mem /\ With(p, Rest(p, 1 + UpdateLen + past), proc[p].req)
    /\ UNCHANGED <<next, indexes, disk, lock, tmp, dirty, life>>

\* StartTask.
StartIt(p) ==
    LET id == Cur(p).id IN
    /\ At(p, "start", "task")
    /\ IF In("task", id)
       THEN mem' = [mem EXCEPT !.task[id].on = TRUE] /\ Go(p)
       ELSE mem' = mem /\ Refuse(p)
    /\ UNCHANGED <<next, indexes, disk, lock, tmp, dirty, life>>

\* server.DelTask: only a task in RunList is stopped first.
IfRunning(p) ==
    /\ At(p, "ifRunning", "task")
    /\ With(p, Rest(p, IF mem.task[Cur(p).id].on THEN 1 ELSE 2 + UpdateLen), proc[p].req)
    /\ UNCHANGED skipped

\* A task or host moves to another client: GetClient, and the pointer to it.
Move(p) ==
    LET t == Cur(p).tab
        id == Cur(p).id
        c == proc[p].req.client IN
    /\ \E u \in {"task", "host"} : At(p, "move", u)
    /\ IF c \in {Keep, mem[t][id].client}
       THEN mem' = mem /\ Go(p)
       ELSE IF In("client", c)
       THEN mem' = [mem EXCEPT ![t][id].client = c, ![t][id].of = life[c]] /\ Go(p)
       ELSE mem' = mem /\ Refuse(p)
    /\ UNCHANGED <<next, indexes, disk, lock, tmp, dirty, life>>

\* The fields of a request, written into the record that everyone sees.
EditTask(p) ==
    LET id == Cur(p).id
        r == proc[p].req IN
    /\ At(p, "edit", "task")
    /\ mem' = [mem EXCEPT !.task[id].pass = Given(r.pass, @), !.task[id].data = Given(r.data, @)]
    /\ Go(p)
    /\ UNCHANGED <<next, indexes, disk, lock, tmp, dirty, life>>

EditHost(p) ==
    LET id == Cur(p).id
        r == proc[p].req IN
    /\ At(p, "edit", "host")
    /\ mem' = [mem EXCEPT !.host[id].on = r.on, !.host[id].data = Given(r.data, @)]
    /\ Go(p)
    /\ UNCHANGED <<next, indexes, disk, lock, tmp, dirty, life>>

EditGlobal(p) ==
    /\ At(p, "edit", "global")
    /\ mem' = [mem EXCEPT !.global[1].data = proc[p].req.data]
    /\ Go(p)
    /\ UNCHANGED <<next, indexes, disk, lock, tmp, dirty, life>>

\* applyTunnelFlowFields or applyHostFlowFields after the record is in its map: only
\* a request that gives a limit stores it again.
Limit(p) ==
    LET t == Cur(p).tab
        r == proc[p].req IN
    /\ \E u \in {"task", "host"} : At(p, "limit", u)
    /\ IF r.data = Keep
       THEN mem' = mem /\ With(p, <<>>, r)
       ELSE mem' = [mem EXCEPT ![t][Cur(p).id].data = r.data] /\ Go(p)
    /\ UNCHANGED <<next, indexes, disk, lock, tmp, dirty, life>>

\* DelTunnelAndHostByClientId: the ids first, then one deletion after the other.
Sweep(p) ==
    LET t == Cur(p).tab
        ids == {i \in Live(t) : /\ mem[t][i].client = Cur(p).id
                                /\ Cur(p).act = "sweepNoStore" => ~mem[t][i].store} IN
    /\ \E act \in {"sweep", "sweepNoStore"}, u \in {"task", "host"} : At(p, act, u)
    /\ \E order \in SetToSeqs(ids) :
         With(p, FlattenSeq([k \in DOMAIN order |->
                   IF t = "task" THEN ServerDelTask(order[k]) ELSE DelHost(order[k])]) \o Rest(p, 1),
              proc[p].req)
    /\ UNCHANGED skipped

(* Hosts: a name is a pair of a host and a location, and HostIndex knows the first *)

IsHostExist(name, id) == \E i \in Live("host") \ {id} : mem.host[i].name = name

\* NewHost refuses a route that exists.
CheckHost(p) ==
    /\ At(p, "isHostExist", "host")
    /\ GoIf(p, ~IsHostExist(mem.host[Cur(p).id].name, Cur(p).id))
    /\ UNCHANGED skipped

\* HostIndex.Add and Remove in NewHost, DelHost and handleUpdateHost.
IndexName(p) ==
    LET id == Cur(p).id
        name == mem.host[id].name
        new == proc[p].req.name IN
    /\ \/ At(p, "addName", "host") /\ names' = names \cup {<<name[1], id>>} /\ Go(p)
       \/ At(p, "dropName", "host") /\ Go(p)
          /\ names' = IF In("host", id) THEN names \ {<<name[1], id>>} ELSE names
       \/ At(p, "removeName", "host")
          /\ IF new[1] # name[1] THEN names' = names \ {<<name[1], id>>} /\ Go(p)
             ELSE names' = names /\ With(p, Rest(p, 2), proc[p].req)
       \/ At(p, "newName", "host") /\ names' = names \cup {<<new[1], id>>} /\ Go(p)
    /\ UNCHANGED <<mem, next, vkeys, passes, disk, lock, tmp, dirty, life>>

\* handleUpdateHost works out the new route, and gives up when another host has it.
Plan(p) ==
    LET id == Cur(p).id
        r == proc[p].req
        new == IF r.name = NoName THEN mem.host[id].name ELSE r.name IN
    /\ At(p, "plan", "host")
    /\ IF new # mem.host[id].name /\ IsHostExist(new, id) THEN Refuse(p)
       ELSE With(p, Rest(p, 1), [r EXCEPT !.name = new])
    /\ UNCHANGED skipped

SetName(p) ==
    /\ At(p, "setName", "host")
    /\ mem' = [mem EXCEPT !.host[Cur(p).id].name = proc[p].req.name]
    /\ Go(p)
    /\ UNCHANGED <<next, indexes, disk, lock, tmp, dirty, life>>

\* NEW_HOST: HasHost, and the update of a host that npc brought.
HasHost(p) ==
    LET r == proc[p].req
        has == {i \in Live("host") : mem.host[i].client = r.client /\ mem.host[i].name = r.name} IN
    /\ At(p, "hasHost", "host")
    /\ \/ has = {} /\ Go(p) /\ mem' = mem
       \/ \E i \in has :
            /\ mem' = IF mem.host[i].store THEN mem ELSE [mem EXCEPT !.host[i].data = r.data]
            /\ With(p, <<>>, r)
    /\ UNCHANGED <<next, indexes, disk, lock, tmp, dirty, life>>

(* Files *)

\* storeSyncMapToFile under the lock of the table: the temporary file is there.
Lock(p) ==
    LET t == Cur(p).tab IN
    /\ \E u \in Tab : At(p, "lock", u)
    /\ lock[t] = 0
    /\ lock' = [lock EXCEPT ![t] = p]
    /\ tmp' = [tmp EXCEPT ![t] = [due |-> Live(t), seen |-> {}, recs |-> NoTables[t]]]
    /\ Go(p)
    /\ UNCHANGED <<mem, next, indexes, disk, dirty, life>>

\* Fault: the callback returns false for a NoStore record, which ends the Range.
VisitStops(p) ==
    LET t == Cur(p).tab IN
    /\ \E u \in Tab : At(p, "range", u)
    /\ \/ \E i \in Live(t) \ tmp[t].seen :
            /\ tmp' = [tmp EXCEPT ![t].seen = @ \cup {i}, ![t].recs[i] = Stored(mem[t][i], t)]
            /\ IF mem[t][i].store THEN UNCHANGED proc ELSE Go(p)
       \/ tmp[t].due \cap Live(t) \subseteq tmp[t].seen /\ UNCHANGED tmp /\ Go(p)
    /\ UNCHANGED <<mem, next, indexes, disk, lock, dirty, life>>

\* Range visits every key that stays, each once and as it then is; a key that
\* comes or goes meanwhile may be visited or not.
Visit(p) ==
    LET t == Cur(p).tab IN
    /\ \E u \in Tab : At(p, "range", u)
    /\ \/ \E i \in Live(t) \ tmp[t].seen :
            /\ tmp' = [tmp EXCEPT ![t].seen = @ \cup {i}, ![t].recs[i] = Stored(mem[t][i], t)]
            /\ UNCHANGED proc
       \/ tmp[t].due \cap Live(t) \subseteq tmp[t].seen /\ UNCHANGED tmp /\ Go(p)
    /\ UNCHANGED <<mem, next, indexes, disk, lock, dirty, life>>

\* Fault: an error of os.Rename returns before the unlock.
RenameReturnsEarly(p) ==
    LET t == Cur(p).tab IN
    /\ \E u \in Tab : At(p, "rename", u)
    /\ \/ /\ disk' = [disk EXCEPT ![t] = tmp[t].recs] /\ dirty' = dirty \ {t}
          /\ lock' = [lock EXCEPT ![t] = 0] /\ tmp' = [tmp EXCEPT ![t] = NoTmp] /\ UNCHANGED ask
       \/ /\ ask.fails > 0 /\ ask' = [ask EXCEPT !.fails = @ - 1]
          /\ dirty' = dirty \cup {t} /\ UNCHANGED <<disk, lock, tmp>>
    /\ Go(p)
    /\ UNCHANGED <<mem, next, indexes, life>>

\* os.Rename; its error is only logged.
Rename(p) ==
    LET t == Cur(p).tab IN
    /\ \E u \in Tab : At(p, "rename", u)
    /\ \/ disk' = [disk EXCEPT ![t] = tmp[t].recs] /\ dirty' = dirty \ {t} /\ UNCHANGED ask
       \/ /\ ask.fails > 0 /\ ask' = [ask EXCEPT !.fails = @ - 1]
          /\ dirty' = dirty \cup {t} /\ disk' = disk
    /\ lock' = [lock EXCEPT ![t] = 0]
    /\ tmp' = [tmp EXCEPT ![t] = NoTmp]
    /\ Go(p)
    /\ UNCHANGED <<mem, next, indexes, life>>

\* Any other error of the file system is a panic, which WithRecover catches in a
\* handler of the web interface: the lock stays taken.
Panic(p) ==
    /\ \E u \in Tab : At(p, "range", u)
    /\ proc[p].req.web
    /\ ask.panics > 0 /\ ask' = [ask EXCEPT !.panics = @ - 1]
    /\ proc' = [proc EXCEPT ![p].todo = <<>>, ![p].res = "panicked"]
    /\ dirty' = dirty \cup {Cur(p).tab}
    /\ UNCHANGED <<mem, next, indexes, disk, lock, tmp, life>>

(* Requests and the process *)

Start(p) ==
    /\ proc[p].res = "new"
    /\ \E r \in Setups[ask.case].reqs[p] : With(p, Program(r), r)
    /\ UNCHANGED skipped

\* Fault: a task or host is loaded whether its client is there or not.
LoadedAll(d) == d

\* GetDb loads the files, clients first: a task or host without its client is not loaded.
LoadTask(d, i) == IF d.task[i].in /\ d.client[d.task[i].client].in THEN d.task[i] ELSE NoRec.task
LoadHost(d, i) == IF d.host[i].in /\ d.client[d.host[i].client].in THEN d.host[i] ELSE NoRec.host
Loaded(d) == [client |-> d.client, task |-> [i \in Id |-> LoadTask(d, i)],
              host |-> [i \in Id |-> LoadHost(d, i)], global |-> d.global]
MaxIn(m, t) == Max({0} \cup {i \in Id : m[t][i].in})

\* Of two records with one key or password, the later one in the file is found.
LoadIndexes(m) ==
    LET having(t, f, x) == {i \in Id : m[t][i].in /\ m[t][i][f] = x}
        found(ids, last) == IF last \in ids THEN last ELSE Max({0} \cup ids) IN
    \E last \in Id :
        /\ vkeys' = [k \in Keys |-> found(having("client", "key", k), last)]
        /\ passes' = [w \in Passes |-> found(having("task", "pass", w), last)]
        /\ names' = {<<m.host[i].name[1], i>> : i \in {i \in Id : m.host[i].in}}

Restart ==
    /\ ask.restarts > 0 /\ ask' = [ask EXCEPT !.restarts = @ - 1]
    /\ mem' = Loaded(disk)
    /\ LoadIndexes(Loaded(disk))
    /\ next' = [t \in {"client", "task", "host"} |-> MaxIn(Loaded(disk), t)]
    /\ lock' = [t \in Tab |-> 0] /\ tmp' = [t \in Tab |-> NoTmp]
    /\ proc' = [p \in Proc |-> IF Running(p) THEN [proc[p] EXCEPT !.todo = <<>>, !.res = "dead"] ELSE proc[p]]
    /\ dirty' = {}
    /\ UNCHANGED <<disk, life>>

------------------------------------------------------------------------------

Init ==
    \E c \in DOMAIN Setups : LET s == Setups[c] IN
        /\ mem = s.tables
        /\ disk = [t \in Tab |-> [i \in Id |-> Stored(mem[t][i], t)]]
        /\ next = [t \in {"client", "task", "host"} |-> MaxIn(mem, t)]
        /\ vkeys = [k \in Keys |-> Max({0} \cup {i \in Live("client") : mem.client[i].key = k})]
        /\ passes = [w \in Passes |-> Max({0} \cup {i \in Live("task") : mem.task[i].pass = w})]
        /\ names = {<<mem.host[i].name[1], i>> : i \in Live("host")}
        /\ lock = [t \in Tab |-> 0] /\ tmp = [t \in Tab |-> NoTmp]
        /\ proc = [p \in Proc |-> [todo |-> <<>>, req |-> NoReq, res |-> "new"]]
        /\ ask = [case |-> c, restarts |-> s.restarts, fails |-> s.fails, panics |-> s.panics]
        /\ dirty = {}
        /\ life = [i \in Id |-> IF In("client", i) THEN 1 ELSE 0]

Handle(p) ==
    \/ /\ \/ Get(p) \/ Put(p) \/ Delete(p) \/ VerifyNew(p) \/ PutClient(p) \/ IndexKey(p)
          \/ VerifyUpdate(p) \/ Rekey(p) \/ EditClient(p) \/ Quota(p) \/ IfNoStore(p)
          \/ Make(p) \/ HasTunnel(p) \/ Claim(p) \/ Unclaim(p) \/ IndexPass(p) \/ Stop(p)
          \/ StartIt(p) \/ IfRunning(p) \/ Move(p) \/ EditTask(p) \/ EditHost(p) \/ EditGlobal(p) \/ Limit(p) \/ Sweep(p)
          \/ CheckHost(p) \/ IndexName(p) \/ Plan(p) \/ SetName(p) \/ HasHost(p)
          \/ Lock(p) \/ Visit(p)
       /\ UNCHANGED ask
    \/ Rename(p)

Next ==
    \/ \E p \in Proc : (Start(p) /\ UNCHANGED ask) \/ Handle(p) \/ Panic(p)
    \/ Restart

\* The Go scheduler does not stop while some goroutine can run.
Spec == Init /\ [][Next]_vars /\ WF_vars(\E p \in Proc : Handle(p))

------------------------------------------------------------------------------

Answers == {"new", "run", "ok", "refused", "panicked", "dead"}

\* Every variable has its type: ids, keys and passwords are the known ones, and a
\* lock is free or held by a handler.
TypeOK ==
    /\ \A t \in Tab, i \in Id : DOMAIN mem[t][i] = DOMAIN NoRec[t] /\ DOMAIN disk[t][i] = DOMAIN NoRec[t]
    /\ next \in [{"client", "task", "host"} -> {0} \cup Id]
    /\ vkeys \in [Keys -> {0} \cup Id] /\ passes \in [Passes -> {0} \cup Id]
    /\ lock \in [Tab -> {0} \cup Proc] /\ dirty \subseteq Tab
    /\ \A p \in Proc : proc[p].res \in Answers /\ (Running(p) <=> proc[p].todo # <<>>)

\* p still has to store table t, after whatever it has changed in it.
WillStore(p, t) == \E k \in DOMAIN proc[p].todo : proc[p].todo[k].act = "rename" /\ proc[p].todo[k].tab = t

\* In the file but not loaded, since its client was gone when the process started.
Orphan(t, i) ==
    /\ t \in {"task", "host"} /\ ~In(t, i) /\ disk[t][i].in
    /\ \/ ~In("client", disk[t][i].client)
       \/ disk[t][i].of # life[disk[t][i].client]

\* Whatever the interleaving, once nobody has a table still to store its file says
\* what its map says, record by record: no handler's change is lost between another
\* handler's Range and its Rename (StoreTasksToJsonFile and the like take the lock
\* of the table).  Not so after a failed rename, for the tasks and hosts whose client is
\* gone, which stay in the file until the next store, and after an edit that is
\* refused once the record has moved.
FilesFollowMaps ==
    \A t \in Tab \ dirty :
        (\A p \in Proc : ~WillStore(p, t) /\ ~(proc[p].res = "refused" /\ proc[p].req.op = "updateHost")) =>
            \A i \in Id : disk[t][i] = Stored(mem[t][i], t) \/ Orphan(t, i)

\* A handler works on a record.
WorksOn(p, t, i) == Running(p) /\ \E k \in DOMAIN proc[p].todo : proc[p].todo[k].tab = t /\ proc[p].todo[k].id = i

\* As long as requests are about different records and values, a client is found by
\* its key, a task by its password and a host by its name as soon as no handler
\* works on it, so that npc, visitors and requests reach what the web interface shows.
IndexesFindRecords ==
    Setups[ask.case].apart =>
        /\ \A i \in Live("client") : (\A p \in Proc : ~WorksOn(p, "client", i)) => vkeys[mem.client[i].key] = i
        /\ \A i \in Live("task") : (\A p \in Proc : ~WorksOn(p, "task", i)) => passes[mem.task[i].pass] = i
        /\ \A i \in Live("host") : (\A p \in Proc : ~WorksOn(p, "host", i)) => <<mem.host[i].name[1], i>> \in names

\* handleDeleteClient "removes a client along with everything it owns": no task or
\* host of a client that is gone ever belongs to a later client that got the same
\* id, although the sweep comes after the client and the process may die in between.
NothingInherited ==
    \A t \in {"task", "host"} : \A i \in Live(t) :
        In("client", mem[t][i].client) => mem[t][i].of = life[mem[t][i].client]

\* p waits for a lock that a panic has left taken.
WaitsForever(p) == Running(p) /\ Cur(p).act = "lock" /\ lock[Cur(p).tab] # 0
                     /\ proc[lock[Cur(p).tab]].res = "panicked"

\* Every request is answered unless a panic has left a lock taken, or the
\* process dies: the locks are taken one at a time and a failed rename releases its lock.
RequestsAnswered == \A p \in Proc : Running(p) ~> (~Running(p) \/ WaitsForever(p))
==============================================================================
