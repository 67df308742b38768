------------------------------ MODULE MCFileDb ------------------------------
(* Two handlers of every kind on the database, with one crash and one failed     *)
(* rename.                                                                       *)
EXTENDS FileDb

Rec(i) ==
    [client |-> [in |-> TRUE, key |-> i, user |-> i, on |-> TRUE, store |-> TRUE],
     task   |-> [in |-> TRUE, client |-> i, pass |-> i, on |-> TRUE, store |-> TRUE, data |-> 0, of |-> 1],
     host   |-> [in |-> TRUE, client |-> i, name |-> <<i, 1>>, on |-> TRUE, store |-> TRUE, data |-> 0, of |-> 1],
     global |-> [in |-> i = 1, store |-> TRUE, data |-> 0]]
Tables(ids) == [t \in Tab |-> [i \in Id |-> IF i \in ids THEN Rec(i)[t] ELSE NoRec[t]]]

\* Client 2, its task and its host came with npc.
NpcTables == [t \in Tab |-> [i \in Id |-> IF t # "global" THEN [Tables({1, 2})[t][i] EXCEPT !.store = i = 1]
                                          ELSE Tables({1, 2})[t][i]]]

Req(op, i) == [NoReq EXCEPT !.op = op, !.id = i]

\* Requests about client, task and host i.
Changes(i) ==
    {[Req("updateClient", i) EXCEPT !.key = 3], [Req("updateClient", i) EXCEPT !.user = 3],
     [Req("updateTask", i) EXCEPT !.pass = 3], [Req("updateTask", i) EXCEPT !.client = 3 - i, !.pass = Empty],
     [Req("toggleTask", i) EXCEPT !.data = 1], Req("startTask", i), Req("stopTask", i), Req("deleteTask", i),
     [Req("updateHost", i) EXCEPT !.name = <<3, 1>>], [Req("updateHost", i) EXCEPT !.client = 3 - i, !.name = <<i, 2>>],
     [Req("stopHost", i) EXCEPT !.on = FALSE], Req("deleteHost", i)}
\* Requests that make a record for client c with value v; those of npc store nothing.
Creations(c, v) ==
    {[Req("createClient", 0) EXCEPT !.key = v, !.user = Empty],
     [Req("createClient", 0) EXCEPT !.key = Empty, !.user = v, !.store = FALSE, !.web = FALSE],
     [Req("createTask", 0) EXCEPT !.client = c, !.pass = v],
     [Req("createHost", 0) EXCEPT !.client = c, !.name = <<v, 2>>, !.data = 1],
     [Req("confHost", 0) EXCEPT !.client = c, !.name = <<v, 1>>, !.data = 1, !.store = FALSE, !.web = FALSE],
     [Req("confTask", 0) EXCEPT !.client = c, !.pass = v, !.data = 1, !.store = FALSE, !.web = FALSE]}
Services == {[Req("flush", 0) EXCEPT !.web = FALSE], [Req("saveGlobal", 1) EXCEPT !.data = 1],
             [Req("closeClient", 2) EXCEPT !.web = FALSE]}

Setup(tables, r1, r2, apart, restarts, fails, panics) ==
    [tables |-> tables, reqs |-> <<r1, r2>>, apart |-> apart, restarts |-> restarts, fails |-> fails,
     panics |-> panics]

MCSetups ==
  << Setup(Tables({1}), Changes(1), Creations(1, 2) \cup {[Req("flush", 0) EXCEPT !.web = FALSE]}, TRUE, 1, 0, 0),
     Setup(Tables({1}), {Req("deleteClient", 1)}, Creations(1, 1), FALSE, 1, 0, 0),
     Setup(Tables({1}), {r \in Creations(1, 1) : r.web}, {r \in Creations(1, 1) : r.web}, FALSE, 0, 0, 1),
     Setup(NpcTables, Changes(1), Services \cup {Req("deleteClient", 2)}, FALSE, 0, 1, 0),
     Setup(Tables({1}), {Req("deleteTask", 1)},
           {Req("startTask", 1), Req("deleteTask", 1), [Req("updateTask", 1) EXCEPT !.pass = 3]}, FALSE, 0, 0, 0),
     Setup(NpcTables, {Req(op, 2) : op \in {"clientStatus", "clearClient", "clearTask", "toggleHost", "clearHost"}},
           {r \in Creations(2, 2) : ~r.web}, FALSE, 0, 0, 0) >>
==============================================================================
