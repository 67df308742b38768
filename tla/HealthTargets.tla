--------------------------- MODULE HealthTargets ---------------------------
(* The targets of tunnels and hosts: the checks of npc (client/health.go),    *)
(* the messages they send on the signal, GetHealthFromClient at the server    *)
(* (bridge/health.go), which takes a target out of the rotation or puts it    *)
(* back, the visitors that pick one (Target.GetRandomTarget) and the edits of *)
(* the web interface. GetHealthFromClient holds the lock of the tunnel and    *)
(* GetRandomTarget that of its Target, or none, so that their steps           *)
(* interleave.                                                                *)
EXTENDS Naturals, Sequences, SequencesExt, FiniteSets

CONSTANTS HealthCheckTarget, \* the targets of the health entry, in order
          Visitor,
          Tunnel,        \* tunnels and hosts
          Tcp,           \* tunnels of mode tcp, and the hosts
          Within,        \* pairs <<s, t>>: the text of s occurs in that of t
          Setups,        \* [lines, edit, visits, maxFail, flips, losses]:
                         \* TargetStr of every tunnel, the one an edit writes, who visits
                         \* which, bounds on changes of targets and on
                         \* losses of the connection
          MaxMsgs        \* bound: messages on the signal

Target == Range(HealthCheckTarget)

VARIABLES setup,
          turn,          \* the position of the target that is checked next
          alive,         \* whether a check of the target succeeds
          hm,            \* HealthMap: failures since the last success
          link, sig,     \* the connection of npc and the messages on it
          srv,           \* GetHealthFromClient: its message, tunnels to visit
          tun, vis,      \* the tunnels and hosts, and the visitors
          crash,         \* an index out of range ended nps
          flips, losses,
          missed         \* history: targets whose removal npc forgot

vars == <<setup, turn, alive, hm, link, sig, srv, tun, vis, crash, flips, losses, missed>>

HealthMaxFail == setup.maxFail
Idle == [t |-> "none", up |-> FALSE, todo |-> {}]
NotHere == [pc |-> "out", u |-> "none", todo |-> <<>>, loc |-> <<>>]

\* TargetArr is nil until init; stale is history: TargetStr was edited
\* later, or the list was changed under the hands of who made it.
\* HealthRemoveArr has a count per target: only membership and the first
\* occurrence of a value matter.
Init ==
    /\ setup \in Setups /\ turn = 1
    /\ alive = [t \in Target |-> TRUE] /\ hm = [t \in Target |-> 0]
    /\ link = TRUE /\ sig = <<>> /\ srv = Idle
    /\ tun = [u \in Tunnel |-> [str |-> setup.lines[u], init |-> FALSE, arr |-> <<>>, stale |-> FALSE,
                                removed |-> [t \in Target |-> 0], nowIndex |-> 0]]
    /\ vis = [v \in Visitor |-> NotHere]
    /\ crash = FALSE /\ flips = 0 /\ losses = 0 /\ missed = {}

-----------------------------------------------------------------------------
(* npc                                                                        *)

\* The count only matters modulo HealthMaxFail and as at least HealthMaxFail.
Wrapped(n) == IF n = 2 * HealthMaxFail THEN HealthMaxFail ELSE n

\* doCheck, one target after the other, each time the timer of loop finds the
\* entry due. A message is sent at every HealthMaxFail-th failure in a row, and
\* at the success after them.
doCheck ==
    /\ ~crash /\ link
    /\ turn' = 1 + (turn % Len(HealthCheckTarget))
    /\ LET t == HealthCheckTarget[turn]
           n == IF alive[t] THEN 0 ELSE Wrapped(hm[t] + 1)
           tells == IF alive[t] THEN hm[t] >= HealthMaxFail ELSE n % HealthMaxFail = 0
       IN /\ tells => Len(sig) < MaxMsgs
          /\ hm' = [hm EXCEPT ![t] = n]
          /\ sig' = IF tells THEN Append(sig, [t |-> t, up |-> alive[t]]) ELSE sig
          /\ missed' = IF tells THEN missed \ {t} ELSE missed
    /\ UNCHANGED <<setup, alive, link, srv, tun, vis, crash, flips, losses>>

\* The connection is lost, with what is on it.
Lose ==
    /\ ~crash /\ link /\ losses < setup.losses
    /\ link' = FALSE /\ losses' = losses + 1 /\ sig' = <<>>
    /\ UNCHANGED <<setup, turn, alive, hm, srv, tun, vis, crash, flips, missed>>

\* A new connection, at least five seconds later: NewHealthChecker makes new
\* maps, and knows nothing of the targets that are out of a rotation.
NewHealthChecker ==
    /\ ~crash /\ ~link /\ srv = Idle
    /\ turn' = 1 /\ link' = TRUE /\ hm' = [t \in Target |-> 0]
    /\ missed' = {t \in Target : \E u \in Tunnel : tun[u].init /\ ~Contains(tun[u].arr, t)}
    /\ UNCHANGED <<setup, alive, sig, srv, tun, vis, crash, flips, losses>>

\* A target goes or comes back.
Flip(t) ==
    /\ flips < setup.flips /\ flips' = flips + 1
    /\ alive' = [alive EXCEPT ![t] = ~@]
    /\ UNCHANGED <<setup, turn, hm, link, sig, srv, tun, vis, crash, losses, missed>>

-----------------------------------------------------------------------------
(* GetHealthFromClient                                                        *)

\* GetHealthInfo; every tunnel and host of the client is then looked at.
GetHealthInfo ==
    /\ ~crash /\ srv = Idle /\ sig # <<>>
    /\ srv' = [t |-> Head(sig).t, up |-> Head(sig).up, todo |-> Tunnel]
    /\ sig' = Tail(sig)
    /\ UNCHANGED <<setup, turn, alive, hm, link, tun, vis, crash, flips, losses, missed>>

RemoveArrVal(arr, t) ==
    IF Contains(arr, t) THEN RemoveFirst(arr, t) ELSE arr

\* HealthRemoveArr grows with every message; beyond the number of times it can
\* shrink the count makes no difference.
Grown(n) == IF n > setup.flips THEN n ELSE n + 1

\* Fault: a target that is reported again is taken for removed already.
DownOnce(r, t) ==
    LET full == ~r.init \/ (r.arr = <<>> /\ \A s \in Target : r.removed[s] = 0)
        arr  == IF full THEN r.str ELSE r.arr
    IN IF r.removed[t] > 0 THEN r
       ELSE [r EXCEPT !.init = TRUE, !.arr = RemoveArrVal(arr, t), !.removed[t] = Grown(@)]

\* A target is down: the list is made if there is none, or if it is empty
\* though nothing was removed, and the first occurrence goes.
Down(r, t) ==
    LET full == ~r.init \/ (r.arr = <<>> /\ \A s \in Target : r.removed[s] = 0)
        arr  == IF full THEN r.str ELSE r.arr
    IN [r EXCEPT !.init = TRUE, !.arr = RemoveArrVal(arr, t), !.removed[t] = Grown(@)]

\* It is up again: if it was removed and is not there, it is added at the end.
Up(r, t) ==
    IF r.removed[t] > 0 /\ ~Contains(r.arr, t)
    THEN [r EXCEPT !.arr = Append(@, t), !.removed[t] = @ - 1, !.init = TRUE] ELSE r

\* One tunnel of the Range, under its lock.
Visit(u) ==
    /\ ~crash /\ u \in srv.todo
    /\ tun' = [tun EXCEPT ![u] =
                 IF u \notin Tcp THEN @
                 ELSE IF srv.up THEN Up(@, srv.t)
                 ELSE IF \E i \in DOMAIN @.str : <<srv.t, @.str[i]>> \in Within THEN Down(@, srv.t) ELSE @]
    /\ srv' = IF srv.todo = {u} THEN Idle ELSE [srv EXCEPT !.todo = @ \ {u}]
    /\ UNCHANGED <<setup, turn, alive, hm, link, sig, vis, crash, flips, losses, missed>>

GetHealthFromClient == GetHealthInfo \/ \E u \in Tunnel : Visit(u)

-----------------------------------------------------------------------------
(* GetRandomTarget, by a visitor, and the web interface.                      *)

Arrive(v, u) ==
    /\ ~crash /\ vis[v] = NotHere /\ <<v, u>> \in setup.visits
    /\ vis' = [vis EXCEPT ![v] = [pc |-> IF tun[u].init THEN "len" ELSE "load", u |-> u,
                                  todo |-> IF tun[u].init THEN <<>> ELSE tun[u].str, loc |-> <<>>]]
    /\ UNCHANGED <<setup, turn, alive, hm, link, sig, srv, tun, crash, flips, losses, missed>>

\* s.TargetArr = append(s.TargetArr, trimmed), without a lock: a read ...
InitLoad(v) ==
    /\ ~crash /\ vis[v].pc = "load"
    /\ vis' = [vis EXCEPT ![v].pc = IF vis[v].todo = <<>> THEN "len" ELSE "store",
                          ![v].loc = IF vis[v].todo = <<>> THEN <<>> ELSE tun[vis[v].u].arr]
    /\ UNCHANGED <<setup, turn, alive, hm, link, sig, srv, tun, crash, flips, losses, missed>>

\* ... and a write, for each line.
InitStore(v) ==
    /\ ~crash /\ vis[v].pc = "store"
    /\ tun' = [tun EXCEPT ![vis[v].u].arr = Append(vis[v].loc, Head(vis[v].todo)),
                          ![vis[v].u].init = TRUE,
                          ![vis[v].u].stale = @ \/ tun[vis[v].u].arr # vis[v].loc]
    /\ vis' = [vis EXCEPT ![v].pc = "load", ![v].todo = Tail(@), ![v].loc = <<>>]
    /\ UNCHANGED <<setup, turn, alive, hm, link, sig, srv, crash, flips, losses, missed>>

Leaves(v) == vis' = [vis EXCEPT ![v] = NotHere]
T(v) == tun[vis[v].u]

\* One target is taken as it is, none is an error, several go round.
PickLen(v) ==
    /\ ~crash /\ vis[v].pc = "len"
    /\ CASE Len(T(v).arr) = 0 -> Leaves(v)
         [] Len(T(v).arr) = 1 -> vis' = [vis EXCEPT ![v].pc = "one"]
         [] OTHER -> vis' = [vis EXCEPT ![v].pc = "lock"]
    /\ UNCHANGED <<setup, turn, alive, hm, link, sig, srv, tun, crash, flips, losses, missed>>

PickOne(v) ==
    /\ ~crash /\ vis[v].pc = "one"
    /\ crash' = (T(v).arr = <<>>) /\ Leaves(v)
    /\ UNCHANGED <<setup, turn, alive, hm, link, sig, srv, tun, flips, losses, missed>>

\* Under the lock of the Target, which keeps other visitors out: nowIndex moves,
\* counted from one here, and then the list is read again.
PickMove(v) ==
    /\ ~crash /\ vis[v].pc = "lock"
    /\ \A w \in Visitor : vis[w].pc = "index" => vis[w].u # vis[v].u
    /\ tun' = [tun EXCEPT ![vis[v].u].nowIndex = IF @ >= Len(T(v).arr) THEN 1 ELSE @ + 1]
    /\ vis' = [vis EXCEPT ![v].pc = "index"]
    /\ UNCHANGED <<setup, turn, alive, hm, link, sig, srv, crash, flips, losses, missed>>

PickIndex(v) ==
    /\ ~crash /\ vis[v].pc = "index"
    /\ crash' = (T(v).nowIndex > Len(T(v).arr)) /\ Leaves(v)
    /\ UNCHANGED <<setup, turn, alive, hm, link, sig, srv, tun, flips, losses, missed>>

GetRandomTarget(v) == \/ InitLoad(v) \/ InitStore(v) \/ PickLen(v)
                      \/ PickOne(v) \/ PickMove(v) \/ PickIndex(v)

\* applyTunnelFields and applyHostFields write TargetStr and nothing else.
applyTunnelFields(u) ==
    /\ ~crash /\ u \in DOMAIN setup.edit /\ tun[u].str # setup.edit[u]
    /\ tun' = [tun EXCEPT ![u].str = setup.edit[u],
                          ![u].stale = tun[u].init \/ \E v \in Visitor : vis[v].u = u]
    /\ UNCHANGED <<setup, turn, alive, hm, link, sig, srv, vis, crash, flips, losses, missed>>

Next == \/ doCheck \/ (\E t \in Target : Flip(t))
        \/ Lose \/ NewHealthChecker \/ GetHealthFromClient
        \/ \E u \in Tunnel : applyTunnelFields(u)
        \/ \E v \in Visitor : GetRandomTarget(v) \/ \E u \in Tunnel : Arrive(v, u)

\* Checks go on, npc reconnects, and goroutines run.
Spec == /\ Init /\ [][Next]_vars
        /\ WF_vars(doCheck)
        /\ WF_vars(NewHealthChecker) /\ WF_vars(GetHealthFromClient)
        /\ \A v \in Visitor : WF_vars(GetRandomTarget(v))

-----------------------------------------------------------------------------
(* Properties.                                                                *)

InRotation(u, t) == Contains(tun[u].arr, t)

\* Once the targets stop changing, the rotation of every tunnel that is used is
\* its living targets: no order of checks, messages, visits and first uses loses
\* a recovery or keeps a dead target, except for a target that came back
\* while npc was reconnecting, a tunnel edited after its first use, and a first
\* use that writes back a list which the server changed since it read it.
RotationFollows ==
    <>[](\/ crash
         \/ \A u \in Tcp, t \in Target :
               tun[u].init /\ ~tun[u].stale /\ Contains(tun[u].str, t) /\ t \notin missed
                  => InRotation(u, t) = alive[t])
=============================================================================
