----------------------------- MODULE AuthProofs -----------------------------
(***************************************************************************)
(* Who is let in.  The web interface: a nonce and a captcha serve once,    *)
(* and a user acts on the account that logged in, for any number of        *)
(* requests, bodies, clients, configurations and restarts, any size and    *)
(* lifetime of the stores.  The bridge: NewConn returns a connection only  *)
(* when CliProcess has verified the client, for every version, transport   *)
(* and request, however the link fails.                                    *)
(***************************************************************************)
EXTENDS WebAuth, Handshake, WellFoundedInduction, TLAPS

-----------------------------------------------------------------------------
(* The web interface (WebAuth) *)

StoreFields == {"items", "sweep", "next"}
Issued == 1 .. MaxIssue + MaxLogin

\* A store and how often its entries have been used: what is in the store, and
\* what is still to be issued, has not been used.
StoreOK(s, used) ==
    /\ s = [f \in StoreFields |-> s[f]]
    /\ s.next \in Nat
    /\ \A n \in DOMAIN s.items : n \in Int /\ n < s.next
    /\ used \in [Issued -> {0, 1}]
    /\ \A n \in Issued : n \in DOMAIN s.items \/ n >= s.next => used[n] = 0

Inv == StoreOK(nonces, spent) /\ StoreOK(captchas, solved)

\* A new process has an empty store and goes on with new entries.
LEMMA EmptiedOK == ASSUME NEW s, NEW used, StoreOK(s, used) PROVE StoreOK(Emptied(s), used)
<1>1. /\ Emptied(s) = [f \in StoreFields |-> Emptied(s)[f]]
      /\ Emptied(s).next = s.next /\ Emptied(s).items = << >>
  BY Zenon DEF Emptied, EmptyStore, StoreFields
<1>2. DOMAIN Emptied(s).items = {}
  BY <1>1
<1> QED
  BY <1>1, <1>2, Zenon DEF StoreOK

\* A sweep only takes entries out.
LEMMA SweepOK ==
    ASSUME NEW s, NEW used, StoreOK(s, used) PROVE StoreOK(sweepLocked(s), used)
<1> DEFINE t == [s EXCEPT !.sweep = now, !.items = Restrict(s.items, Live(s))]
<1>1. sweepLocked(s) = s \/ sweepLocked(s) = t
  BY Zenon DEF sweepLocked
<1>2. /\ t = [f \in StoreFields |-> t[f]]
      /\ t.next = s.next /\ t.items = Restrict(s.items, Live(s))
  BY ZenonT(30) DEF StoreOK, StoreFields
<1>3. DOMAIN t.items \subseteq DOMAIN s.items
  BY <1>2, ZenonT(30) DEF Restrict, Live
<1> HIDE DEF t
<1>4. StoreOK(t, used)
  BY <1>2, <1>3, Zenon DEF StoreOK
<1> QED
  BY <1>1, <1>4, Zenon

\* Issue adds an entry that nobody has used.
LEMMA IssueOK ==
    ASSUME NEW s, NEW used, StoreOK(s, used) PROVE StoreOK(Issue(s).store, used)
<1> DEFINE t == sweepLocked(s)
           new == [n \in DOMAIN t.items \cup {t.next} |->
                     IF n = t.next THEN now + NonceTTL ELSE t.items[n]]
           u == [t EXCEPT !.items = new, !.next = t.next + 1]
<1>1. StoreOK(t, used)
  BY SweepOK, Zenon
<1>2. Issue(s).store = t \/ Issue(s).store = u
  BY Zenon DEF Issue
<1>3. DOMAIN new = DOMAIN t.items \cup {t.next}
  BY Zenon
<1> HIDE DEF t, new
<1>4. /\ u = [f \in StoreFields |-> u[f]]
      /\ u.next = t.next + 1 /\ u.items = new
  BY <1>1, ZenonT(30) DEF StoreOK, StoreFields
<1> HIDE DEF u
<1>5. StoreOK(u, used)
  <2>1. t.next \in Nat /\ u.next \in Nat
    BY <1>1, <1>4 DEF StoreOK
  <2>2. ASSUME NEW n \in DOMAIN u.items PROVE n \in Int /\ n < u.next
    <3>1. n = t.next \/ n \in DOMAIN t.items
      BY <1>3, <1>4, Zenon
    <3>2. n \in Int /\ n <= t.next
      BY <1>1, <2>1, <3>1 DEF StoreOK
    <3> QED
      BY <1>4, <2>1, <3>2
  <2>3. ASSUME NEW n \in Issued, n \in DOMAIN u.items \/ n >= u.next PROVE used[n] = 0
    <3>1. n \in Int
      BY DEF Issued
    <3>2. n \in DOMAIN t.items \/ n >= t.next
      BY <1>3, <1>4, <2>1, <2>3, <3>1
    <3> QED
      BY <1>1, <3>2, Zenon DEF StoreOK
  <2> QED
    BY <1>1, <1>4, <2>1, <2>2, <2>3, Zenon DEF StoreOK
<1> QED
  BY <1>1, <1>2, <1>5, Zenon

\* Consume takes the entry out, and accepts it only if it was there.
LEMMA ConsumeOK ==
    ASSUME NEW s, NEW used, StoreOK(s, used), NEW n
    PROVE  /\ StoreOK(Consume(s, n).store, used)
           /\ Consume(s, n).ok => StoreOK(Consume(s, n).store, [used EXCEPT ![n] = @ + 1])
<1> DEFINE t == [s EXCEPT !.items = Restrict(s.items, DOMAIN s.items \ {n})]
           more == [used EXCEPT ![n] = @ + 1]
<1>1. Consume(s, n).store = t /\ Consume(s, n).ok = (n \in Live(s))
  BY Zenon DEF Consume
<1>2. /\ t = [f \in StoreFields |-> t[f]]
      /\ t.next = s.next /\ t.items = Restrict(s.items, DOMAIN s.items \ {n})
  BY Zenon DEF StoreOK, StoreFields
<1>3. DOMAIN t.items = DOMAIN s.items \ {n}
  BY <1>2, Zenon DEF Restrict
<1> HIDE DEF t
<1>4. StoreOK(t, used)
  BY <1>2, <1>3, Zenon DEF StoreOK
<1>5. ASSUME n \in Live(s) PROVE StoreOK(t, more)
  <2>1. n \in DOMAIN s.items /\ n \in Int /\ n < s.next
    BY <1>5, Zenon DEF StoreOK, Live
  <2>2. more \in [Issued -> {0, 1}]
    <3>1. CASE n \in Issued
      <4>1. used[n] = 0 /\ used \in [Issued -> {0, 1}]
        BY <2>1, <3>1, Zenon DEF StoreOK
      <4>2. more = [used EXCEPT ![n] = 1]
        BY <4>1
      <4> HIDE DEF more
      <4> QED
        BY <3>1, <4>1, <4>2, Zenon
    <3>2. CASE n \notin Issued
      <4>1. used \in [Issued -> {0, 1}]
        BY Zenon DEF StoreOK
      <4>2. more = used
        BY <3>2, <4>1, Zenon
      <4> QED
        BY <4>1, <4>2, ZenonT(30)
    <3> QED
      BY <3>1, <3>2, Zenon
  <2>3. \A m \in Issued : m # n => more[m] = used[m]
    BY Zenon DEF StoreOK
  <2>4. n \notin DOMAIN t.items /\ ~(n >= t.next)
    BY <1>2, <1>3, <2>1 DEF StoreOK
  <2> QED
    BY <1>4, <2>2, <2>3, <2>4, ZenonT(30) DEF StoreOK
<1> QED
  BY <1>1, <1>4, <1>5, ZenonT(30)

\* A captcha is consumed by a wrong guess as well.
LEMMA VerifyOK ==
    ASSUME NEW s, NEW used, StoreOK(s, used), NEW n, NEW g
    PROVE  /\ StoreOK(VerifyCaptcha(s, n, g).store, used)
           /\ VerifyCaptcha(s, n, g).ok => StoreOK(VerifyCaptcha(s, n, g).store, [used EXCEPT ![n] = @ + 1])
<1>1. CASE n = 0 \/ g = "none"
  BY <1>1, Zenon DEF VerifyCaptcha
<1>2. CASE ~(n = 0 \/ g = "none")
  <2>1. /\ VerifyCaptcha(s, n, g).store = Consume(s, n).store
        /\ VerifyCaptcha(s, n, g).ok => Consume(s, n).ok
    BY <1>2, ZenonT(30) DEF VerifyCaptcha
  <2> QED
    BY <2>1, ConsumeOK, ZenonT(30)
<1> QED
  BY <1>1, <1>2, Zenon

\* Nothing has been issued or used at first.
LEMMA InitInv == Init => Inv
<1> SUFFICES ASSUME Init PROVE Inv
  BY Zenon
<1>1. /\ EmptyStore = [f \in StoreFields |-> EmptyStore[f]]
      /\ EmptyStore.next = 1 /\ EmptyStore.items = << >>
  BY Zenon DEF EmptyStore, StoreFields
<1>2. DOMAIN EmptyStore.items = {}
  BY <1>1
<1>3. /\ nonces = EmptyStore /\ captchas = EmptyStore
      /\ spent = [n \in Issued |-> 0] /\ solved = [n \in Issued |-> 0]
  BY Zenon DEF Init, Issued
<1> QED
  BY <1>1, <1>2, <1>3 DEF Inv, StoreOK

\* What the steps do to the stores.
LEMMA ServeInv == ASSUME Inv, NEW p \in Proc, Serve(p) PROVE Inv'
<1>1. CASE checkCaptcha(p)
  <2> DEFINE v == VerifyCaptcha(captchas, reqs[p].captcha, Body(p).guess)
  <2>1. UNCHANGED <<nonces, spent>>
    BY <1>1, Zenon DEF checkCaptcha
  <2>2. \/ UNCHANGED <<captchas, solved>>
        \/ /\ captchas' = v.store
           /\ solved' = IF v.ok THEN [solved EXCEPT ![reqs[p].captcha] = @ + 1] ELSE solved
    BY <1>1, Zenon DEF checkCaptcha
  <2>3. /\ StoreOK(v.store, solved)
        /\ v.ok => StoreOK(v.store, [solved EXCEPT ![reqs[p].captcha] = @ + 1])
    BY VerifyOK, ZenonT(30) DEF Inv
  <2> HIDE DEF v
  <2> QED
    BY <2>1, <2>2, <2>3, Zenon DEF Inv
<1>2. CASE consumeNonce(p)
  <2> DEFINE c == Consume(nonces, reqs[p].nonce)
  <2>1. /\ UNCHANGED <<captchas, solved>> /\ nonces' = c.store
        /\ spent' = IF c.ok THEN [spent EXCEPT ![reqs[p].nonce] = @ + 1] ELSE spent
    BY <1>2, Zenon DEF consumeNonce
  <2>2. /\ StoreOK(c.store, spent)
        /\ c.ok => StoreOK(c.store, [spent EXCEPT ![reqs[p].nonce] = @ + 1])
    BY ConsumeOK, ZenonT(30) DEF Inv
  <2> HIDE DEF c
  <2> QED
    BY <2>1, <2>2, Zenon DEF Inv
<1>3. CASE rejectLogin(p)
  BY <1>3, IssueOK, Zenon DEF rejectLogin, NewCaptcha, Inv
<1>4. CASE UNCHANGED <<nonces, captchas, spent, solved>>
  BY <1>4, Zenon DEF Inv
<1> QED
  BY <1>1, <1>2, <1>3, <1>4, ZenonT(30) DEF Serve, checkBans, checkPayload, checkTime, authenticate, grant, note,
                                register

\* A store is changed by the handlers above, by new entries and by a restart.
LEMMA NextInv == ASSUME Inv, [Next]_vars PROVE Inv'
<1>1. CASE UNCHANGED <<nonces, captchas, spent, solved>>
  BY <1>1, Zenon DEF Inv
<1>2. CASE InitTokenKey \/ Stop
  BY <1>2, EmptiedOK, Zenon DEF InitTokenKey, Memory, Stop, Inv
<1>3. CASE handleChallenge \/ handleCaptcha
  BY <1>3, IssueOK, Zenon DEF handleChallenge, handleCaptcha, NewCaptcha, Inv
<1> QED
  BY <1>1, <1>2, <1>3, ServeInv, ZenonT(30) DEF Next, vars, AppendKeys, writeFileAtomic, Tick, Arrive, Request,
                                    StartLoginBanCleaner

\* nonceStore.Consume and captchaStore.verify: for any number of requests and
\* restarts, a nonce lets one request through and a captcha is accepted once.
THEOREM NothingIsReused == Spec => []OneUseEach
<1>1. Inv => OneUseEach
  BY DEF Inv, StoreOK, OneUseEach
<1> QED
  BY <1>1, InitInv, NextInv, PTL DEF Spec

-----------------------------------------------------------------------------
(* Tokens and accounts.                                                    *)

\* A bounded set of numbers has a largest one.
LEMMA MaxOfIds ==
    ASSUME NEW n \in Nat, NEW S \in SUBSET (0 .. n), S # {}
    PROVE  Max(S) \in S /\ \A x \in S : x <= Max(S)
<1> DEFINE R == OpToRel(<, Nat)
           T == {n - x : x \in S}
<1>0. \A x \in S : n - x \in Nat
  OBVIOUS
<1>1. T \subseteq Nat /\ T # {}
  <2>1. PICK x \in S : TRUE
    BY ZenonT(30)
  <2>2. n - x \in T
    BY Zenon
  <2> QED
    BY <1>0, <2>2, Zenon
<1>2. PICK t \in T : \A y \in T : ~(<<y, t>> \in R)
  <2> HIDE DEF R, T
  <2> QED
    BY <1>1, WFMin, NatLessThanWellFounded, ZenonT(30) DEF R
<1>3. \A y \in T : t <= y
  <2> SUFFICES ASSUME NEW y \in T PROVE t <= y
    BY Zenon
  <2>1. y \in Nat /\ t \in Nat
    BY <1>1, Zenon
  <2>2. y < t => <<y, t>> \in R
    <3> HIDE DEF T
    <3> QED
      BY <2>1, Zenon DEF OpToRel
  <2> HIDE DEF R, T
  <2> QED
    BY <1>2, <2>1, <2>2
<1>4. PICK m \in S : t = n - m
  BY Zenon
<1>5. \A x \in S : m >= x
  <2> SUFFICES ASSUME NEW x \in S PROVE m >= x
    BY Zenon
  <2>1. n - m <= n - x
    BY <1>3, <1>4, Zenon
  <2>2. n \in Int /\ m \in Int /\ x \in Int
    OBVIOUS
  <2> HIDE DEF R, T
  <2> QED
    BY <2>1, <2>2
<1>6. Max(S) \in S /\ \A x \in S : Max(S) >= x
  BY <1>5, ZenonT(30) DEF Max
<1> QED
  BY <1>6, Zenon

ReqFields == {"body", "ip", "nonce", "captcha", "stamp", "ipBanned", "userBanned", "totp",
              "passed", "notes", "who", "life", "pc"}

\* Who logged in with client c and account life: as long as c exists it is that
\* account, and c will not be given out again by this process.
Own(admin, c, life) ==
    ~admin => /\ c \in Int /\ c <= lastId
              /\ c \in DOMAIN clients => clients[c].life = life

\* A request being served.
ReqOK(r) ==
    \/ r = Idle
    \/ r = [f \in ReqFields |-> r[f]] /\ Own(r.who.admin, r.who.client, r.life)

AccountsOK ==
    /\ clients = [c \in DOMAIN clients |-> clients[c]] /\ DOMAIN clients \subseteq Id
    /\ \A c \in DOMAIN clients : clients[c] = [f \in AccountFields |-> clients[c][f]]
    /\ lastId \in Nat
    /\ proc # "down" => \A c \in DOMAIN clients : c <= lastId

\* A token of an earlier process says nothing about the accounts.
TokensOK ==
    /\ boot \in Nat
    /\ \A t \in tokens : /\ t.boot \in Nat /\ t.boot <= boot
                         /\ t.boot = boot => Own(t.admin, t.client, t.life)

RequestsOK == reqs = [p \in Proc |-> reqs[p]] /\ \A p \in Proc : ReqOK(reqs[p])

OwnInv == AccountsOK /\ TokensOK /\ RequestsOK /\ ActsOnOwnClient

\* At first there is no token and no request.
LEMMA InitOwn == Init => OwnInv
<1> SUFFICES ASSUME Init PROVE OwnInv
  BY Zenon
<1>1. AccountsOK
  BY WebAuthAssumption, Zenon DEF Init, AccountsOK, Setup
<1>2. TokensOK /\ ActsOnOwnClient
  BY Zenon DEF Init, TokensOK, ActsOnOwnClient
<1>3. RequestsOK
  BY Zenon DEF Init, RequestsOK, ReqOK
<1> QED
  BY <1>1, <1>2, <1>3, Zenon DEF OwnInv

\* A step of a process that goes on numbering its accounts.
NumbersOn ==
    /\ AccountsOK' /\ lastId <= lastId'
    /\ \A c \in DOMAIN clients' :
          \/ c \in DOMAIN clients /\ clients'[c].life = clients[c].life
          \/ c > lastId

\* It adds no account that someone logged in to.
LEMMA OwnKept ==
    ASSUME AccountsOK, NumbersOn, NEW admin, NEW c, NEW life, Own(admin, c, life)
    PROVE  Own(admin, c, life)'
<1> SUFFICES ASSUME ~admin PROVE /\ c \in Int /\ c <= lastId'
                                 /\ c \in DOMAIN clients' => clients'[c].life = life
  BY Zenon DEF Own
<1>1. c \in Int /\ c <= lastId /\ (c \in DOMAIN clients => clients[c].life = life)
  BY Zenon DEF Own
<1>2. lastId \in Nat /\ lastId' \in Nat
  BY Zenon DEF AccountsOK, NumbersOn
<1> QED
  BY <1>1, <1>2 DEF NumbersOn

\* The fields of a request that the argument looks at stay as they are.
SameUser(r, x) ==
    /\ x = [f \in ReqFields |-> x[f]]
    /\ x.who = r.who /\ x.life = r.life /\ x.body = r.body

\* A step of a handler that leaves accounts and tokens alone.
LEMMA ReqStep ==
    ASSUME OwnInv, NEW p \in Proc, NEW x, reqs' = [reqs EXCEPT ![p] = x], ReqOK(x),
           UNCHANGED <<clients, lastId, boot, proc, served, tokens>>
    PROVE  OwnInv'
<1>1. \A admin, c, life : Own(admin, c, life)' <=> Own(admin, c, life)
  BY Zenon DEF Own
<1>2. \A r : ReqOK(r)' <=> ReqOK(r)
  BY <1>1, Zenon DEF ReqOK
<1>3. AccountsOK' /\ ActsOnOwnClient'
  BY Zenon DEF OwnInv, AccountsOK, ActsOnOwnClient
<1>4. TokensOK'
  BY <1>1, Zenon DEF OwnInv, TokensOK
<1>5. RequestsOK'
  BY <1>2, Zenon DEF OwnInv, RequestsOK
<1> QED
  BY <1>3, <1>4, <1>5, Zenon DEF OwnInv

\* The checks before the password leave the user of the request alone, and only
\* the password check lets a request go on to its token.
LEMMA ChecksStep ==
    ASSUME NEW p \in Proc, reqs[p] # Idle => reqs[p] = [f \in ReqFields |-> reqs[p][f]],
           \/ checkBans(p) \/ checkCaptcha(p) \/ checkPayload(p) \/ consumeNonce(p)
           \/ checkTime(p) \/ note(p) \/ rejectLogin(p)
    PROVE  /\ reqs[p] # Idle
           /\ \E x : /\ reqs' = [reqs EXCEPT ![p] = x]
                     /\ \/ x = Idle
                        \/ /\ SameUser(reqs[p], x)
                           /\ Body(p).kind # "clear" => x.pc # "clear"
<1> DEFINE r == reqs[p]
           Fine(x) == SameUser(r, x) /\ (Body(p).kind # "clear" => x.pc # "clear")
<1>0. r # Idle
  <2>1. \E l \in {"banned", "captcha", "pow", "nonce", "time", "note", "reject"} : At(p, l)
    BY ZenonT(30) DEF checkBans, checkCaptcha, checkPayload, consumeNonce, checkTime, note, rejectLogin
  <2> QED
    BY <2>1 DEF At, Idle
<1>1. r = [f \in ReqFields |-> r[f]]
  BY <1>0, Zenon
<1>2. ASSUME NEW notes PROVE Fine(Refuse(r, notes))
  BY <1>1, ZenonT(30) DEF SameUser, Refuse, ReqFields
<1>3. Fine(Refused(p))
  <2>1. Fine([r EXCEPT !.pc = "reject"])
    BY <1>1, Zenon DEF SameUser, ReqFields
  <2> QED
    BY <1>2, <2>1, Zenon DEF Refused
<1>4. ASSUME NEW l, Body(p).kind # "clear" => l # "clear" PROVE Fine([r EXCEPT !.pc = l])
  BY <1>1, <1>4, Zenon DEF SameUser, ReqFields
<1>5. SUFFICES \E x : Goto(p, x) /\ (x = Idle \/ Fine(x))
  BY <1>0, ZenonT(30) DEF Goto
<1>6. CASE checkBans(p)
  <2>1. ASSUME NEW a, NEW b PROVE Fine([r EXCEPT !.ipBanned = a, !.userBanned = b, !.pc = "captcha"])
    BY <1>1, ZenonT(30) DEF SameUser, ReqFields
  <2> QED
    BY <1>6, <2>1, ZenonT(30) DEF checkBans
<1>7. CASE checkCaptcha(p)
  <2>1. ASSUME NEW a, NEW b PROVE
          LET after == [r EXCEPT !.totp = a, !.passed = b, !.pc = "pow"] IN
          /\ Fine(after) /\ Fine([after EXCEPT !.pc = "reject"])
          /\ \A notes : Fine(Refuse(after, notes))
    BY <1>1, ZenonT(30) DEF SameUser, ReqFields, Refuse
  <2>2. Fine([r EXCEPT !.pc = "pow"])
    BY <1>4, Zenon
  <2> HIDE DEF Fine
  <2> QED
    BY <1>7, <2>1, <2>2, ZenonT(30) DEF checkCaptcha
<1>8. CASE checkPayload(p)
  <2>1. Fine([r EXCEPT !.pc = "nonce"])
    BY <1>4, Zenon
  <2> HIDE DEF Fine
  <2> QED
    BY <1>3, <1>8, <2>1, Zenon DEF checkPayload
<1>9. CASE consumeNonce(p)
  <2>1. Fine([r EXCEPT !.pc = "time"])
    BY <1>4, Zenon
  <2> HIDE DEF Fine
  <2> QED
    BY <1>3, <1>9, <2>1, Zenon DEF consumeNonce
<1>10. CASE checkTime(p)
  <2>1. Fine([r EXCEPT !.pc = Body(p).kind])
    BY <1>4, Zenon
  <2> HIDE DEF Fine
  <2> QED
    BY <1>3, <1>10, <2>1, Zenon DEF checkTime
<1>11. CASE note(p)
  <2>1. ASSUME NEW a, NEW b \in {"reject", "note"} PROVE Fine([r EXCEPT !.notes = a, !.pc = b])
    BY <1>1, ZenonT(30) DEF SameUser, ReqFields
  <2>2. PICK k : Goto(p, [r EXCEPT !.notes = @ \ {k}, !.pc = IF r.notes = {k} THEN "reject" ELSE "note"])
    BY <1>11, ZenonT(30) DEF note
  <2> HIDE DEF Fine
  <2> QED
    BY <2>1, <2>2, ZenonT(30)
<1>12. CASE rejectLogin(p)
  BY <1>12, Zenon DEF rejectLogin
<1> QED
  BY <1>6, <1>7, <1>8, <1>9, <1>10, <1>11, <1>12, Zenon

LEMMA ChecksOwn ==
    ASSUME OwnInv, NEW p \in Proc,
           \/ checkBans(p) \/ checkCaptcha(p) \/ checkPayload(p) \/ consumeNonce(p)
           \/ checkTime(p) \/ note(p) \/ rejectLogin(p)
    PROVE  OwnInv'
<1>1. reqs[p] # Idle => /\ reqs[p] = [f \in ReqFields |-> reqs[p][f]]
                        /\ Own(reqs[p].who.admin, reqs[p].who.client, reqs[p].life)
  BY Zenon DEF OwnInv, RequestsOK, ReqOK
<1>2. PICK x : reqs' = [reqs EXCEPT ![p] = x] /\ (x = Idle \/ SameUser(reqs[p], x))
  BY <1>1, ChecksStep, Zenon
<1>3. ReqOK(x)
  BY <1>1, <1>2, ChecksStep, Zenon DEF SameUser, ReqOK
<1>4. UNCHANGED <<clients, lastId, boot, proc, served, tokens>>
  BY ZenonT(30) DEF checkBans, checkCaptcha, checkPayload, consumeNonce, checkTime, note, rejectLogin, Fixed
<1> QED
  BY <1>2, <1>3, <1>4, ReqStep, ZenonT(30)

\* The password is checked against an account that exists.
LEMMA AuthenticateOwn == ASSUME OwnInv, NEW p \in Proc, authenticate(p) PROVE OwnInv'
<1> DEFINE r == reqs[p]
<1>1. r = [f \in ReqFields |-> r[f]] /\ Own(r.who.admin, r.who.client, r.life) /\ proc = "up"
  <2>1. r.pc = "login" /\ proc = "up"
    BY ZenonT(30) DEF authenticate, At
  <2>2. r # Idle
    BY <2>1 DEF Idle
  <2> QED
    BY <2>1, <2>2, Zenon DEF OwnInv, RequestsOK, ReqOK
<1>2. UNCHANGED <<clients, lastId, boot, proc, served, tokens>>
  BY ZenonT(30) DEF authenticate, Fixed
<1>3. ASSUME NEW notes, Goto(p, Refuse(r, notes)) PROVE OwnInv'
  <2>1. SameUser(r, Refuse(r, notes))
    BY <1>1, ZenonT(30) DEF SameUser, Refuse, ReqFields
  <2> QED
    BY <1>1, <1>2, <1>3, <2>1, ReqStep, Zenon DEF Goto, SameUser, ReqOK
<1>4. ASSUME Goto(p, [r EXCEPT !.who = Principal(TRUE, 0), !.pc = "clear"]) PROVE OwnInv'
  <2> DEFINE x == [r EXCEPT !.who = Principal(TRUE, 0), !.pc = "clear"]
  <2>1. x = [f \in ReqFields |-> x[f]] /\ x.who = Principal(TRUE, 0)
    BY <1>1, ZenonT(30) DEF ReqFields
  <2>2. Principal(TRUE, 0).admin
    BY Zenon DEF Principal
  <2> HIDE DEF x
  <2>3. ReqOK(x)
    BY <2>1, <2>2, ZenonT(30) DEF ReqOK, Own
  <2>4. reqs' = [reqs EXCEPT ![p] = x]
    BY <1>4, Zenon DEF Goto, x
  <2> QED
    BY <1>2, <2>3, <2>4, ReqStep, ZenonT(30)
<1>5. ASSUME NEW c \in clientAuth(Body(p), r.totp),
             Goto(p, [r EXCEPT !.who = Principal(FALSE, c), !.life = clients[c].life, !.pc = "clear"])
      PROVE  OwnInv'
  <2> DEFINE x == [r EXCEPT !.who = Principal(FALSE, c), !.life = clients[c].life, !.pc = "clear"]
  <2>1. x = [f \in ReqFields |-> x[f]] /\ x.who = Principal(FALSE, c) /\ x.life = clients[c].life
    BY <1>1, ZenonT(30) DEF ReqFields
  <2>2. c \in DOMAIN clients
    BY ZenonT(30) DEF clientAuth
  <2>3. c \in Int /\ c <= lastId
    BY <1>1, <2>2 DEF OwnInv, AccountsOK, Id
  <2>4. Principal(FALSE, c).client = c
    BY Zenon DEF Principal
  <2> HIDE DEF x
  <2>5. ReqOK(x)
    BY <2>1, <2>3, <2>4, ZenonT(30) DEF ReqOK, Own
  <2>6. reqs' = [reqs EXCEPT ![p] = x]
    BY <1>5, Zenon DEF Goto, x
  <2> QED
    BY <1>2, <2>5, <2>6, ReqStep, ZenonT(30)
<1> QED
  BY <1>3, <1>4, <1>5, ZenonT(30) DEF authenticate

\* A token says what the request it ends has found out.
LEMMA GrantOwn == ASSUME OwnInv, NEW p \in Proc, grant(p) PROVE OwnInv'
<1> DEFINE r == reqs[p]
           t == IssueToken(r.who, r.life)
<1>1. Own(r.who.admin, r.who.client, r.life)
  BY DEF grant, At, Idle, OwnInv, RequestsOK, ReqOK
<1>2. t.admin = r.who.admin /\ t.client = r.who.client /\ t.life = r.life /\ t.boot = boot
  BY Zenon DEF IssueToken
<1>3. Own(t.admin, t.client, t.life)
  BY <1>1, <1>2, Zenon
<1>4. /\ UNCHANGED <<clients, lastId, boot, proc, served>>
      /\ tokens' = tokens \cup {t} /\ reqs' = [reqs EXCEPT ![p] = Idle]
  BY Zenon DEF grant, Fixed, Goto
<1> HIDE DEF t
<1>5. \A admin, c, life : Own(admin, c, life)' <=> Own(admin, c, life)
  BY <1>4, Zenon DEF Own
<1>6. TokensOK'
  BY <1>2, <1>3, <1>4, <1>5 DEF OwnInv, TokensOK
<1>7. RequestsOK'
  BY <1>4, <1>5, Zenon DEF OwnInv, RequestsOK, ReqOK
<1> QED
  BY <1>4, <1>6, <1>7, Zenon DEF OwnInv, AccountsOK, ActsOnOwnClient

\* A new request acts for nobody, and 0 is no client.
LEMMA ArriveOwn ==
    ASSUME OwnInv, NEW p \in Proc, NEW b, NEW ip, NEW n, NEW c, Arrive(p, b, ip, n, c)
    PROVE  OwnInv'
<1>1. UNCHANGED <<clients, lastId, boot, proc, served, tokens>>
  BY Zenon DEF Arrive, Fixed
<1> DEFINE a == Attempts[b]
           reserved == a.kind = "register" /\ a.user = Admin
           x == [body |-> b, ip |-> ip, nonce |-> n, captcha |-> c, stamp |-> now - a.late,
                 ipBanned |-> FALSE, userBanned |-> FALSE, totp |-> "none", passed |-> TRUE,
                 notes |-> {}, who |-> Principal(FALSE, 0), life |-> 0,
                 pc |-> IF a.kind = "login" THEN "banned"
                        ELSE IF reserved THEN "reject" ELSE "captcha"]
<1>2. reqs' = [reqs EXCEPT ![p] = x]
  BY Zenon DEF Arrive
<1>3. x = [f \in ReqFields |-> x[f]] /\ x.who = Principal(FALSE, 0)
  BY ZenonT(30) DEF ReqFields
<1>4. Principal(FALSE, 0).client = 0 /\ 0 \notin DOMAIN clients /\ 0 <= lastId
  BY DEF Principal, OwnInv, AccountsOK, Id
<1> HIDE DEF x
<1>5. x.who.client = 0
  BY <1>3, <1>4, ZenonT(30)
<1>6. Own(x.who.admin, x.who.client, x.life)
  BY <1>4, <1>5 DEF Own
<1>7. ReqOK(x)
  BY <1>3, <1>6, Zenon DEF ReqOK
<1> QED
  BY <1>1, <1>2, <1>7, ReqStep, ZenonT(30)

\* A step that goes on numbering and touches no token or request but p's, which
\* it may end.
LEMMA AccountStep ==
    ASSUME OwnInv, NumbersOn, ActsOnOwnClient', UNCHANGED <<boot, tokens>>,
           reqs' = [p \in Proc |-> reqs'[p]],
           \A p \in Proc : reqs'[p] \in {reqs[p], Idle}
    PROVE  OwnInv'
<1>1. AccountsOK /\ AccountsOK'
  BY Zenon DEF OwnInv, NumbersOn
<1>2. ASSUME NEW admin, NEW c, NEW life, Own(admin, c, life) PROVE Own(admin, c, life)'
  BY <1>1, <1>2, OwnKept, Zenon
<1>3. TokensOK'
  BY <1>2, Zenon DEF OwnInv, TokensOK
<1>4. ASSUME NEW p \in Proc PROVE ReqOK(reqs[p])'
  BY <1>2, Zenon DEF OwnInv, RequestsOK, ReqOK
<1> QED
  BY <1>1, <1>3, <1>4, Zenon DEF OwnInv, RequestsOK

\* An account with the next id, for a registration and for an administrator.
LEMMA NewAccount ==
    ASSUME OwnInv, proc' = proc, NEW id, id = lastId + 1, id \in Id, lastId' = id, NEW u, NEW text,
           clients' = [c \in DOMAIN clients \cup {id} |->
                          IF c = id THEN Account(u, text) ELSE clients[c]]
    PROVE  NumbersOn
<1>1. lastId \in Nat /\ DOMAIN clients \subseteq Id /\ lastId' \in Nat /\ lastId <= lastId' /\ id > lastId
  BY DEF OwnInv, AccountsOK
<1>2. DOMAIN clients' = DOMAIN clients \cup {id}
  BY Zenon
<1>3. clients' = [c \in DOMAIN clients' |-> clients'[c]]
  BY Zenon
<1>4. Account(u, text) = [f \in AccountFields |-> Account(u, text)[f]]
  BY Zenon DEF Account, AccountFields
<1>5. ASSUME NEW c \in DOMAIN clients'
      PROVE  clients'[c] = [f \in AccountFields |-> clients'[c][f]]
  <2>1. CASE c = id
    <3>1. clients'[c] = Account(u, text)
      BY <2>1, Zenon
    <3> QED
      BY <1>4, <3>1, Zenon
  <2>2. CASE c # id
    <3>1. c \in DOMAIN clients /\ clients'[c] = clients[c]
      BY <1>2, <2>2, Zenon
    <3> QED
      BY <3>1, Zenon DEF OwnInv, AccountsOK
  <2> QED
    BY <2>1, <2>2, Zenon
<1>6. ASSUME proc' # "down", NEW c \in DOMAIN clients' PROVE c <= lastId'
  BY <1>1, <1>2, <1>6 DEF OwnInv, AccountsOK, Id
<1>7. \A c \in DOMAIN clients' :
        \/ c \in DOMAIN clients /\ clients'[c].life = clients[c].life
        \/ c > lastId
  BY <1>1, <1>2, Zenon
<1> QED
  BY <1>1, <1>2, <1>3, <1>5, <1>6, <1>7, ZenonT(30) DEF AccountsOK, NumbersOn

\* A registration adds an account with a new id, or only draws the id.
LEMMA RegisterOwn == ASSUME OwnInv, NEW p \in Proc, register(p) PROVE OwnInv'
<1> DEFINE id == lastId + 1
<1>1. /\ id \in Id /\ lastId' = id /\ UNCHANGED <<boot, proc, tokens, served>>
      /\ reqs' = [reqs EXCEPT ![p] = Idle]
  BY Zenon DEF register, GetClientId, Fixed, Goto
<1>2. ActsOnOwnClient'
  BY <1>1, Zenon DEF OwnInv, ActsOnOwnClient
<1>3. NumbersOn
  <2>1. CASE UNCHANGED clients
    BY <1>1, <2>1 DEF OwnInv, AccountsOK, NumbersOn, Id
  <2>2. CASE clients' = [c \in DOMAIN clients \cup {id} |->
                           IF c = id THEN Account(Body(p).user, Body(p).pass.text) ELSE clients[c]]
    BY <1>1, <2>2, NewAccount, Zenon
  <2> QED
    BY <2>1, <2>2, Zenon DEF register, GetClientId
<1>4. /\ reqs' = [q \in Proc |-> reqs'[q]]
      /\ \A q \in Proc : reqs'[q] \in {reqs[q], Idle}
  BY <1>1, Zenon DEF OwnInv, RequestsOK
<1> QED
  BY <1>1, <1>2, <1>3, <1>4, AccountStep, Zenon

\* Whom a request acts for: an administrator, or the client of its token.
LEMMA WhoActs ==
    ASSUME NEW t, NEW stamp, NEW p \in RequireAuth(t, stamp)
    PROVE  p.admin \/ (~t.admin /\ p.client = t.client)
<1>1. p = Principal(TRUE, 0) \/ p = Principal(t.admin, t.client)
  BY ZenonT(30) DEF RequireAuth
<1> QED
  BY <1>1 DEF Principal

\* A route that is passed without being an administrator is one on the client
\* of the token.
LEMMA AdmittedOwn ==
    ASSUME OwnInv, NEW t \in tokens \cup {NoToken}, NEW stamp, NEW p \in RequireAuth(t, stamp),
           registerRoutes(t, p)
    PROVE  ActsOnOwnClient'
<1>1. PICK c : Admitted(t, p, c) /\ (p.admin \/ (c # 0 /\ c = p.client /\ c \in DOMAIN clients))
  BY ZenonT(30) DEF registerRoutes, clientRoute, handleClientStatus, handleDeleteClient, handleCreateClient,
         handleRemoveBan, handleClearBans, handleCleanBans, RequireAdmin, requireClientAccess, OwnsClient
<1>2. /\ served'.client = c /\ (served'.admin <=> p.admin)
      /\ served'.own = <<t.client, t.life>> /\ (served'.same <=> t.boot = boot)
      /\ c # 0 => served'.life = clients[c].life
  BY <1>1, ZenonT(30) DEF Admitted
<1>3. ASSUME c # 0, ~p.admin, t.boot = boot PROVE <<t.client, t.life>> = <<c, clients[c].life>>
  <2>1. ~t.admin /\ p.client = t.client /\ c = t.client /\ c \in DOMAIN clients
    BY <1>1, <1>3, WhoActs, Zenon
  <2>2. t \in tokens
    BY <1>3, <2>1 DEF NoToken
  <2> QED
    BY <1>3, <2>1, <2>2, Zenon DEF OwnInv, TokensOK, Own
<1> QED
  BY <1>2, <1>3, Zenon DEF ActsOnOwnClient

\* The routes take accounts away, switch them on and off, or add new ones.
LEMMA RoutesOwn ==
    ASSUME OwnInv, NEW t, NEW p, registerRoutes(t, p), UNCHANGED proc
    PROVE  NumbersOn
<1>1. AccountsOK /\ lastId \in Nat
  BY Zenon DEF OwnInv, AccountsOK
<1>2. CASE UNCHANGED <<clients, lastId>>
  BY <1>1, <1>2 DEF AccountsOK, NumbersOn
<1>3. ASSUME NEW c \in Id, handleClientStatus(t, p, c) PROVE NumbersOn
  <2> DEFINE x == [clients[c] EXCEPT !.on = ~clients[c].on]
  <2>1. clients' = [clients EXCEPT ![c] = x] /\ c \in DOMAIN clients /\ UNCHANGED lastId
    BY <1>3, Zenon DEF handleClientStatus
  <2>2. clients[c] = [f \in AccountFields |-> clients[c][f]]
    BY <1>1, <2>1, Zenon DEF AccountsOK
  <2>3. x = [f \in AccountFields |-> x[f]] /\ x.life = clients[c].life
    BY <2>2, Zenon DEF AccountFields
  <2> HIDE DEF x
  <2>4. /\ DOMAIN clients' = DOMAIN clients /\ clients' = [d \in DOMAIN clients' |-> clients'[d]]
        /\ clients'[c] = x /\ \A d \in DOMAIN clients \ {c} : clients'[d] = clients[d]
    BY <1>1, <2>1, ZenonT(30) DEF AccountsOK
  <2>5. \A d \in DOMAIN clients' : clients'[d] = [f \in AccountFields |-> clients'[d][f]]
    BY <1>1, <2>3, <2>4, Zenon DEF AccountsOK
  <2>6. \A d \in DOMAIN clients' : d \in DOMAIN clients /\ clients'[d].life = clients[d].life
    BY <2>3, <2>4, Zenon
  <2> QED
    BY <1>1, <2>1, <2>4, <2>5, <2>6 DEF AccountsOK, NumbersOn
<1>4. ASSUME NEW c \in Id, handleDeleteClient(t, p, c) PROVE NumbersOn
  <2>1. clients' = [d \in DOMAIN clients \ {c} |-> clients[d]] /\ UNCHANGED lastId
    BY <1>4, Zenon DEF handleDeleteClient, Restrict
  <2>2. /\ DOMAIN clients' = DOMAIN clients \ {c} /\ clients' = [d \in DOMAIN clients' |-> clients'[d]]
        /\ \A d \in DOMAIN clients' : clients'[d] = clients[d]
    BY <2>1, Zenon
  <2>3. \A d \in DOMAIN clients' : clients'[d] = [f \in AccountFields |-> clients'[d][f]]
    BY <1>1, <2>2, Zenon DEF AccountsOK
  <2> QED
    BY <1>1, <2>1, <2>2, <2>3 DEF AccountsOK, NumbersOn
<1>5. ASSUME handleCreateClient(t, p) PROVE NumbersOn
  <2> DEFINE id == lastId + 1
  <2>1. /\ id \in Id /\ lastId' = id
        /\ clients' = [c \in DOMAIN clients \cup {id} |->
                         IF c = id THEN Account("bob", "pw") ELSE clients[c]]
    BY <1>5, Zenon DEF handleCreateClient, GetClientId
  <2> QED
    BY <2>1, NewAccount, Zenon
<1> QED
  BY <1>2, <1>3, <1>4, <1>5, Zenon DEF registerRoutes, clientRoute, handleRemoveBan, handleClearBans,
                                handleCleanBans

\* A new process numbers its accounts from the largest id of the database, and
\* no token is its own.
LEMMA StartOwn == ASSUME OwnInv, InitTokenKey PROVE OwnInv'
<1>1. /\ boot' = boot + 1 /\ UNCHANGED <<clients, tokens, served>>
      /\ lastId' = Max(DOMAIN clients \cup {0}) /\ reqs' = [p \in Proc |-> Idle]
  BY Zenon DEF InitTokenKey, Memory
<1>2. lastId' \in Nat /\ \A c \in DOMAIN clients : c <= lastId'
  <2> DEFINE S == DOMAIN clients \cup {0}
  <2>1. S \subseteq 0 .. MaxId /\ S # {} /\ MaxId \in Nat
    BY WebAuthAssumption DEF OwnInv, AccountsOK, Id
  <2>2. Max(S) \in S /\ \A x \in S : x <= Max(S)
    <3> HIDE DEF S
    <3> QED
      BY <2>1, MaxOfIds, ZenonT(30)
  <2> QED
    BY <1>1, <2>1, <2>2
<1>3. AccountsOK'
  BY <1>1, <1>2, ZenonT(30) DEF OwnInv, AccountsOK
<1>4. TokensOK'
  <2>1. boot \in Nat /\ \A t \in tokens : t.boot \in Nat /\ t.boot <= boot
    BY Zenon DEF OwnInv, TokensOK
  <2>2. boot' \in Nat /\ \A t \in tokens : t.boot \in Nat /\ t.boot <= boot' /\ t.boot # boot'
    BY <1>1, <2>1
  <2> QED
    BY <1>1, <2>2, Zenon DEF TokensOK
<1>5. RequestsOK'
  BY <1>1, Zenon DEF RequestsOK, ReqOK
<1> QED
  BY <1>1, <1>3, <1>4, <1>5, Zenon DEF OwnInv, ActsOnOwnClient

\* A step that leaves accounts, tokens and requests alone, or ends all requests.
LEMMA QuietOwn ==
    ASSUME OwnInv, UNCHANGED <<clients, lastId, boot, served, tokens>>,
           UNCHANGED reqs \/ reqs' = [p \in Proc |-> Idle],
           proc' # "down" => proc # "down"
    PROVE  OwnInv'
<1>1. \A admin, c, life : Own(admin, c, life)' <=> Own(admin, c, life)
  BY Zenon DEF Own
<1>2. TokensOK' /\ AccountsOK' /\ ActsOnOwnClient'
  BY <1>1, Zenon DEF OwnInv, TokensOK, AccountsOK, ActsOnOwnClient
<1>3. RequestsOK'
  BY <1>1, Zenon DEF OwnInv, RequestsOK, ReqOK
<1> QED
  BY <1>2, <1>3, Zenon DEF OwnInv

\* Every step keeps tokens and accounts together.
LEMMA NextOwn == ASSUME OwnInv, [Next]_vars PROVE OwnInv'
<1>1. CASE Request
  <2>1. UNCHANGED <<boot, proc, reqs, tokens>>
    BY <1>1, Zenon DEF Request, Fixed
  <2>2. PICK t \in tokens \cup {NoToken} : \E stamp : \E p \in RequireAuth(t, stamp) : registerRoutes(t, p)
    BY <1>1, Zenon DEF Request
  <2>3. PICK stamp : \E p \in RequireAuth(t, stamp) : registerRoutes(t, p)
    BY <2>2, Zenon
  <2>4. NumbersOn /\ ActsOnOwnClient'
    BY <2>1, <2>3, RoutesOwn, AdmittedOwn, Zenon
  <2>5. reqs' = [p \in Proc |-> reqs'[p]] /\ \A p \in Proc : reqs'[p] \in {reqs[p], Idle}
    BY <2>1, Zenon DEF OwnInv, RequestsOK
  <2> QED
    BY <2>1, <2>4, <2>5, AccountStep, Zenon
<1>2. CASE AppendKeys \/ writeFileAtomic \/ Stop \/ Tick \/ handleChallenge \/ handleCaptcha
           \/ StartLoginBanCleaner \/ UNCHANGED vars
  BY <1>2, QuietOwn, Zenon DEF AppendKeys, writeFileAtomic, Stop, Tick, handleChallenge, handleCaptcha,
                        StartLoginBanCleaner, Fixed, vars
<1>3. ASSUME NEW p \in Proc, Serve(p) PROVE OwnInv'
  BY <1>3, ChecksOwn, AuthenticateOwn, GrantOwn, RegisterOwn, Zenon DEF Serve
<1> QED
  BY <1>1, <1>2, <1>3, StartOwn, ArriveOwn, Zenon DEF Next

\* OwnsClient and GetClientId: for any number of accounts, logins and restarts, a
\* token used with the process that signed it acts on the account that logged in.
THEOREM TokensActOnTheirAccount == Spec => []ActsOnOwnClient
<1>1. OwnInv => ActsOnOwnClient
  BY Zenon DEF OwnInv
<1> QED
  BY <1>1, InitOwn, NextOwn, PTL DEF Spec

-----------------------------------------------------------------------------
(* The signing key *)

\* An administrator, or the user of a client.
Someone(admin, c) == (admin = TRUE /\ c = 0) \/ (admin = FALSE /\ c # 0)

\* A process that serves requests has the key of the file, a key that is still to
\* be saved has signed nothing, and every token has the key of the file.
SigningKey ==
    /\ proc = "up" => conf > 0 /\ key = conf
    /\ proc \in {"append", "rename"} => conf = Absent /\ key \in Nat /\ key > 0
    /\ \A t \in tokens : conf > 0 /\ t.key = conf

KeyInv ==
    /\ now \in Int /\ boot \in Nat /\ key \in Nat /\ conf \in Nat \cup {Blank, Short} /\ case \in DOMAIN Setups
    /\ Setup.conf # Blank => conf # Blank
    /\ KeyIsKept => SigningKey
    /\ \A t \in tokens : /\ t.iat \in Int /\ t.iat <= now /\ t.exp \in Int
                         /\ Someone(t.admin, t.client)
    /\ \A p \in Proc : reqs[p] # Idle =>
          /\ reqs[p].body \in Setup.bodies
          /\ reqs[p].pc = "clear" => Someone(reqs[p].who.admin, reqs[p].who.client)

\* Before the first start nothing is signed.
LEMMA InitKey == Init => KeyInv
<1> SUFFICES ASSUME Init PROVE KeyInv
  BY Zenon
<1>1. /\ now = 1 /\ boot = 0 /\ key = 0 /\ proc = "down" /\ tokens = {}
      /\ case \in DOMAIN Setups /\ conf = Setup.conf
  BY Zenon DEF Init
<1>2. conf \in Nat \cup {Blank, Short}
  BY <1>1, WebAuthAssumption, Zenon DEF Setup
<1>3. \A p \in Proc : reqs[p] = Idle
  BY Zenon DEF Init
<1>4. SigningKey
  BY <1>1, Zenon DEF SigningKey
<1> QED
  BY <1>1, <1>2, <1>3, <1>4 DEF KeyInv

\* A step of a process that goes on: the request of p becomes x.
LEMMA KeyStep ==
    ASSUME KeyInv, RequestsOK, NEW p \in Proc, NEW x, reqs' = [reqs EXCEPT ![p] = x],
           x = Idle \/ /\ x.body \in Setup.bodies
                       /\ x.pc = "clear" => Someone(x.who.admin, x.who.client),
           \A t \in tokens' : \/ t \in tokens
                              \/ /\ proc = "up" /\ t.key = key /\ t.iat = now /\ t.exp \in Int
                                 /\ Someone(t.admin, t.client),
           Fixed
    PROVE  KeyInv'
<1>1. UNCHANGED <<now, case, conf, boot, proc, key>> /\ UNCHANGED Setup /\ UNCHANGED KeyIsKept
  BY Zenon DEF Fixed, Setup, KeyIsKept
<1>2. \A q \in Proc : reqs'[q] = IF q = p THEN x ELSE reqs[q]
  BY Zenon DEF RequestsOK
<1>3. KeyIsKept => SigningKey'
  BY <1>1, Zenon DEF KeyInv, SigningKey
<1>4. \A t \in tokens' : t.iat \in Int /\ t.iat <= now /\ t.exp \in Int /\ Someone(t.admin, t.client)
  BY DEF KeyInv
<1> QED
  BY <1>1, <1>2, <1>3, <1>4 DEF KeyInv

LEMMA ServeKey == ASSUME KeyInv, OwnInv, NEW p \in Proc, Serve(p) PROVE KeyInv'
<1> DEFINE r == reqs[p]
<1>0. RequestsOK /\ Fixed
  BY ZenonT(30) DEF OwnInv, Serve, checkBans, checkCaptcha, checkPayload, consumeNonce, checkTime, authenticate,
         grant, note, rejectLogin, register
<1>1. r # Idle => /\ r = [f \in ReqFields |-> r[f]] /\ r.body \in Setup.bodies
                  /\ Body(p).kind # "clear"
  BY WebAuthAssumption, Zenon DEF OwnInv, RequestsOK, ReqOK, KeyInv, Body, Setup
<1>2. CASE \/ checkBans(p) \/ checkCaptcha(p) \/ checkPayload(p) \/ consumeNonce(p)
           \/ checkTime(p) \/ note(p) \/ rejectLogin(p)
  <2>1. /\ r # Idle
        /\ \E x : /\ reqs' = [reqs EXCEPT ![p] = x]
                  /\ \/ x = Idle
                     \/ SameUser(r, x) /\ (Body(p).kind # "clear" => x.pc # "clear")
    BY <1>1, <1>2, ChecksStep, Zenon
  <2>2. PICK x : reqs' = [reqs EXCEPT ![p] = x] /\ (x = Idle \/ (SameUser(r, x) /\ x.pc # "clear"))
    BY <1>1, <2>1, ZenonT(30)
  <2>3. UNCHANGED tokens
    BY <1>2, ZenonT(30) DEF checkBans, checkCaptcha, checkPayload, consumeNonce, checkTime, note, rejectLogin
  <2>4. x = Idle \/ (x.body \in Setup.bodies /\ x.pc # "clear")
    BY <1>1, <2>1, <2>2, Zenon DEF SameUser
  <2> QED
    BY <1>0, <2>2, <2>3, <2>4, KeyStep, ZenonT(30)
<1>3. CASE authenticate(p)
  <2>0. r # Idle /\ UNCHANGED tokens
    <3>1. r.pc = "login" /\ UNCHANGED tokens
      BY <1>3, ZenonT(30) DEF authenticate, At
    <3> QED
      BY <3>1 DEF Idle
  <2>1. ASSUME NEW notes, Goto(p, Refuse(r, notes)) PROVE KeyInv'
    <3> DEFINE x == Refuse(r, notes)
    <3>1. x.body = r.body /\ x.pc = "note"
      BY <1>1, <2>0, Zenon DEF Refuse, ReqFields
    <3>2. reqs' = [reqs EXCEPT ![p] = x]
      BY <2>1, Zenon DEF Goto
    <3> HIDE DEF x
    <3> QED
      BY <1>0, <1>1, <2>0, <3>1, <3>2, KeyStep, ZenonT(30)
  <2>2. ASSUME Goto(p, [r EXCEPT !.who = Principal(TRUE, 0), !.pc = "clear"]) PROVE KeyInv'
    <3> DEFINE x == [r EXCEPT !.who = Principal(TRUE, 0), !.pc = "clear"]
    <3>1. x.body = r.body /\ x.who = Principal(TRUE, 0)
      BY <1>1, <2>0, Zenon DEF ReqFields
    <3>2. reqs' = [reqs EXCEPT ![p] = x]
      BY <2>2, Zenon DEF Goto
    <3> HIDE DEF x
    <3>3. Someone(x.who.admin, x.who.client)
      BY <3>1 DEF Principal, Someone
    <3> QED
      BY <1>0, <1>1, <2>0, <3>1, <3>2, <3>3, KeyStep, ZenonT(30)
  <2>3. ASSUME NEW c \in clientAuth(Body(p), r.totp),
               Goto(p, [r EXCEPT !.who = Principal(FALSE, c), !.life = clients[c].life, !.pc = "clear"])
        PROVE  KeyInv'
    <3> DEFINE x == [r EXCEPT !.who = Principal(FALSE, c), !.life = clients[c].life, !.pc = "clear"]
    <3>1. x.body = r.body /\ x.who = Principal(FALSE, c)
      BY <1>1, <2>0, Zenon DEF ReqFields
    <3>2. reqs' = [reqs EXCEPT ![p] = x]
      BY <2>3, Zenon DEF Goto
    <3> HIDE DEF x
    <3>3. c # 0
      <4>1. c \in DOMAIN clients
        BY ZenonT(30) DEF clientAuth
      <4> QED
        BY <4>1, WebAuthAssumption DEF OwnInv, AccountsOK, Id
    <3>4. Someone(x.who.admin, x.who.client)
      BY <3>1, <3>3 DEF Principal, Someone
    <3> QED
      BY <1>0, <1>1, <2>0, <3>1, <3>2, <3>4, KeyStep, ZenonT(30)
  <2> QED
    BY <1>3, <2>1, <2>2, <2>3, ZenonT(30) DEF authenticate
<1>4. CASE grant(p)
  <2> DEFINE t == IssueToken(r.who, r.life)
  <2>1. /\ r.pc = "clear" /\ proc = "up" /\ tokens' = tokens \cup {t}
        /\ reqs' = [reqs EXCEPT ![p] = Idle]
    BY <1>4, Zenon DEF grant, At, Goto
  <2>2. r # Idle
    BY <2>1 DEF Idle
  <2>3. /\ t.key = key /\ t.iat = now /\ t.exp = now + TokenTTL
        /\ t.admin = r.who.admin /\ t.client = r.who.client
    BY Zenon DEF IssueToken
  <2> HIDE DEF t
  <2>4. t.exp \in Int
    BY <2>3, WebAuthAssumption DEF KeyInv
  <2>5. Someone(t.admin, t.client)
    BY <2>1, <2>2, <2>3, Zenon DEF KeyInv
  <2> QED
    BY <1>0, <2>1, <2>3, <2>4, <2>5, KeyStep, ZenonT(30)
<1>5. CASE register(p)
  BY <1>0, <1>5, KeyStep, ZenonT(30) DEF register, Goto
<1> QED
  BY <1>2, <1>3, <1>4, <1>5, Zenon DEF Serve

\* Starting, saving the key and stopping.
LEMMA ProcessKey ==
    ASSUME KeyInv, InitTokenKey \/ AppendKeys \/ writeFileAtomic \/ Stop
    PROVE  KeyInv'
<1>1. UNCHANGED <<now, case, tokens>> /\ UNCHANGED Setup /\ UNCHANGED KeyIsKept /\ boot' \in Nat
  BY DEF InitTokenKey, AppendKeys, writeFileAtomic, Stop, Setup, KeyIsKept, KeyInv
<1>2. \A p \in Proc : reqs'[p] \in {reqs[p], Idle}
  BY Zenon DEF InitTokenKey, Memory, AppendKeys, writeFileAtomic, Stop
<1>3. /\ conf' \in Nat \cup {Blank, Short} /\ key' \in Nat
      /\ Setup.conf # Blank => conf' # Blank
  <2>1. /\ conf \in Nat \cup {Blank, Short} /\ key \in Nat /\ boot \in Nat
        /\ Setup.conf # Blank => conf # Blank
    BY Zenon DEF KeyInv
  <2>2. CASE InitTokenKey
    BY <2>1, <2>2 DEF InitTokenKey, resolveJWTKey, Blank, Short
  <2>3. CASE AppendKeys \/ Stop
    BY <2>1, <2>3 DEF AppendKeys, Stop
  <2>4. CASE writeFileAtomic
    BY <2>1, <2>4 DEF writeFileAtomic, Blank
  <2> QED
    BY <2>2, <2>3, <2>4, Zenon
<1>4. ASSUME KeyIsKept
      PROVE  SigningKey'
  <2>1. SigningKey /\ conf \in Nat \cup {Blank, Short} /\ conf # Blank /\ boot \in Nat /\ Setup.dir # "none"
    BY <1>4, Zenon DEF KeyInv, KeyIsKept
  <2>2. CASE InitTokenKey
    BY <1>1, <2>1, <2>2 DEF InitTokenKey, resolveJWTKey, SigningKey, Absent, Blank, Short
  <2>3. CASE AppendKeys
    BY <1>1, <1>4, <2>1, <2>3, Zenon DEF AppendKeys, SigningKey, KeyIsKept
  <2>4. CASE writeFileAtomic
    BY <1>1, <2>1, <2>4 DEF writeFileAtomic, SigningKey, Absent, Blank, Short
  <2>5. CASE Stop
    BY <1>1, <2>1, <2>5, Zenon DEF Stop, SigningKey
  <2> QED
    BY <2>2, <2>3, <2>4, <2>5, Zenon
<1> QED
  BY <1>1, <1>2, <1>3, <1>4, Zenon DEF KeyInv

LEMMA NextKey == ASSUME KeyInv, OwnInv, [Next]_vars PROVE KeyInv'
<1>1. CASE Tick
  BY <1>1 DEF Tick, KeyInv, Setup, KeyIsKept, SigningKey
<1>2. CASE handleChallenge \/ handleCaptcha \/ Request \/ StartLoginBanCleaner \/ UNCHANGED vars
  <2>1. UNCHANGED <<now, case, conf, boot, proc, key, tokens, reqs>>
    BY <1>2, Zenon DEF handleChallenge, handleCaptcha, Request, StartLoginBanCleaner, Fixed, vars
  <2> QED
    BY <2>1, Zenon DEF KeyInv, Setup, KeyIsKept, SigningKey
<1>3. ASSUME NEW p \in Proc, NEW b \in Setup.bodies, NEW ip, NEW n, NEW c, Arrive(p, b, ip, n, c)
      PROVE  KeyInv'
  <2> DEFINE a == Attempts[b]
             reserved == a.kind = "register" /\ a.user = Admin
             l == IF a.kind = "login" THEN "banned" ELSE IF reserved THEN "reject" ELSE "captcha"
             x == [body |-> b, ip |-> ip, nonce |-> n, captcha |-> c, stamp |-> now - a.late,
                   ipBanned |-> FALSE, userBanned |-> FALSE, totp |-> "none", passed |-> TRUE,
                   notes |-> {}, who |-> Principal(FALSE, 0), life |-> 0, pc |-> l]
  <2>1. reqs' = [reqs EXCEPT ![p] = x] /\ x.body = b /\ x.pc = l
    BY <1>3, ZenonT(30) DEF Arrive
  <2>2. Fixed /\ UNCHANGED tokens /\ RequestsOK /\ l # "clear"
    BY <1>3, Zenon DEF Arrive, OwnInv
  <2> HIDE DEF x, l
  <2> QED
    BY <2>1, <2>2, KeyStep, ZenonT(30)
<1> QED
  BY <1>1, <1>2, <1>3, ProcessKey, ServeKey, Zenon DEF Next

\* resolveJWTKey, AppendKeys and writeFileAtomic: for any number of starts, kills at
\* any point and logins, a token that has not run out is accepted by the process
\* that signed it and by every later one, when the key is kept.
THEOREM TokensOutliveTheProcess == Spec => []SessionSurvives
<1>1. KeyInv => SessionSurvives
  <2> SUFFICES ASSUME KeyInv, NEW t \in tokens, proc = "up", KeyIsKept, now <= t.exp
               PROVE  ParseToken(t) = "ok"
    BY Zenon DEF SessionSurvives
  <2>1. /\ t.key = key /\ t.iat \in Int /\ t.iat <= now /\ t.exp \in Int /\ now \in Int
        /\ Someone(t.admin, t.client)
    BY Zenon DEF KeyInv, SigningKey
  <2>2. ~(now > t.exp) /\ ~(t.iat > now)
    BY <2>1
  <2>3. Verify(t) = "ok"
    BY <2>1, <2>2, Zenon DEF Verify
  <2>4. t.admin = (t.client = 0)
    BY <2>1, ZenonT(30) DEF Someone
  <2> QED
    BY <2>3, <2>4, Zenon DEF ParseToken
<1> QED
  BY <1>1, InitOwn, NextOwn, InitKey, NextKey, PTL DEF Spec

-----------------------------------------------------------------------------
(* The handshake of a connection (Handshake) *)

\* The types of a message and of an operation.
MsgKind == {"tst", "ver", "vs", "md5", "key32", "flag", "ts", "key64", "info", "rand", "hmac",
            "answer", "fp", "uuid", "type", "pub", "newconf", "key16", "stus", "len", "list",
            "hour", "addr", "vkey", "add", "host", "task", "", "verified", "ok", "served"}
OpKind == {"buf", "write", "read", "flush", "alive", "close", "mark", "loop", "add", "item", "status"}
MsgType == [k : MsgKind, of : Nat, ports : Nat, ok : BOOLEAN]
OpType == [do : OpKind, m : MsgType, i : Nat]

\* What a server sends only to a client that it has verified.
Vouch == {"answer", "flag"}
NoVouch(msgs) == \A i \in 1 .. Len(msgs) : msgs[i].k \notin Vouch

\* The operations of a server that has verified the client: it vouches for it,
\* or works on its configuration.
IsVouching(o) == (o.do \in {"buf", "write"} /\ o.m.k \in Vouch) \/ o.do \in {"loop", "add"}
\* The operations of a client after NewConn, or at its end, and the read that
\* lets it get there.
IsAccepted(o) == o.do \in {"mark", "item", "status"}
IsAnswerRead(o) == o.do = "read" /\ o.m.k \in Vouch

\* Every vouching operation comes after a mark.
MarkFirst(ops) ==
    \A i \in 1 .. Len(ops) : IsVouching(ops[i]) => \E j \in 1 .. i - 1 : ops[j].do = "mark"
\* Every operation of an accepted client comes after the read of an answer.
AnswerFirst(ops) ==
    \A i \in 1 .. Len(ops) : IsAccepted(ops[i]) => \E j \in 1 .. i - 1 : IsAnswerRead(ops[j])
NoMark(ops) == \A i \in 1 .. Len(ops) : ops[i].do # "mark"
\* A close comes before any mark.
ClosesFirst(ops) == \E i \in 1 .. Len(ops) : ops[i] = Close /\ \A j \in 1 .. i : ops[j].do # "mark"

\* What CliProcess verifies, and what NewConn verifies.
Known(s) == s.known /\ s.on /\ s.ver \in 0 .. Latest /\ (s.secure => s.ver >= MinVer /\ s.fresh)
Trusted(s) == s.ver > 1 => CertAccepted(s)

SideType == [ops : Seq(OpType), buf : Seq(MsgType), st : {"dial", "run", "closed", "crashed"},
             at : MsgKind \cup {"start"}, dl : BOOLEAN]

\* The inductive invariant. Before the server has passed its mark nothing vouches
\* for the client, and the client has still to read an answer.
HandshakeInv ==
    /\ pair \in Pairs
    /\ cli \in SideType /\ srv \in SideType /\ toS \in Seq(MsgType) /\ toC \in Seq(MsgType)
    /\ srv.at = "start" => /\ MarkFirst(srv.ops) /\ NoVouch(srv.buf) /\ NoVouch(toC)
                           /\ cli.at = "start" /\ AnswerFirst(cli.ops)
    /\ ~Known(pair) => srv.at = "start" /\ NoMark(srv.ops)
    /\ ~Trusted(pair) => cli.at = "start" /\ NoMark(cli.ops)

-----------------------------------------------------------------------------
(* Lists of operations *)

\* Concatenation, for each of the predicates.
LEMMA ConcatNoMark == ASSUME NEW a \in Seq(OpType), NEW b \in Seq(OpType), NoMark(a), NoMark(b)
                      PROVE  NoMark(a \o b)
  BY DEF NoMark

LEMMA ConcatClosesLeft == ASSUME NEW a \in Seq(OpType), NEW b \in Seq(OpType), ClosesFirst(a)
                          PROVE  ClosesFirst(a \o b)
  BY DEF ClosesFirst

LEMMA ConcatClosesRight ==
    ASSUME NEW a \in Seq(OpType), NEW b \in Seq(OpType), NoMark(a), ClosesFirst(b)
    PROVE  ClosesFirst(a \o b)
<1>1. PICK i \in 1 .. Len(b) : b[i] = Close /\ \A j \in 1 .. i : b[j].do # "mark"
  BY Zenon DEF ClosesFirst
<1>2. Len(a) + i \in 1 .. Len(a \o b) /\ (a \o b)[Len(a) + i] = Close
  BY <1>1
<1>3. ASSUME NEW j \in 1 .. Len(a) + i PROVE (a \o b)[j].do # "mark"
  BY <1>1 DEF NoMark
<1> QED
  BY <1>2, <1>3, Zenon DEF ClosesFirst

\* A list that may vouch because the part before it has passed a mark.
HasMark(a) == \E i \in 1 .. Len(a) : a[i].do = "mark"
HasAnswer(a) == \E i \in 1 .. Len(a) : IsAnswerRead(a[i])

LEMMA ConcatMarkFirst ==
    ASSUME NEW a \in Seq(OpType), NEW b \in Seq(OpType), MarkFirst(a), MarkFirst(b) \/ HasMark(a)
    PROVE  MarkFirst(a \o b)
<1> SUFFICES ASSUME NEW i \in 1 .. Len(a \o b), IsVouching((a \o b)[i])
             PROVE  \E j \in 1 .. i - 1 : (a \o b)[j].do = "mark"
  BY Zenon DEF MarkFirst
<1>1. CASE i <= Len(a)
  BY <1>1 DEF MarkFirst
<1>2. CASE i > Len(a) /\ HasMark(a)
  BY <1>2 DEF HasMark
<1>3. CASE i > Len(a) /\ MarkFirst(b)
  <2>1. i - Len(a) \in 1 .. Len(b) /\ (a \o b)[i] = b[i - Len(a)]
    BY <1>3
  <2>2. PICK j \in 1 .. i - Len(a) - 1 : b[j].do = "mark"
    BY <1>3, <2>1, Zenon DEF MarkFirst
  <2>3. Len(a) + j \in 1 .. i - 1 /\ (a \o b)[Len(a) + j] = b[j]
    BY <2>1, <2>2
  <2> QED
    BY <2>2, <2>3, Zenon
<1> QED
  BY <1>1, <1>2, <1>3

LEMMA ConcatHasMark ==
    ASSUME NEW a \in Seq(OpType), NEW b \in Seq(OpType), HasMark(a) \/ HasMark(b)
    PROVE  HasMark(a \o b)
<1>1. CASE HasMark(a)
  BY <1>1 DEF HasMark
<1>2. CASE HasMark(b)
  <2>1. PICK i \in 1 .. Len(b) : b[i].do = "mark"
    BY <1>2, Zenon DEF HasMark
  <2>2. Len(a) + i \in 1 .. Len(a \o b) /\ (a \o b)[Len(a) + i] = b[i]
    OBVIOUS
  <2> QED
    BY <2>1, <2>2, Zenon DEF HasMark
<1> QED
  BY <1>1, <1>2, Zenon

LEMMA ConcatAnswerFirst ==
    ASSUME NEW a \in Seq(OpType), NEW b \in Seq(OpType), AnswerFirst(a), HasAnswer(a)
    PROVE  AnswerFirst(a \o b)
<1>1. PICK k \in 1 .. Len(a) : IsAnswerRead(a[k])
  BY Zenon DEF HasAnswer
<1>2. (a \o b)[k] = a[k]
  BY <1>1
<1> SUFFICES ASSUME NEW i \in 1 .. Len(a \o b), IsAccepted((a \o b)[i])
             PROVE  \E j \in 1 .. i - 1 : IsAnswerRead((a \o b)[j])
  BY Zenon DEF AnswerFirst
<1>3. CASE i <= Len(a)
  <2>1. (a \o b)[i] = a[i] /\ i \in 1 .. Len(a)
    BY <1>3
  <2>2. PICK j \in 1 .. i - 1 : IsAnswerRead(a[j])
    BY <2>1, Zenon DEF AnswerFirst
  <2>3. (a \o b)[j] = a[j]
    BY <2>1
  <2> QED
    BY <2>2, <2>3, Zenon
<1>4. CASE i > Len(a)
  BY <1>1, <1>2, <1>4
<1> QED
  BY <1>3, <1>4

LEMMA ConcatHasAnswer ==
    ASSUME NEW a \in Seq(OpType), NEW b \in Seq(OpType), HasAnswer(a) \/ HasAnswer(b)
    PROVE  HasAnswer(a \o b)
<1>1. CASE HasAnswer(a)
  <2>1. PICK i \in 1 .. Len(a) : IsAnswerRead(a[i])
    BY <1>1, Zenon DEF HasAnswer
  <2>2. i \in 1 .. Len(a \o b) /\ (a \o b)[i] = a[i]
    OBVIOUS
  <2> QED
    BY <2>1, <2>2, Zenon DEF HasAnswer
<1>2. CASE HasAnswer(b)
  <2>1. PICK i \in 1 .. Len(b) : IsAnswerRead(b[i])
    BY <1>2, Zenon DEF HasAnswer
  <2>2. Len(a) + i \in 1 .. Len(a \o b) /\ (a \o b)[Len(a) + i] = b[i]
    OBVIOUS
  <2> QED
    BY <2>1, <2>2, Zenon DEF HasAnswer
<1> QED
  BY <1>1, <1>2, Zenon

\* Operations that neither pass a mark, nor vouch, nor use what was accepted.
IsPlain(o) == o.do # "mark" /\ ~IsVouching(o) /\ ~IsAccepted(o)
Plain(a) == a \in Seq(OpType) /\ \A i \in 1 .. Len(a) : IsPlain(a[i])

LEMMA PlainOps == ASSUME NEW a, Plain(a)
                  PROVE  a \in Seq(OpType) /\ NoMark(a) /\ MarkFirst(a) /\ AnswerFirst(a)
  BY Zenon DEF Plain, IsPlain, NoMark, MarkFirst, AnswerFirst

LEMMA ConcatPlain == ASSUME NEW a, NEW b, Plain(a), Plain(b) PROVE Plain(a \o b)
<1>1. a \o b \in Seq(OpType)
  BY DEF Plain
<1>2. ASSUME NEW i \in 1 .. Len(a \o b) PROVE IsPlain((a \o b)[i])
  <2>1. CASE i <= Len(a)
    <3>1. (a \o b)[i] = a[i] /\ i \in 1 .. Len(a)
      BY <2>1 DEF Plain
    <3> QED
      BY <3>1, Zenon DEF Plain
  <2>2. CASE i > Len(a)
    <3>1. (a \o b)[i] = b[i - Len(a)] /\ i - Len(a) \in 1 .. Len(b)
      BY <2>2 DEF Plain
    <3> QED
      BY <3>1, Zenon DEF Plain
  <2> QED
    BY <2>1, <2>2 DEF Plain
<1> QED
  BY <1>1, <1>2, Zenon DEF Plain

LEMMA IfPlain == ASSUME NEW b, NEW a, b => Plain(a) PROVE Plain(If(b, a))
  BY DEF If, Plain

LEMMA IfOps == ASSUME NEW b, NEW a \in Seq(OpType) PROVE If(b, a) \in Seq(OpType)
  BY DEF If

\* A nonempty set of positions has a least one.
LEMMA MinOfPositions ==
    ASSUME NEW S \in SUBSET Nat, S # {}
    PROVE  Min(S) \in S /\ \A x \in S : Min(S) <= x
<1> DEFINE R == OpToRel(<, Nat)
<1>1. PICK t \in S : \A y \in S : ~(<<y, t>> \in R)
  <2> HIDE DEF R
  <2> QED
    BY NatLessThanWellFounded, WFMin, ZenonT(30) DEF R
<1>2. ASSUME NEW y \in S PROVE t <= y
  <2>1. y < t => <<y, t>> \in R
    BY Zenon DEF OpToRel
  <2> HIDE DEF R
  <2> QED
    BY <1>1, <2>1
<1> QED
  BY <1>2, Zenon DEF Min

\* UpTo cuts a list after its first Close, so it keeps what holds of prefixes, and
\* no mark is left where a close comes first.
LEMMA UpToIsPrefix ==
    ASSUME NEW a \in Seq(OpType)
    PROVE  /\ UpTo(a) \in Seq(OpType) /\ Len(UpTo(a)) <= Len(a)
           /\ \A i \in 1 .. Len(UpTo(a)) : UpTo(a)[i] = a[i]
           /\ ClosesFirst(a) => NoMark(UpTo(a))
<1> DEFINE I == {i \in 1 .. Len(a) : a[i] = Close}
<1>1. CASE I = {}
  <2>1. UpTo(a) = a
    BY <1>1, Zenon DEF UpTo
  <2>2. ~ClosesFirst(a)
    BY <1>1, Zenon DEF ClosesFirst
  <2> QED
    BY <2>1, <2>2
<1>2. CASE I # {}
  <2>1. Min(I) \in I /\ \A x \in I : Min(I) <= x
    <3>1. I \in SUBSET Nat
      OBVIOUS
    <3> HIDE DEF I
    <3> QED
      BY <1>2, <3>1, MinOfPositions, Zenon
  <2> DEFINE n == Min(I)
  <2>4. UpTo(a) = SubSeq(a, 1, n)
    BY <1>2, Zenon DEF UpTo
  <2> HIDE DEF n
  <2>5. n \in 1 .. Len(a) /\ \A x \in 1 .. Len(a) : a[x] = Close => n <= x
    BY <2>1, Zenon DEF n
  <2>6. /\ UpTo(a) \in Seq(OpType) /\ Len(UpTo(a)) = n
        /\ \A i \in 1 .. n : UpTo(a)[i] = a[i]
    BY <2>4, <2>5
  <2>7. ClosesFirst(a) => NoMark(UpTo(a))
    BY <2>5, <2>6 DEF ClosesFirst, NoMark
  <2> QED
    BY <2>5, <2>6, <2>7
<1> QED
  BY <1>1, <1>2, Zenon

LEMMA UpToMarkFirst == ASSUME NEW a \in Seq(OpType), MarkFirst(a) PROVE MarkFirst(UpTo(a))
  BY UpToIsPrefix DEF MarkFirst

LEMMA UpToAnswerFirst == ASSUME NEW a \in Seq(OpType), AnswerFirst(a) PROVE AnswerFirst(UpTo(a))
<1>1. ASSUME NEW i \in 1 .. Len(UpTo(a)), IsAccepted(UpTo(a)[i])
      PROVE  \E j \in 1 .. i - 1 : IsAnswerRead(UpTo(a)[j])
  <2>1. UpTo(a)[i] = a[i] /\ i \in 1 .. Len(a) /\ \A j \in 1 .. i - 1 : UpTo(a)[j] = a[j]
    BY UpToIsPrefix
  <2>2. PICK j \in 1 .. i - 1 : IsAnswerRead(a[j])
    BY <1>1, <2>1, Zenon DEF AnswerFirst
  <2> QED
    BY <2>1, <2>2, Zenon
<1> QED
  BY <1>1, Zenon DEF AnswerFirst

\* The rest of a list whose first operation has been performed.
LEMMA TailOps ==
    ASSUME NEW a \in Seq(OpType), a # <<>>
    PROVE  /\ Head(a) = a[1] /\ Head(a) \in OpType /\ Tail(a) \in Seq(OpType)
           /\ Len(Tail(a)) = Len(a) - 1 /\ \A i \in 1 .. Len(a) - 1 : Tail(a)[i] = a[i + 1]
           /\ NoMark(a) => NoMark(Tail(a)) /\ Head(a).do # "mark"
  BY DEF NoMark

LEMMA TailMarkFirst ==
    ASSUME NEW a \in Seq(OpType), a # <<>>, MarkFirst(a)
    PROVE  ~IsVouching(Head(a)) /\ (Head(a).do # "mark" => MarkFirst(Tail(a)))
<1>1. ~IsVouching(Head(a))
  BY TailOps DEF MarkFirst
<1>2. ASSUME Head(a).do # "mark", NEW i \in 1 .. Len(Tail(a)), IsVouching(Tail(a)[i])
      PROVE  \E j \in 1 .. i - 1 : Tail(a)[j].do = "mark"
  <2>1. i + 1 \in 1 .. Len(a) /\ Tail(a)[i] = a[i + 1]
    BY TailOps
  <2>2. PICK j \in 1 .. i : a[j].do = "mark"
    BY <1>2, <2>1 DEF MarkFirst
  <2>3. j # 1
    BY <1>2, <2>2, TailOps, Zenon
  <2>4. j - 1 \in 1 .. i - 1 /\ Tail(a)[j - 1] = a[j]
    BY <2>1, <2>3, TailOps
  <2> QED
    BY <2>2, <2>4, Zenon
<1> QED
  BY <1>1, <1>2, Zenon DEF MarkFirst

LEMMA TailAnswerFirst ==
    ASSUME NEW a \in Seq(OpType), a # <<>>, AnswerFirst(a)
    PROVE  ~IsAccepted(Head(a)) /\ (~IsAnswerRead(Head(a)) => AnswerFirst(Tail(a)))
<1>1. ~IsAccepted(Head(a))
  BY TailOps DEF AnswerFirst
<1>2. ASSUME ~IsAnswerRead(Head(a)), NEW i \in 1 .. Len(Tail(a)), IsAccepted(Tail(a)[i])
      PROVE  \E j \in 1 .. i - 1 : IsAnswerRead(Tail(a)[j])
  <2>1. i + 1 \in 1 .. Len(a) /\ Tail(a)[i] = a[i + 1]
    BY TailOps
  <2>2. PICK j \in 1 .. i : IsAnswerRead(a[j])
    BY <1>2, <2>1 DEF AnswerFirst
  <2>3. j # 1
    BY <1>2, <2>2, TailOps, Zenon
  <2>4. j - 1 \in 1 .. i - 1 /\ Tail(a)[j - 1] = a[j]
    BY <2>1, <2>3, TailOps
  <2> QED
    BY <2>2, <2>4, Zenon
<1> QED
  BY <1>1, <1>2, Zenon DEF AnswerFirst

-----------------------------------------------------------------------------
(* The two programs *)

\* Single operations.
LEMMA OpFields ==
    ASSUME NEW d \in OpKind, NEW k \in MsgKind
    PROVE  /\ Op(d, Msg(k), 0) \in OpType /\ Op(d, Msg(k), 0).do = d /\ Op(d, Msg(k), 0).m.k = k
  BY Zenon DEF Op, Msg, OpType, MsgType

LEMMA OpsTyped ==
    ASSUME NEW k \in MsgKind
    PROVE  /\ Buf(k) \in OpType /\ Write(k) \in OpType /\ Read(k) \in OpType /\ Mark(k) \in OpType
           /\ IsPlain(Read(k)) /\ Mark(k).do = "mark"
           /\ k \notin Vouch => IsPlain(Buf(k)) /\ IsPlain(Write(k))
           /\ k \in Vouch => IsAnswerRead(Read(k))
<1>1. /\ Buf(k) \in OpType /\ Buf(k).do = "buf" /\ Buf(k).m.k = k
      /\ Write(k) \in OpType /\ Write(k).do = "write" /\ Write(k).m.k = k
      /\ Read(k) \in OpType /\ Read(k).do = "read" /\ Read(k).m.k = k
      /\ Mark(k) \in OpType /\ Mark(k).do = "mark"
  BY OpFields DEF Buf, Write, Read, Mark, OpKind
<1> QED
  BY <1>1, Zenon DEF IsPlain, IsVouching, IsAccepted, IsAnswerRead

LEMMA OthersTyped ==
    /\ Flush \in OpType /\ Alive \in OpType /\ Close \in OpType /\ FlagLoop \in OpType
    /\ IsPlain(Flush) /\ IsPlain(Alive) /\ IsPlain(Close)
<1>0. "" \in MsgKind
  BY Zenon DEF MsgKind
<1>1. /\ Flush \in OpType /\ Flush.do = "flush" /\ Alive \in OpType /\ Alive.do = "alive"
      /\ Close \in OpType /\ Close.do = "close" /\ FlagLoop \in OpType
  <2>1. {"flush", "alive", "close", "loop"} \subseteq OpKind
    BY Zenon DEF OpKind
  <2>2. \A d \in OpKind : Op(d, Msg(""), 0) \in OpType /\ Op(d, Msg(""), 0).do = d
    BY <1>0, OpFields, Zenon
  <2> QED
    BY <2>1, <2>2, Zenon DEF Flush, Alive, Close, FlagLoop
<1> QED
  BY <1>1, Zenon DEF IsPlain, IsVouching, IsAccepted

LEMMA Plain1 == ASSUME NEW a \in OpType, IsPlain(a) PROVE Plain(<<a>>)
  BY DEF Plain

LEMMA Plain2 == ASSUME NEW a \in OpType, NEW b \in OpType, IsPlain(a), IsPlain(b) PROVE Plain(<<a, b>>)
  BY DEF Plain

LEMMA Plain3 == ASSUME NEW a \in OpType, NEW b \in OpType, NEW c \in OpType, IsPlain(a), IsPlain(b), IsPlain(c)
                PROVE  Plain(<<a, b, c>>)
  BY DEF Plain

LEMMA Plain5 == ASSUME NEW a \in OpType, NEW b \in OpType, NEW c \in OpType, NEW d \in OpType, NEW e \in OpType,
                       IsPlain(a), IsPlain(b), IsPlain(c), IsPlain(d), IsPlain(e)
                PROVE  Plain(<<a, b, c, d, e>>)
  BY DEF Plain

\* The close of an exit.
LEMMA CloseIsFirst == ClosesFirst(<<Close>>)
<1>1. <<Close>>[1] = Close /\ Len(<<Close>>) = 1 /\ 1 \in 1 .. 1
  OBVIOUS
<1>2. Close.do # "mark"
  BY Zenon DEF Close, Op
<1> QED
  BY <1>1, <1>2 DEF ClosesFirst

\* CheckReply of NewConn: it reads the answer, and closes on a certificate it does not
\* trust.
LEMMA CheckReplyOps ==
    ASSUME NEW s
    PROVE  /\ Plain(CheckReply(s)) /\ HasAnswer(CheckReply(s))
           /\ ~Trusted(s) => ClosesFirst(CheckReply(s))
<1> DEFINE A == <<Read("answer")>>
           N == Need(CertAccepted(s), <<Close>>)
           C == If(s.ver > 1, <<Read("fp")>> \o N)
           U == If(s.ver > 5, <<Read("uuid")>>)
           R == If(s.ver > 3, <<Read("rand")>>)
<1>1. Plain(A) /\ Plain(<<Read("fp")>>) /\ Plain(<<Read("uuid")>>) /\ Plain(<<Read("rand")>>) /\ Plain(<<Close>>)
  BY Plain1, OpsTyped, OthersTyped, Zenon DEF MsgKind
<1>2. HasAnswer(A)
  <2>1. A[1] = Read("answer") /\ Len(A) = 1 /\ 1 \in 1 .. 1
    OBVIOUS
  <2>2. IsAnswerRead(Read("answer"))
    BY OpsTyped, Zenon DEF Vouch, MsgKind
  <2> HIDE DEF A
  <2> QED
    BY <2>1, <2>2, Zenon DEF HasAnswer
<1>3. Plain(N) /\ (~CertAccepted(s) => ClosesFirst(N))
  BY <1>1, IfPlain, CloseIsFirst, Zenon DEF Need, If
<1>4. Plain(C) /\ (~Trusted(s) => ClosesFirst(C))
  <2>1. Plain(<<Read("fp")>> \o N)
    BY <1>1, <1>3, ConcatPlain, Zenon
  <2>2. ~CertAccepted(s) => ClosesFirst(<<Read("fp")>> \o N)
    BY <1>1, <1>3, ConcatClosesRight, PlainOps, Zenon
  <2> HIDE DEF N
  <2>3. Plain(C)
    BY <2>1, IfPlain, Zenon
  <2>4. ~Trusted(s) => ClosesFirst(C)
    BY <2>2, Zenon DEF Trusted, If
  <2> QED
    BY <2>3, <2>4, Zenon
<1>5. Plain(U) /\ Plain(R)
  BY <1>1, IfPlain, Zenon
<1>6. CheckReply(s) = A \o C \o U \o R
  BY Zenon DEF CheckReply
<1> HIDE DEF A, C, U, R
<1>7. Plain(A \o C) /\ HasAnswer(A \o C) /\ (~Trusted(s) => ClosesFirst(A \o C))
  BY <1>1, <1>2, <1>4, PlainOps, ConcatPlain, ConcatHasAnswer, ConcatClosesRight, Zenon
<1>8. Plain(A \o C \o U) /\ HasAnswer(A \o C \o U) /\ (~Trusted(s) => ClosesFirst(A \o C \o U))
  BY <1>5, <1>7, PlainOps, ConcatPlain, ConcatHasAnswer, ConcatClosesLeft, Zenon
<1> QED
  BY <1>5, <1>6, <1>8, PlainOps, ConcatPlain, ConcatHasAnswer, ConcatClosesLeft, Zenon

LEMMA SeqOf1 == ASSUME NEW a \in OpType PROVE <<a>> \in Seq(OpType)
  OBVIOUS
LEMMA SeqOf2 == ASSUME NEW a \in OpType, NEW b \in OpType PROVE <<a, b>> \in Seq(OpType)
  OBVIOUS
LEMMA SeqOf3 == ASSUME NEW a \in OpType, NEW b \in OpType, NEW c \in OpType
                PROVE  <<a, b, c>> \in Seq(OpType)
  OBVIOUS
LEMMA SeqOfMore == ASSUME NEW a \in Seq(OpType), NEW b \in Seq(OpType) PROVE a \o b \in Seq(OpType)
  OBVIOUS

\* NewConn: it passes its mark only after an answer, and not at all where it does not
\* trust the server.
LEMMA NewConnOps ==
    ASSUME NEW s
    PROVE  /\ NewConn(s) \in Seq(OpType) /\ AnswerFirst(NewConn(s)) /\ HasAnswer(NewConn(s))
           /\ ~Trusted(s) /\ s.ver # 0 => ClosesFirst(NewConn(s))
<1> DEFINE V == IF s.ver = 0 THEN OldAuth ELSE SendAuth \o CheckReply(s)
           M == <<Mark("verified")>>
<1>1. Plain(Hello)
  BY Plain3, OpsTyped, Zenon DEF Hello, MsgKind, Vouch
<1>2. Plain(OldAuth) /\ HasAnswer(OldAuth)
  <2>1. Buf("key32") \in OpType /\ IsPlain(Buf("key32")) /\ IsPlain(Read("md5")) /\ IsPlain(Read("flag"))
        /\ Read("md5") \in OpType /\ Read("flag") \in OpType /\ IsAnswerRead(Read("flag"))
    BY OpsTyped, Zenon DEF MsgKind, Vouch
  <2>2. OldAuth[3] = Read("flag") /\ Len(OldAuth) = 3 /\ 3 \in 1 .. 3
    BY DEF OldAuth
  <2>3. HasAnswer(OldAuth)
    BY <2>1, <2>2, Zenon DEF HasAnswer
  <2> QED
    BY <2>1, <2>3, Plain3, Zenon DEF OldAuth
<1>3. Plain(SendAuth)
  <2>1. Buf("ts") \in OpType /\ Buf("key64") \in OpType /\ Buf("info") \in OpType /\ Buf("rand") \in OpType /\ Buf("hmac") \in OpType
    BY OpsTyped, Zenon DEF MsgKind
  <2>2. IsPlain(Buf("ts")) /\ IsPlain(Buf("key64")) /\ IsPlain(Buf("info")) /\ IsPlain(Buf("rand")) /\ IsPlain(Buf("hmac"))
    BY OpsTyped, Zenon DEF MsgKind, Vouch
  <2> QED
    BY <2>1, <2>2, Plain5, Zenon DEF SendAuth
<1>4. Plain(V) /\ HasAnswer(V) /\ (~Trusted(s) /\ s.ver # 0 => ClosesFirst(V))
  <2>1. CASE s.ver = 0
    BY <1>2, <2>1, Zenon
  <2>2. CASE s.ver # 0
    BY <1>3, <2>2, CheckReplyOps, PlainOps, ConcatPlain, ConcatHasAnswer, ConcatClosesRight, Zenon
  <2> QED
    BY <2>1, <2>2, Zenon
<1>5. M \in Seq(OpType)
  BY OpsTyped, SeqOf1, Zenon DEF MsgKind
<1>6. NewConn(s) = Hello \o V \o M
  BY Zenon DEF NewConn
<1> HIDE DEF V, M
<1>7. Plain(Hello \o V) /\ HasAnswer(Hello \o V) /\ (~Trusted(s) /\ s.ver # 0 => ClosesFirst(Hello \o V))
  BY <1>1, <1>4, PlainOps, ConcatPlain, ConcatHasAnswer, ConcatClosesRight, Zenon
<1> QED
  BY <1>5, <1>6, <1>7, PlainOps, SeqOfMore, ConcatAnswerFirst, ConcatHasAnswer, ConcatClosesLeft, Zenon

\* SendType and the requests are lists of operations.
LEMMA SendTypeOps == ASSUME NEW s PROVE SendType(s) \in Seq(OpType)
<1>1. <<Buf("type")>> \in Seq(OpType) /\ <<Buf("uuid")>> \in Seq(OpType) /\ <<Buf("rand")>> \in Seq(OpType) /\ <<Flush, Alive>> \in Seq(OpType)
  BY OpsTyped, OthersTyped, SeqOf1, SeqOf2, Zenon DEF MsgKind
<1> QED
  BY <1>1, IfOps, SeqOfMore, Zenon DEF SendType

LEMMA ElementOf == ASSUME NEW S, NEW q \in Seq(S), NEW i \in 1 .. Len(q) PROVE q[i] \in S
  OBVIOUS
LEMMA FunctionIsSeq == ASSUME NEW S, NEW n \in Nat, NEW f \in [1 .. n -> S] PROVE f \in Seq(S)
  OBVIOUS

LEMMA SendItemsOps == ASSUME NEW s \in PairType PROVE SendItems(s) \in Seq(OpType)
<1>1. s.items \in Seq([mode : {"host", "task"}, ports : Nat])
  BY Zenon DEF PairType
<1>2. 2 * Len(s.items) \in Nat
  BY <1>1
<1>3. ASSUME NEW n \in 1 .. 2 * Len(s.items)
      PROVE  /\ (n + 1) \div 2 \in 1 .. Len(s.items)
             /\ s.items[(n + 1) \div 2].mode \in MsgKind /\ s.items[(n + 1) \div 2].ports \in Nat
  <2>1. (n + 1) \div 2 \in 1 .. Len(s.items)
    BY <1>1, <1>2
  <2>2. s.items[(n + 1) \div 2] \in [mode : {"host", "task"}, ports : Nat]
    BY <1>1, <2>1, ElementOf, Zenon
  <2>3. s.items[(n + 1) \div 2].mode \in {"host", "task"} /\ s.items[(n + 1) \div 2].ports \in Nat
    BY <2>2, Zenon
  <2> QED
    BY <2>1, <2>3, Zenon DEF MsgKind
<1>4. ASSUME NEW j \in Nat, NEW k \in MsgKind, NEW p \in Nat
      PROVE  Op("item", [Msg(k) EXCEPT !.of = j, !.ports = p], j) \in OpType /\ Op("status", Msg("add"), j) \in OpType
  BY ZenonT(30) DEF Op, Msg, OpType, MsgType, OpKind, MsgKind
<1>5. ASSUME NEW n \in 1 .. 2 * Len(s.items)
      PROVE  (LET i == (n + 1) \div 2 IN
              IF n % 2 = 1
              THEN Op("item", [Msg(s.items[i].mode) EXCEPT !.of = i, !.ports = s.items[i].ports], i)
              ELSE Op("status", Msg("add"), i)) \in OpType
  <2>1. (n + 1) \div 2 \in Nat
    BY <1>3
  <2> QED
    BY <1>3, <1>4, <2>1, Zenon
<1>6. SendItems(s) \in [1 .. 2 * Len(s.items) -> OpType]
  BY <1>5, Zenon DEF SendItems
<1> QED
  BY <1>2, <1>6, FunctionIsSeq, Zenon

LEMMA RequestOps == ASSUME NEW s \in PairType PROVE AskFor(s) \in Seq(OpType)
<1>1. <<Mark("ok")>> \in Seq(OpType)
  BY OpsTyped, SeqOf1, Zenon DEF MsgKind
<1>2. SendConfigFile(s) \in Seq(OpType)
  <2>1. <<Read("pub")>> \in Seq(OpType) /\ <<Mark("ok"), Close>> \in Seq(OpType)
    BY OpsTyped, OthersTyped, SeqOf1, SeqOf2, Zenon DEF MsgKind
  <2>2. Op("status", Msg("add"), 0) \in OpType
    BY OpFields, Zenon DEF OpKind, MsgKind
  <2>3. <<Write("newconf"), Op("status", Msg("add"), 0), Read("key16")>> \in Seq(OpType)
    BY <2>2, OpsTyped, SeqOf3, Zenon DEF MsgKind
  <2> QED
    BY <2>1, <2>3, IfOps, SendItemsOps, SeqOfMore, Zenon DEF SendConfigFile
<1>3. GetTaskStatus \in Seq(OpType)
  <2>1. /\ Buf("stus") \in OpType /\ Write("key64") \in OpType /\ Read("pub") \in OpType /\ Read("len") \in OpType
        /\ Read("list") \in OpType /\ Mark("ok") \in OpType /\ Close \in OpType
    BY OpsTyped, OthersTyped, Zenon DEF MsgKind
  <2> QED
    BY <2>1 DEF GetTaskStatus
<1>4. RegisterLocalIp \in Seq(OpType) /\ SendSecret \in Seq(OpType)
  BY OpsTyped, OthersTyped, SeqOf2, SeqOf3, Zenon DEF RegisterLocalIp, SendSecret, MsgKind
<1>5. AskP2P \in Seq(OpType)
  <2>1. Write("key32") \in OpType /\ Read("addr") \in OpType /\ Mark("ok") \in OpType /\ Close \in OpType
    BY OpsTyped, OthersTyped, Zenon DEF MsgKind
  <2> QED
    BY <2>1 DEF AskP2P
<1>6. s.want \in Wants
  BY Zenon DEF PairType
<1> QED
  BY <1>1, <1>2, <1>3, <1>4, <1>5, <1>6, Zenon DEF AskFor, Wants

LEMMA ClientOps ==
    ASSUME NEW s \in Pairs
    PROVE  /\ Client(s) \in Seq(OpType) /\ AnswerFirst(Client(s))
           /\ ~Trusted(s) => NoMark(Client(s))
<1>1. s \in PairType /\ (~Trusted(s) => s.ver # 0)
  BY PairAssumption DEF PairType, Trusted
<1>2. NewConn(s) \in Seq(OpType) /\ SendType(s) \in Seq(OpType) /\ AskFor(s) \in Seq(OpType)
  BY <1>1, NewConnOps, SendTypeOps, RequestOps, Zenon
<1>3. /\ NewConn(s) \o SendType(s) \in Seq(OpType) /\ AnswerFirst(NewConn(s) \o SendType(s))
      /\ HasAnswer(NewConn(s) \o SendType(s))
      /\ ~Trusted(s) => ClosesFirst(NewConn(s) \o SendType(s))
  BY <1>1, <1>2, NewConnOps, SeqOfMore, ConcatAnswerFirst, ConcatHasAnswer, ConcatClosesLeft, Zenon
<1>4. /\ NewConn(s) \o SendType(s) \o AskFor(s) \in Seq(OpType) /\ AnswerFirst(NewConn(s) \o SendType(s) \o AskFor(s))
      /\ ~Trusted(s) => ClosesFirst(NewConn(s) \o SendType(s) \o AskFor(s))
  BY <1>2, <1>3, SeqOfMore, ConcatAnswerFirst, ConcatClosesLeft, Zenon
<1> QED
  BY <1>4, UpToIsPrefix, UpToAnswerFirst, Zenon DEF Client

\* A refusal closes.
LEMMA VerifyErrorOps == ASSUME NEW s PROVE Plain(VerifyError(s)) /\ ClosesFirst(VerifyError(s))
<1>1. Plain(<<Write("vkey")>>) /\ Plain(<<Close>>)
  BY OpsTyped, OthersTyped, Plain1, Zenon DEF MsgKind, Vouch
<1>2. Plain(If(~s.secure, <<Write("vkey")>>))
  BY <1>1, IfPlain, Zenon
<1> QED
  BY <1>1, <1>2, CloseIsFirst, PlainOps, ConcatPlain, ConcatClosesRight, Zenon DEF VerifyError

\* A check that fails closes, one that holds does nothing.
LEMMA NeedOps ==
    ASSUME NEW b, NEW a, Plain(a), ClosesFirst(a)
    PROVE  Plain(Need(b, a)) /\ (~b => ClosesFirst(Need(b, a)))
  BY IfPlain, Zenon DEF Need, If

LEMMA ReadVersionOps ==
    ASSUME NEW s
    PROVE  /\ Plain(ReadVersion(s))
           /\ ~(GetIndex(s.ver) # -1 /\ (s.secure => GetIndex(s.ver) >= MinVer)) => ClosesFirst(ReadVersion(s))
<1> DEFINE ok == GetIndex(s.ver) # -1 /\ (s.secure => GetIndex(s.ver) >= MinVer)
<1>1. Plain(<<Read("tst"), Read("ver")>>) /\ Plain(<<Read("vs")>>) /\ Plain(<<Close>>)
  BY OpsTyped, OthersTyped, Plain1, Plain2, Zenon DEF MsgKind
<1>2. Plain(Need(ok, <<Close>>)) /\ (~ok => ClosesFirst(Need(ok, <<Close>>)))
  BY <1>1, NeedOps, CloseIsFirst, Zenon
<1>3. ReadVersion(s) = <<Read("tst"), Read("ver")>> \o Need(ok, <<Close>>) \o <<Read("vs")>>
  BY Zenon DEF ReadVersion
<1> HIDE DEF ok
<1>4. /\ Plain(<<Read("tst"), Read("ver")>> \o Need(ok, <<Close>>))
      /\ ~ok => ClosesFirst(<<Read("tst"), Read("ver")>> \o Need(ok, <<Close>>))
  BY <1>1, <1>2, PlainOps, ConcatPlain, ConcatClosesRight, Zenon
<1>5. Plain(ReadVersion(s)) /\ (~ok => ClosesFirst(ReadVersion(s)))
  BY <1>1, <1>3, <1>4, PlainOps, ConcatPlain, ConcatClosesLeft, Zenon
<1> QED
  BY <1>5, Zenon DEF ok

LEMMA OldVerifyOps ==
    ASSUME NEW s
    PROVE  /\ OldVerify(s) \in Seq(OpType) /\ MarkFirst(OldVerify(s)) /\ HasMark(OldVerify(s))
           /\ ~(s.known /\ s.on) => ClosesFirst(OldVerify(s))
<1> DEFINE A == <<Write("md5"), Read("key32")>>
           N == Need(s.known /\ s.on, VerifyError(s))
           M == <<Mark("verified"), Write("flag")>>
<1>1. Plain(A)
  BY OpsTyped, Plain2, Zenon DEF MsgKind, Vouch
<1>2. Plain(N) /\ (~(s.known /\ s.on) => ClosesFirst(N))
  BY VerifyErrorOps, NeedOps, Zenon
<1>3. M \in Seq(OpType) /\ MarkFirst(M) /\ HasMark(M)
  <2>1. Mark("verified") \in OpType /\ Write("flag") \in OpType /\ Mark("verified").do = "mark"
    BY OpsTyped, Zenon DEF MsgKind
  <2>2. M \in Seq(OpType) /\ Len(M) = 2 /\ M[1].do = "mark"
    BY <2>1
  <2>3. ~IsVouching(M[1])
    BY <2>2, Zenon DEF IsVouching
  <2> HIDE DEF M
  <2>4. MarkFirst(M)
    BY <2>2, <2>3 DEF MarkFirst
  <2> QED
    BY <2>2, <2>4 DEF HasMark
<1>4. OldVerify(s) = A \o N \o M
  BY Zenon DEF OldVerify
<1> HIDE DEF A, N, M
<1>5. Plain(A \o N) /\ (~(s.known /\ s.on) => ClosesFirst(A \o N))
  BY <1>1, <1>2, PlainOps, ConcatPlain, ConcatClosesRight, Zenon
<1> QED
  BY <1>3, <1>4, <1>5, PlainOps, SeqOfMore, ConcatMarkFirst, ConcatHasMark, ConcatClosesLeft, Zenon

LEMMA VerifyKeyOps ==
    ASSUME NEW s
    PROVE  /\ Plain(VerifyKey(s))
           /\ ~((s.secure => s.fresh) /\ s.known /\ s.on) => ClosesFirst(VerifyKey(s))
<1> DEFINE T == <<Read("ts")>>
           F == Need(s.secure => s.fresh, <<Close>>)
           K == <<Read("key64")>>
           E == Need(s.known, VerifyError(s))
           O == Need(s.on, <<Close>>)
<1>1. Plain(T) /\ Plain(K) /\ Plain(<<Close>>)
  BY OpsTyped, OthersTyped, Plain1, Zenon DEF MsgKind
<1>2. Plain(F) /\ (~(s.secure => s.fresh) => ClosesFirst(F))
  BY <1>1, NeedOps, CloseIsFirst, Zenon
<1>3. Plain(E) /\ (~s.known => ClosesFirst(E))
  BY VerifyErrorOps, NeedOps, Zenon
<1>4. Plain(O) /\ (~s.on => ClosesFirst(O))
  BY <1>1, NeedOps, CloseIsFirst, Zenon
<1>5. VerifyKey(s) = T \o F \o K \o E \o O
  BY Zenon DEF VerifyKey
<1> HIDE DEF T, F, K, E, O
<1>6. Plain(T \o F) /\ (~(s.secure => s.fresh) => ClosesFirst(T \o F))
  BY <1>1, <1>2, PlainOps, ConcatPlain, ConcatClosesRight, Zenon
<1>7. Plain(T \o F \o K) /\ (~(s.secure => s.fresh) => ClosesFirst(T \o F \o K))
  BY <1>1, <1>6, PlainOps, ConcatPlain, ConcatClosesLeft, Zenon
<1>8. Plain(T \o F \o K \o E) /\ (~((s.secure => s.fresh) /\ s.known) => ClosesFirst(T \o F \o K \o E))
  BY <1>3, <1>7, PlainOps, ConcatPlain, ConcatClosesLeft, ConcatClosesRight, Zenon
<1> QED
  BY <1>4, <1>5, <1>8, PlainOps, ConcatPlain, ConcatClosesLeft, ConcatClosesRight, Zenon

LEMMA ReplyOps == ASSUME NEW s PROVE Reply(s) \in Seq(OpType)
<1>1. /\ <<Buf("answer")>> \in Seq(OpType) /\ <<Buf("fp")>> \in Seq(OpType) /\ <<Buf("uuid")>> \in Seq(OpType)
      /\ <<Buf("rand")>> \in Seq(OpType) /\ <<Flush>> \in Seq(OpType)
  BY OpsTyped, OthersTyped, SeqOf1, Zenon DEF MsgKind
<1> QED
  BY <1>1, IfOps, SeqOfMore, Zenon DEF Reply

\* The server vouches after its mark, and does not get there with a client it does not
\* accept.
LEMMA VerifyOps ==
    ASSUME NEW s
    PROVE  /\ VerifyClient(s) \in Seq(OpType) /\ MarkFirst(VerifyClient(s)) /\ HasMark(VerifyClient(s))
           /\ ~(s.known /\ s.on) => ClosesFirst(VerifyClient(s))
           /\ s.ver # 0 /\ ~(s.secure => s.fresh) => ClosesFirst(VerifyClient(s))
<1>1. CASE s.ver = 0
  BY <1>1, OldVerifyOps, Zenon DEF VerifyClient
<1>2. CASE s.ver # 0
  <2> DEFINE A == VerifyKey(s) \o VerifyInfo
             M == <<Mark("verified")>>
             ok == (s.secure => s.fresh) /\ s.known /\ s.on
  <2>1. Plain(VerifyInfo)
    BY OpsTyped, Plain3, Zenon DEF VerifyInfo, MsgKind
  <2>2. Plain(A) /\ (~ok => ClosesFirst(A))
    BY <2>1, VerifyKeyOps, PlainOps, ConcatPlain, ConcatClosesLeft, Zenon
  <2>3. M \in Seq(OpType) /\ MarkFirst(M) /\ HasMark(M)
    <3>1. Mark("verified") \in OpType /\ Mark("verified").do = "mark"
      BY OpsTyped, Zenon DEF MsgKind
    <3>2. M \in Seq(OpType) /\ Len(M) = 1 /\ M[1].do = "mark"
      BY <3>1
    <3>3. ~IsVouching(M[1])
      BY <3>2, Zenon DEF IsVouching
    <3> HIDE DEF M
    <3>4. MarkFirst(M)
      BY <3>2, <3>3 DEF MarkFirst
    <3> QED
      BY <3>2, <3>4 DEF HasMark
  <2>4. VerifyClient(s) = A \o M \o Reply(s)
    BY <1>2, Zenon DEF VerifyClient
  <2> HIDE DEF A, M
  <2>5. /\ A \o M \in Seq(OpType) /\ MarkFirst(A \o M) /\ HasMark(A \o M)
        /\ ~ok => ClosesFirst(A \o M)
    BY <2>2, <2>3, PlainOps, SeqOfMore, ConcatMarkFirst, ConcatHasMark, ConcatClosesLeft, Zenon
  <2>6. /\ VerifyClient(s) \in Seq(OpType) /\ MarkFirst(VerifyClient(s)) /\ HasMark(VerifyClient(s))
        /\ ~ok => ClosesFirst(VerifyClient(s))
    BY <2>4, <2>5, ReplyOps, SeqOfMore, ConcatMarkFirst, ConcatHasMark, ConcatClosesLeft, Zenon
  <2> QED
    BY <2>6, Zenon
<1> QED
  BY <1>1, <1>2, Zenon

LEMMA ReadTypeOps == ASSUME NEW s PROVE ReadType(s) \in Seq(OpType)
<1>1. /\ <<Read("type")>> \in Seq(OpType) /\ <<Read("uuid")>> \in Seq(OpType)
      /\ <<Read("rand")>> \in Seq(OpType) /\ <<Alive>> \in Seq(OpType)
  BY OpsTyped, OthersTyped, SeqOf1, Zenon DEF MsgKind
<1> QED
  BY <1>1, IfOps, SeqOfMore, Zenon DEF ReadType

LEMMA ServeOps == ASSUME NEW s \in PairType PROVE typeDeal(s) \in Seq(OpType)
<1>1. /\ Mark("served") \in OpType /\ Write("pub") \in OpType /\ Read("hour") \in OpType /\ Read("key32") \in OpType
      /\ Write("addr") \in OpType /\ Close \in OpType /\ FlagLoop \in OpType
  BY OpsTyped, OthersTyped, Zenon DEF MsgKind
<1>2. /\ <<Close>> \in Seq(OpType) /\ <<Mark("served")>> \in Seq(OpType) /\ <<Write("pub"), FlagLoop>> \in Seq(OpType)
      /\ <<Read("hour"), Mark("served"), Close>> \in Seq(OpType) /\ <<Read("key32"), Mark("served")>> \in Seq(OpType)
      /\ <<Read("key32")>> \in Seq(OpType) /\ <<Write("addr"), Mark("served"), Close>> \in Seq(OpType)
  BY <1>1, SeqOf1, SeqOf2, SeqOf3, Zenon
<1>3. ServeP2P(s) \in Seq(OpType)
  BY <1>2, IfOps, SeqOfMore, Zenon DEF ServeP2P, Need
<1>4. \A b \in {~s.pub, s.pub \/ s.allow} : Need(b, <<Close>>) \in Seq(OpType)
  BY <1>2, IfOps, Zenon DEF Need
<1>5. /\ Need(~s.pub, <<Close>>) \o <<Mark("served")>> \in Seq(OpType)
      /\ Need(s.pub \/ s.allow, <<Close>>) \o <<Write("pub"), FlagLoop>> \in Seq(OpType)
  BY <1>2, <1>4, SeqOfMore, Zenon
<1>6. s.want \in Wants
  BY Zenon DEF PairType
<1> QED
  BY <1>2, <1>3, <1>5, <1>6, Zenon DEF typeDeal, Wants

LEMMA ServerOps ==
    ASSUME NEW s \in Pairs
    PROVE  /\ CliProcess(s) \in Seq(OpType) /\ MarkFirst(CliProcess(s))
           /\ ~Known(s) => NoMark(CliProcess(s))
<1> DEFINE V == ReadVersion(s) \o VerifyClient(s)
<1>1. s \in PairType
  BY PairAssumption, Zenon
<1>2. ~Known(s) => ClosesFirst(ReadVersion(s)) \/ ClosesFirst(VerifyClient(s))
  <2>1. s.ver \in Nat /\ MinVer \in Nat \ {0} /\ Latest \in Nat
    BY <1>1, PairAssumption, Zenon DEF PairType
  <2>2. GetIndex(s.ver) # -1 => s.ver \in 0 .. Latest /\ GetIndex(s.ver) = s.ver
    BY <2>1, Zenon DEF GetIndex
  <2>3. s.ver = 0 => ~(s.ver >= MinVer)
    BY <2>1
  <2> QED
    BY <2>2, <2>3, ReadVersionOps, VerifyOps, Zenon DEF Known
<1>3. /\ V \in Seq(OpType) /\ MarkFirst(V) /\ HasMark(V)
      /\ ~Known(s) => ClosesFirst(V)
  BY <1>2, ReadVersionOps, VerifyOps, PlainOps, SeqOfMore, ConcatMarkFirst, ConcatHasMark,
     ConcatClosesLeft, ConcatClosesRight, Zenon
<1>4. ReadType(s) \in Seq(OpType) /\ typeDeal(s) \in Seq(OpType)
  BY <1>1, ReadTypeOps, ServeOps, Zenon
<1>5. CliProcess(s) = UpTo(V \o ReadType(s) \o typeDeal(s))
  BY Zenon DEF CliProcess
<1> HIDE DEF V
<1>6. /\ V \o ReadType(s) \in Seq(OpType) /\ MarkFirst(V \o ReadType(s)) /\ HasMark(V \o ReadType(s))
      /\ ~Known(s) => ClosesFirst(V \o ReadType(s))
  BY <1>3, <1>4, SeqOfMore, ConcatMarkFirst, ConcatHasMark, ConcatClosesLeft, Zenon
<1>7. /\ V \o ReadType(s) \o typeDeal(s) \in Seq(OpType) /\ MarkFirst(V \o ReadType(s) \o typeDeal(s))
      /\ ~Known(s) => ClosesFirst(V \o ReadType(s) \o typeDeal(s))
  BY <1>4, <1>6, SeqOfMore, ConcatMarkFirst, ConcatClosesLeft, Zenon
<1> QED
  BY <1>5, <1>7, UpToIsPrefix, UpToMarkFirst, Zenon

-----------------------------------------------------------------------------
(* Steps *)

\* Streams of messages: what is sent, and what is left of them.
LEMMA NoVouchSent ==
    ASSUME NEW a \in Seq(MsgType), NEW b \in Seq(MsgType), NoVouch(a), NoVouch(b)
    PROVE  NoVouch(a \o b)
  BY DEF NoVouch

LEMMA NoVouchTail ==
    ASSUME NEW a \in Seq(MsgType), a # <<>>
    PROVE  Tail(a) \in Seq(MsgType) /\ (NoVouch(a) => NoVouch(Tail(a)) /\ Head(a).k \notin Vouch)
<1>1. /\ Head(a) = a[1] /\ 1 \in 1 .. Len(a) /\ Tail(a) \in Seq(MsgType)
      /\ Len(Tail(a)) = Len(a) - 1 /\ \A i \in 1 .. Len(a) - 1 : Tail(a)[i] = a[i + 1] /\ i + 1 \in 1 .. Len(a)
  OBVIOUS
<1> QED
  BY <1>1, Zenon DEF NoVouch

LEMMA NoVouchCut ==
    ASSUME NEW a \in Seq(MsgType), NEW n \in 0 .. Len(a)
    PROVE  SubSeq(a, 1, n) \in Seq(MsgType) /\ (NoVouch(a) => NoVouch(SubSeq(a, 1, n)))
<1>1. /\ SubSeq(a, 1, n) \in Seq(MsgType) /\ Len(SubSeq(a, 1, n)) = n
      /\ \A i \in 1 .. n : SubSeq(a, 1, n)[i] = a[i] /\ i \in 1 .. Len(a)
  OBVIOUS
<1> QED
  BY <1>1, Zenon DEF NoVouch

LEMMA NoVouchOne == ASSUME NEW m \in MsgType PROVE <<m>> \in Seq(MsgType) /\ (m.k \notin Vouch => NoVouch(<<m>>))
<1>1. <<m>> \in Seq(MsgType) /\ Len(<<m>>) = 1 /\ <<m>>[1] = m
  OBVIOUS
<1> QED
  BY <1>1 DEF NoVouch

LEMMA NoVouchNone == <<>> \in Seq(MsgType) /\ NoVouch(<<>>)
  BY DEF NoVouch

LEMMA AppendIsConcat ==
    ASSUME NEW a \in Seq(MsgType), NEW m \in MsgType
    PROVE  Append(a, m) \in Seq(MsgType) /\ Append(a, m) = a \o <<m>>
  OBVIOUS

LEMMA SentTyped == ASSUME NEW a \in Seq(MsgType), NEW b \in Seq(MsgType) PROVE a \o b \in Seq(MsgType)
  OBVIOUS

\* A side that goes on or ends keeps its fields.
LEMMA SideFields ==
    ASSUME NEW me \in SideType
    PROVE  /\ me.ops \in Seq(OpType) /\ me.buf \in Seq(MsgType)
           /\ Ended(me) \in SideType /\ Ended(me).ops = <<>> /\ Ended(me).buf = <<>> /\ Ended(me).at = me.at
           /\ me.ops # <<>> => /\ Next1(me) \in SideType /\ Next1(me).ops = Tail(me.ops)
                               /\ Next1(me).buf = me.buf /\ Next1(me).at = me.at
<1>1. me.ops \in Seq(OpType) /\ me.buf \in Seq(MsgType)
  BY Zenon DEF SideType
<1>2. Ended(me) \in SideType /\ Ended(me).ops = <<>> /\ Ended(me).buf = <<>> /\ Ended(me).at = me.at
  <2>1. <<>> \in Seq(OpType)
    OBVIOUS
  <2> QED
    BY <2>1, NoVouchNone, Zenon DEF SideType, Ended
<1>3. ASSUME me.ops # <<>>
      PROVE  /\ Next1(me) \in SideType /\ Next1(me).ops = Tail(me.ops)
             /\ Next1(me).buf = me.buf /\ Next1(me).at = me.at
  <2>1. Tail(me.ops) \in Seq(OpType)
    BY <1>1, <1>3
  <2> QED
    BY <2>1, Zenon DEF SideType, Next1
<1> QED
  BY <1>1, <1>2, <1>3, Zenon

\* One operation of a side: what it leaves, and that it sends nothing that vouches
\* unless the operation does.
LEMMA DoOne ==
    ASSUME NEW me \in SideType, NEW meN, NEW in \in Seq(MsgType), NEW inN,
           NEW out \in Seq(MsgType), NEW outN, Do(me, meN, in, inN, out, outN)
    PROVE  /\ me.ops # <<>> /\ meN \in SideType /\ meN.ops = Tail(me.ops)
           /\ inN \in Seq(MsgType) /\ outN \in Seq(MsgType)
           /\ Head(me.ops).do # "mark" => meN.at = me.at
           /\ Head(me.ops).do = "mark" => meN.at # "start"
           /\ NoVouch(in) => NoVouch(inN) /\ ~IsAnswerRead(Head(me.ops))
           /\ ~IsVouching(Head(me.ops)) /\ NoVouch(me.buf) /\ NoVouch(out)
                => NoVouch(meN.buf) /\ NoVouch(outN)
<1> DEFINE o == Head(me.ops)
           N == Next1(me)
<1>1. me.ops # <<>> /\ me.ops \in Seq(OpType) /\ me.buf \in Seq(MsgType)
  BY SideFields, Zenon DEF Do, NextIs
<1>2. o \in OpType /\ o.m \in MsgType
  <2>1. o \in OpType
    BY <1>1, TailOps, Zenon
  <2> QED
    BY <2>1, Zenon DEF OpType
<1>3. N \in SideType /\ N.ops = Tail(me.ops) /\ N.buf = me.buf /\ N.at = me.at
  BY <1>1, SideFields, Zenon
<1>4. CASE NextIs(me, "buf") /\ meN = [N EXCEPT !.buf = Append(@, o.m)] /\ inN = in /\ outN = out
  <2>1. Append(me.buf, o.m) \in Seq(MsgType) /\ Append(me.buf, o.m) = me.buf \o <<o.m>>
    BY <1>1, <1>2, AppendIsConcat, Zenon
  <2>2. /\ meN \in SideType /\ meN.ops = Tail(me.ops) /\ meN.at = me.at /\ meN.buf = me.buf \o <<o.m>>
    BY <1>3, <1>4, <2>1, Zenon DEF SideType
  <2>3. o.do = "buf"
    BY <1>4, Zenon DEF NextIs
  <2>4. ~IsVouching(o) => o.m.k \notin Vouch
    BY <2>3, Zenon DEF IsVouching
  <2>5. ~IsVouching(o) /\ NoVouch(me.buf) => NoVouch(meN.buf)
    BY <1>1, <1>2, <2>2, <2>4, NoVouchOne, NoVouchSent, Zenon
  <2>6. o.do # "mark" /\ ~IsAnswerRead(o)
    BY <2>3, Zenon DEF IsAnswerRead
  <2> QED
    BY <1>1, <1>4, <2>2, <2>5, <2>6, Zenon
<1>5. CASE /\ (NextIs(me, "write") \/ NextIs(me, "flush")) /\ meN = [N EXCEPT !.buf = <<>>] /\ inN = in
           /\ outN = out \o me.buf \o If(NextIs(me, "write"), <<o.m>>)
  <2> DEFINE W == If(NextIs(me, "write"), <<o.m>>)
  <2>1. meN \in SideType /\ meN.ops = Tail(me.ops) /\ meN.at = me.at /\ meN.buf = <<>>
    BY <1>3, <1>5, NoVouchNone, Zenon DEF SideType
  <2>2. W \in Seq(MsgType) /\ (~IsVouching(o) => NoVouch(W))
    <3>1. CASE NextIs(me, "write")
      <4>1. W = <<o.m>>
        BY <3>1, Zenon DEF If
      <4>2. ~IsVouching(o) => o.m.k \notin Vouch
        BY <3>1, Zenon DEF IsVouching, NextIs
      <4> QED
        BY <1>2, <4>1, <4>2, NoVouchOne, Zenon
    <3>2. CASE ~NextIs(me, "write")
      BY <3>2, NoVouchNone, Zenon DEF If
    <3> QED
      BY <3>1, <3>2, Zenon
  <2>3. outN = out \o me.buf \o W
    BY <1>5, Zenon
  <2> HIDE DEF W
  <2>4. outN \in Seq(MsgType)
    BY <1>1, <2>2, <2>3
  <2>5. ~IsVouching(o) /\ NoVouch(me.buf) /\ NoVouch(out) => NoVouch(outN)
    <3>1. out \o me.buf \in Seq(MsgType)
      BY <1>1
    <3> QED
      BY <1>1, <2>2, <2>3, <3>1, NoVouchSent, Zenon
  <2>6. o.do \in {"write", "flush"}
    BY <1>5, Zenon DEF NextIs
  <2>7. o.do # "mark" /\ ~IsAnswerRead(o)
    BY <2>6, Zenon DEF IsAnswerRead
  <2> QED
    BY <1>1, <1>5, <2>1, <2>4, <2>5, <2>7, NoVouchNone, Zenon
<1>6. CASE /\ NextIs(me, "read") /\ me.buf = <<>> /\ in # <<>> /\ Head(in).k = o.m.k
           /\ meN = N /\ inN = Tail(in) /\ outN = out
  <2>1. Tail(in) \in Seq(MsgType) /\ (NoVouch(in) => NoVouch(Tail(in)) /\ Head(in).k \notin Vouch)
    BY <1>6, NoVouchTail, Zenon
  <2>2. o.do = "read"
    BY <1>6, Zenon DEF NextIs
  <2>3. o.do # "mark"
    BY <2>2, Zenon
  <2>4. NoVouch(in) => ~IsAnswerRead(o)
    BY <1>6, <2>1, Zenon DEF IsAnswerRead
  <2> QED
    BY <1>1, <1>3, <1>6, <2>1, <2>3, <2>4, Zenon
<1>7. CASE NextIs(me, "alive") /\ meN = [N EXCEPT !.dl = FALSE] /\ inN = in /\ outN = out
  <2>1. meN \in SideType /\ meN.ops = Tail(me.ops) /\ meN.at = me.at /\ meN.buf = me.buf
    BY <1>3, <1>7, Zenon DEF SideType
  <2>2. o.do = "alive"
    BY <1>7, Zenon DEF NextIs
  <2>3. o.do # "mark" /\ ~IsAnswerRead(o)
    BY <2>2, Zenon DEF IsAnswerRead
  <2> QED
    BY <1>1, <1>7, <2>1, <2>3, Zenon
<1>8. CASE NextIs(me, "mark") /\ meN = [N EXCEPT !.at = o.m.k] /\ inN = in /\ outN = out
  <2>1. o.m.k \in MsgKind
    BY <1>2, Zenon DEF MsgType
  <2>2. meN \in SideType /\ meN.ops = Tail(me.ops) /\ meN.at = o.m.k /\ meN.buf = me.buf
    BY <1>3, <1>8, <2>1, Zenon DEF SideType
  <2>3. o.m.k # "start"
    BY <2>1, ZenonT(30) DEF MsgKind
  <2>4. o.do = "mark"
    BY <1>8, Zenon DEF NextIs
  <2>5. ~IsAnswerRead(o)
    BY <2>4, Zenon DEF IsAnswerRead
  <2> QED
    BY <1>1, <1>8, <2>2, <2>3, <2>4, <2>5, Zenon
<1> QED
  BY <1>4, <1>5, <1>6, <1>7, <1>8, Zenon DEF Do

\* A step of the client, which goes on or is at its end.
LEMMA ClientGoes ==
    ASSUME HandshakeInv, pair' = pair, srv' = srv, cli' \in SideType,
           toS' \in Seq(MsgType), toC' \in Seq(MsgType), NoVouch(toC) => NoVouch(toC'),
           \/ /\ cli.ops # <<>> /\ cli'.ops = Tail(cli.ops)
              /\ Head(cli.ops).do # "mark" => cli'.at = cli.at
              /\ NoVouch(toC) => ~IsAnswerRead(Head(cli.ops))
           \/ cli'.at = cli.at /\ cli'.ops \in {cli.ops, <<>>}
    PROVE  HandshakeInv'
<1>1. cli.ops \in Seq(OpType)
  BY SideFields, Zenon DEF HandshakeInv
<1>2. srv.at = "start" => cli'.at = "start" /\ AnswerFirst(cli'.ops)
  <2>1. AnswerFirst(<<>>)
    BY DEF AnswerFirst
  <2>2. ASSUME srv.at = "start", cli.ops # <<>> PROVE Head(cli.ops).do # "mark" /\ (~IsAnswerRead(Head(cli.ops)) => AnswerFirst(Tail(cli.ops)))
    <3>1. AnswerFirst(cli.ops)
      BY <2>2, Zenon DEF HandshakeInv
    <3>2. ~IsAccepted(Head(cli.ops))
      BY <1>1, <2>2, <3>1, TailAnswerFirst, Zenon
    <3>3. Head(cli.ops).do # "mark"
      BY <3>2, Zenon DEF IsAccepted
    <3> QED
      BY <1>1, <2>2, <3>1, <3>3, TailAnswerFirst, Zenon
  <2> QED
    BY <2>1, <2>2, Zenon DEF HandshakeInv
<1>3. ~Trusted(pair) => cli'.at = "start" /\ NoMark(cli'.ops)
  <2>1. NoMark(<<>>)
    BY DEF NoMark
  <2>2. ~Trusted(pair) /\ cli.ops # <<>> => Head(cli.ops).do # "mark" /\ NoMark(Tail(cli.ops))
    BY <1>1, TailOps, Zenon DEF HandshakeInv
  <2> QED
    BY <2>1, <2>2, Zenon DEF HandshakeInv
<1>4. ~Trusted(pair') => cli'.at = "start" /\ NoMark(cli'.ops)
  BY <1>3, Zenon
<1> QED
  BY <1>2, <1>4, Zenon DEF HandshakeInv

\* A step of the server that leaves no message and takes no operation that vouches
\* before the mark.
LEMMA ServerGoes ==
    ASSUME HandshakeInv, pair' = pair, cli' = cli, srv' \in SideType,
           toS' \in Seq(MsgType), toC' \in Seq(MsgType),
           \/ /\ srv.ops # <<>> /\ srv'.ops = Tail(srv.ops)
              /\ Head(srv.ops).do # "mark" => srv'.at = srv.at
              /\ Head(srv.ops).do = "mark" => srv'.at # "start"
              /\ ~IsVouching(Head(srv.ops)) /\ NoVouch(srv.buf) /\ NoVouch(toC)
                   => NoVouch(srv'.buf) /\ NoVouch(toC')
           \/ /\ srv'.at = srv.at /\ srv'.ops \in {srv.ops, <<>>} /\ srv'.buf \in {srv.buf, <<>>}
              /\ NoVouch(toC) => NoVouch(toC')
    PROVE  HandshakeInv'
<1>1. srv.ops \in Seq(OpType)
  BY SideFields, Zenon DEF HandshakeInv
<1>2. ASSUME srv'.at = "start"
      PROVE  srv.at = "start" /\ MarkFirst(srv'.ops) /\ NoVouch(srv'.buf) /\ NoVouch(toC')
  <2>1. srv.at = "start"
    BY <1>2, Zenon
  <2>2. MarkFirst(srv.ops) /\ NoVouch(srv.buf) /\ NoVouch(toC)
    BY <2>1, Zenon DEF HandshakeInv
  <2>3. MarkFirst(<<>>)
    BY DEF MarkFirst
  <2>4. srv.ops # <<>> => ~IsVouching(Head(srv.ops)) /\ (Head(srv.ops).do # "mark" => MarkFirst(Tail(srv.ops)))
    BY <1>1, <2>2, TailMarkFirst, Zenon
  <2> QED
    BY <1>2, <2>1, <2>2, <2>3, <2>4, NoVouchNone, Zenon
<1>3. ~Known(pair) => srv'.at = "start" /\ NoMark(srv'.ops)
  <2>1. NoMark(<<>>)
    BY DEF NoMark
  <2>2. ~Known(pair) /\ srv.ops # <<>> => Head(srv.ops).do # "mark" /\ NoMark(Tail(srv.ops))
    BY <1>1, TailOps, Zenon DEF HandshakeInv
  <2> QED
    BY <2>1, <2>2, Zenon DEF HandshakeInv
<1> QED
  BY <1>2, <1>3, Zenon DEF HandshakeInv

\* A step of the server at an operation that it reaches only after its mark.
LEMMA VerifiedServerGoes ==
    ASSUME HandshakeInv, pair' = pair, cli' = cli, srv' \in SideType,
           toS' \in Seq(MsgType), toC' \in Seq(MsgType),
           srv.ops # <<>>, IsVouching(Head(srv.ops)), srv'.at = srv.at \/ srv'.at = "served"
    PROVE  HandshakeInv'
<1>1. srv.ops \in Seq(OpType)
  BY SideFields, Zenon DEF HandshakeInv
<1>2. srv.at # "start"
  BY <1>1, TailMarkFirst, Zenon DEF HandshakeInv
<1>3. srv'.at # "start"
  BY <1>2, Zenon
<1> QED
  BY <1>2, <1>3, Zenon DEF HandshakeInv

LEMMA HandshakeInitInv == HandshakeInit => HandshakeInv
<1> SUFFICES ASSUME HandshakeInit PROVE HandshakeInv
  BY Zenon
<1>1. /\ Client(pair) \in Seq(OpType) /\ AnswerFirst(Client(pair)) /\ (~Trusted(pair) => NoMark(Client(pair)))
      /\ CliProcess(pair) \in Seq(OpType) /\ MarkFirst(CliProcess(pair)) /\ (~Known(pair) => NoMark(CliProcess(pair)))
  BY ClientOps, ServerOps, Zenon DEF HandshakeInit
<1>2. /\ cli \in SideType /\ cli.ops = Client(pair) /\ cli.at = "start"
      /\ srv \in SideType /\ srv.ops = CliProcess(pair) /\ srv.at = "start" /\ srv.buf = <<>>
  BY <1>1, NoVouchNone, Zenon DEF HandshakeInit, SideType
<1> QED
  BY <1>1, <1>2, NoVouchNone, Zenon DEF HandshakeInit, HandshakeInv

\* What getConfig goes on with.
LEMMA GetConfigOps == ASSUME NEW m \in MsgType PROVE GetConfig(m) \in Seq(OpType)
<1>1. <<FlagLoop>> \in Seq(OpType)
  BY OthersTyped, SeqOf1, Zenon
<1>2. GetTask(m) \in Seq(OpType)
  <2>1. m.ports \in Nat /\ m.of \in Nat
    BY Zenon DEF MsgType
  <2>2. Op("add", Msg(""), m.of) \in OpType
    BY <2>1, ZenonT(30) DEF Op, Msg, OpType, MsgType, OpKind, MsgKind
  <2>3. [n \in 1 .. m.ports |-> Op("add", Msg(""), m.of)] \in Seq(OpType)
    BY <2>1, <2>2, FunctionIsSeq, Zenon
  <2> QED
    BY <1>1, <2>3, SeqOfMore, Zenon DEF GetTask
<1>3. <<Read("key64"), Write("len"), Write("list"), Mark("served"), Close>> \in Seq(OpType)
  <2>1. Read("key64") \in OpType /\ Write("len") \in OpType /\ Write("list") \in OpType /\ Mark("served") \in OpType /\ Close \in OpType
    BY OpsTyped, OthersTyped, Zenon DEF MsgKind
  <2> QED
    BY <2>1
<1>4. <<Op("add", Msg("key16"), 0), FlagLoop>> \in Seq(OpType)
  <2>1. "add" \in OpKind /\ "key16" \in MsgKind
    BY Zenon DEF OpKind, MsgKind
  <2>2. Op("add", Msg("key16"), 0) \in OpType
    BY <2>1, OpFields, Zenon
  <2> QED
    BY <2>2, OthersTyped, SeqOf2, Zenon
<1> QED
  BY <1>1, <1>2, <1>3, <1>4, Zenon DEF GetConfig

-----------------------------------------------------------------------------
(* The actions *)

LEMMA ClientStepInv == ASSUME HandshakeInv, ClientStep PROVE HandshakeInv'
<1>1. pair' = pair /\ srv' = srv
  BY Zenon DEF ClientStep
<1>2. cli \in SideType /\ toS \in Seq(MsgType) /\ toC \in Seq(MsgType)
  BY Zenon DEF HandshakeInv
<1>3. CASE Do(cli, cli', toC, toC', toS, toS')
  BY <1>1, <1>2, <1>3, DoOne, ClientGoes, ZenonT(30)
<1>4. CASE FlushesFirst(cli, cli', toS, toS') /\ UNCHANGED toC
  <2>1. cli' \in SideType /\ cli'.at = cli.at /\ cli'.ops = cli.ops
    BY <1>2, <1>4, NoVouchNone, Zenon DEF FlushesFirst, SideType
  <2>2. toS' \in Seq(MsgType)
    <3>1. cli.buf \in Seq(MsgType) /\ toS' = toS \o cli.buf
      BY <1>2, <1>4, SideFields, Zenon DEF FlushesFirst
    <3> QED
      BY <1>2, <3>1
  <2> QED
    BY <1>1, <1>2, <1>4, <2>1, <2>2, ClientGoes, Zenon
<1>5. CASE Closes(cli, cli', toS, toS', toC) /\ UNCHANGED toC
  <2>1. cli' \in SideType /\ cli'.at = cli.at /\ cli'.ops = <<>>
    BY <1>2, <1>5, SideFields, Zenon DEF Closes
  <2>2. toS' \in Seq(MsgType)
    BY <1>2, <1>5, NoVouchCut, Zenon DEF Closes
  <2> QED
    BY <1>1, <1>2, <1>5, <2>1, <2>2, ClientGoes, Zenon
<1> QED
  BY <1>3, <1>4, <1>5, Zenon DEF ClientStep

LEMMA ClientFailsInv == ASSUME HandshakeInv, ClientFails PROVE HandshakeInv'
<1>1. /\ pair' = pair /\ srv' = srv /\ toS' = toS /\ toC' = toC /\ cli' = Ended(cli)
      /\ cli \in SideType /\ toS \in Seq(MsgType) /\ toC \in Seq(MsgType)
  BY Zenon DEF ClientFails, HandshakeInv
<1> QED
  BY <1>1, SideFields, ClientGoes, Zenon

LEMMA DialInv == ASSUME HandshakeInv, Dial PROVE HandshakeInv'
<1>1. /\ pair' = pair /\ toS' = toS /\ toC' = toC /\ cli \in SideType /\ srv \in SideType
  BY Zenon DEF Dial, HandshakeInv
<1>2. /\ cli' \in SideType /\ cli'.at = cli.at /\ cli'.ops \in {cli.ops, <<>>}
      /\ srv' \in SideType /\ srv'.at = srv.at /\ srv'.ops \in {srv.ops, <<>>} /\ srv'.buf \in {srv.buf, <<>>}
  <2>1. CASE cli' = [cli EXCEPT !.st = "run"] /\ srv' = [srv EXCEPT !.st = "run"]
    BY <1>1, <2>1, Zenon DEF SideType
  <2>2. CASE cli' = Ended(cli) /\ srv' = Ended(srv)
    BY <1>1, <2>2, SideFields, Zenon
  <2> QED
    BY <2>1, <2>2, Zenon DEF Dial
<1>3. MarkFirst(<<>>) /\ AnswerFirst(<<>>) /\ NoMark(<<>>)
  BY DEF MarkFirst, AnswerFirst, NoMark
<1> QED
  BY <1>1, <1>2, <1>3, NoVouchNone, Zenon DEF HandshakeInv

\* The items come after the answer, so their failures concern a verified client.
LEMMA SendItemInv == ASSUME HandshakeInv, SendItem PROVE HandshakeInv'
<1>1. /\ pair' = pair /\ srv' = srv /\ toC' = toC
      /\ cli \in SideType /\ toS \in Seq(MsgType) /\ toC \in Seq(MsgType)
  BY Zenon DEF SendItem, HandshakeInv
<1>2. cli.ops # <<>> /\ cli.ops \in Seq(OpType) /\ Head(cli.ops).do = "item"
  BY <1>1, SideFields, Zenon DEF SendItem, NextIs
<1>3. Head(cli.ops).m \in MsgType /\ Head(cli.ops).do # "mark" /\ ~IsAnswerRead(Head(cli.ops))
  <2>1. Head(cli.ops) \in OpType
    BY <1>2, TailOps, Zenon
  <2>2. Head(cli.ops).do # "mark" /\ ~IsAnswerRead(Head(cli.ops))
    BY <1>2, Zenon DEF IsAnswerRead
  <2> QED
    BY <2>1, <2>2, Zenon DEF OpType
<1>4. CASE cli' = Next1(cli) /\ toS' = Append(toS, Head(cli.ops).m)
  <2>1. toS' \in Seq(MsgType)
    BY <1>1, <1>3, <1>4
  <2> QED
    BY <1>1, <1>2, <1>3, <1>4, <2>1, SideFields, ClientGoes, Zenon
<1>5. CASE cli' = [cli EXCEPT !.ops = SubSeq(@, 3, Len(@))] /\ toS' = toS
  <2> DEFINE rest == SubSeq(cli.ops, 3, Len(cli.ops))
  <2>1. rest \in Seq(OpType)
    BY <1>2
  <2>2. NoMark(cli.ops) => NoMark(rest)
    BY <1>2 DEF NoMark
  <2>3. cli' \in SideType /\ cli'.ops = rest /\ cli'.at = cli.at
    BY <1>1, <1>5, <2>1, Zenon DEF SideType
  <2>4. IsAccepted(Head(cli.ops))
    BY <1>2, Zenon DEF IsAccepted
  <2>5. srv.at # "start"
    BY <1>2, <2>4, TailAnswerFirst, Zenon DEF HandshakeInv
  <2> HIDE DEF rest
  <2> QED
    BY <1>1, <1>5, <2>2, <2>3, <2>5, Zenon DEF HandshakeInv
<1> QED
  BY <1>4, <1>5, Zenon DEF SendItem

LEMMA GetAddStatusInv == ASSUME HandshakeInv, GetAddStatus PROVE HandshakeInv'
<1>1. /\ pair' = pair /\ srv' = srv /\ toS' = toS
      /\ cli \in SideType /\ toS \in Seq(MsgType) /\ toC \in Seq(MsgType)
  BY Zenon DEF GetAddStatus, HandshakeInv
<1>2. cli.ops # <<>> /\ Head(cli.ops).do = "status"
  BY Zenon DEF GetAddStatus, NextIs
<1>3. Head(cli.ops).do # "mark" /\ ~IsAnswerRead(Head(cli.ops))
  BY <1>2, Zenon DEF IsAnswerRead
<1>4. cli' = Next1(cli) \/ cli' = Ended(cli)
  BY Zenon DEF GetAddStatus
<1>5. toC' = toC \/ (toC # <<>> /\ toC' = Tail(toC))
  BY Zenon DEF GetAddStatus
<1>6. toC' \in Seq(MsgType) /\ (NoVouch(toC) => NoVouch(toC'))
  BY <1>1, <1>5, NoVouchTail, Zenon
<1> QED
  BY <1>1, <1>2, <1>3, <1>4, <1>6, SideFields, ClientGoes, Zenon

LEMMA ServerStepInv == ASSUME HandshakeInv, ServerStep PROVE HandshakeInv'
<1>1. /\ pair' = pair /\ cli' = cli
      /\ srv \in SideType /\ toS \in Seq(MsgType) /\ toC \in Seq(MsgType)
  BY Zenon DEF ServerStep, HandshakeInv
<1>2. CASE Do(srv, srv', toS, toS', toC, toC')
  BY <1>1, <1>2, DoOne, ServerGoes, ZenonT(30)
<1>3. CASE Closes(srv, srv', toC, toC', toS) /\ UNCHANGED toS
  <2>1. srv' \in SideType /\ srv'.at = srv.at /\ srv'.ops = <<>> /\ srv'.buf = <<>>
    BY <1>1, <1>3, SideFields, Zenon DEF Closes
  <2>2. toC' \in Seq(MsgType) /\ (NoVouch(toC) => NoVouch(toC'))
    BY <1>1, <1>3, NoVouchCut, Zenon DEF Closes
  <2> QED
    BY <1>1, <1>3, <2>1, <2>2, ServerGoes, Zenon
<1> QED
  BY <1>2, <1>3, Zenon DEF ServerStep

LEMMA ServerFailsInv == ASSUME HandshakeInv, ServerFails PROVE HandshakeInv'
<1>1. /\ pair' = pair /\ cli' = cli /\ toS' = toS /\ toC' = toC /\ srv' = Ended(srv)
      /\ srv \in SideType /\ toS \in Seq(MsgType) /\ toC \in Seq(MsgType)
  BY Zenon DEF ServerFails, HandshakeInv
<1> QED
  BY <1>1, SideFields, ServerGoes, Zenon

LEMMA ReadFlagInv == ASSUME HandshakeInv, ReadFlag PROVE HandshakeInv'
<1>1. /\ pair' = pair /\ cli' = cli /\ toC' = toC
      /\ srv \in SideType /\ toS \in Seq(MsgType) /\ toC \in Seq(MsgType)
  BY Zenon DEF ReadFlag, HandshakeInv
<1>2. srv.ops # <<>> /\ IsVouching(Head(srv.ops))
  BY Zenon DEF ReadFlag, NextIs, IsVouching
<1>3. CASE toS # <<>> /\ srv' = [srv EXCEPT !.ops = GetConfig(Head(toS))] /\ toS' = Tail(toS)
  <2>1. Head(toS) \in MsgType /\ Tail(toS) \in Seq(MsgType)
    BY <1>1, <1>3
  <2>2. GetConfig(Head(toS)) \in Seq(OpType)
    BY <2>1, GetConfigOps, Zenon
  <2>3. srv' \in SideType /\ srv'.at = srv.at
    BY <1>1, <1>3, <2>2, Zenon DEF SideType
  <2> QED
    BY <1>1, <1>2, <1>3, <2>1, <2>3, VerifiedServerGoes, Zenon
<1>4. CASE srv' = [Ended(srv) EXCEPT !.at = "served"] /\ toS' = toS
  <2>1. "served" \in MsgKind
    BY Zenon DEF MsgKind
  <2>2. Ended(srv) \in SideType
    BY <1>1, SideFields, Zenon
  <2>3. srv' \in SideType /\ srv'.at = "served"
    BY <1>4, <2>1, <2>2, Zenon DEF SideType
  <2> QED
    BY <1>1, <1>2, <1>4, <2>3, VerifiedServerGoes, Zenon
<1> QED
  BY <1>3, <1>4, Zenon DEF ReadFlag

LEMMA BodyLostInv == ASSUME HandshakeInv, BodyLost PROVE HandshakeInv'
<1>1. /\ pair' = pair /\ cli' = cli /\ toC' = toC /\ toS' = toS
      /\ srv \in SideType /\ toS \in Seq(MsgType) /\ toC \in Seq(MsgType)
  BY Zenon DEF BodyLost, HandshakeInv
<1>2. srv.ops # <<>> /\ IsVouching(Head(srv.ops))
  BY Zenon DEF BodyLost, NextIs, IsVouching
<1>3. Ended(srv) \in SideType /\ Ended(srv).at = srv.at
  BY <1>1, SideFields, Zenon
<1>4. srv' \in SideType /\ srv'.at = srv.at
  BY <1>3, Zenon DEF BodyLost, SideType
<1> QED
  BY <1>1, <1>2, <1>4, VerifiedServerGoes, Zenon

LEMMA AddOneInv == ASSUME HandshakeInv, AddOne PROVE HandshakeInv'
<1>1. /\ pair' = pair /\ cli' = cli /\ toS' = toS
      /\ srv \in SideType /\ toS \in Seq(MsgType) /\ toC \in Seq(MsgType)
  BY Zenon DEF AddOne, HandshakeInv
<1>2. srv.ops # <<>> /\ IsVouching(Head(srv.ops)) /\ srv.ops \in Seq(OpType)
  BY <1>1, SideFields, Zenon DEF AddOne, NextIs, IsVouching
<1>3. srv' \in SideType /\ srv'.at = srv.at
  <2>1. srv' = Next1(srv) \/ srv' = Ended(srv)
    BY Zenon DEF AddOne
  <2> QED
    BY <1>1, <1>2, <2>1, SideFields, Zenon
<1>4. toC' \in Seq(MsgType)
  <2> DEFINE i == Head(srv.ops).i
  <2>1. Head(srv.ops) \in OpType
    BY <1>2, TailOps, Zenon
  <2>2. i \in Nat
    BY <2>1, Zenon DEF OpType
  <2>3. Result(i, TRUE) \in MsgType /\ Result(i, FALSE) \in MsgType
    BY <2>2, ZenonT(30) DEF Result, Msg, MsgType, MsgKind
  <2>4. Msg("key16") \in MsgType
    BY ZenonT(30) DEF Msg, MsgType, MsgKind
  <2>5. If(i = 0, <<Msg("key16")>>) \in Seq(MsgType)
    BY <2>4, NoVouchOne, NoVouchNone, Zenon DEF If
  <2>6. <<Result(i, TRUE)>> \in Seq(MsgType) /\ Append(toC, Result(i, FALSE)) \in Seq(MsgType)
    <3> HIDE DEF i
    <3>1. <<Result(i, TRUE)>> \in Seq(MsgType)
      BY <2>3, NoVouchOne, Zenon
    <3>2. Append(toC, Result(i, FALSE)) \in Seq(MsgType)
      <4>1. \A m \in MsgType : Append(toC, m) \in Seq(MsgType)
        BY <1>1, AppendIsConcat, Zenon
      <4> QED
        BY <2>3, <4>1, Zenon
    <3> QED
      BY <3>1, <3>2, Zenon
  <2>7. toC' = toC \o <<Result(i, TRUE)>> \o If(i = 0, <<Msg("key16")>>) \/ toC' = Append(toC, Result(i, FALSE))
    BY Zenon DEF AddOne
  <2>8. toC \o <<Result(i, TRUE)>> \in Seq(MsgType)
    BY <1>1, <2>6, SentTyped, Zenon
  <2> HIDE DEF i
  <2> QED
    BY <2>5, <2>6, <2>7, <2>8, SentTyped, Zenon
<1> QED
  BY <1>1, <1>2, <1>3, <1>4, VerifiedServerGoes, Zenon

\* Every step of HandshakeNext keeps the invariant.
LEMMA HandshakeStepInv == HandshakeInv /\ [HandshakeNext]_hVars => HandshakeInv'
<1> SUFFICES ASSUME HandshakeInv, [HandshakeNext]_hVars PROVE HandshakeInv'
  BY Zenon
<1>1. CASE ClientRuns
  BY <1>1, DialInv, ClientStepInv, ClientFailsInv, SendItemInv, GetAddStatusInv, Zenon DEF ClientRuns
<1>2. CASE ServerRuns
  BY <1>2, ServerStepInv, ServerFailsInv, ReadFlagInv, AddOneInv, Zenon DEF ServerRuns
<1>3. CASE BodyLost
  BY <1>3, BodyLostInv, Zenon
<1>4. CASE LinkCut
  BY <1>4, Zenon DEF LinkCut, HandshakeInv
<1>5. CASE UNCHANGED hVars
  BY <1>5, Zenon DEF hVars, HandshakeInv
<1> QED
  BY <1>1, <1>2, <1>3, <1>4, <1>5, Zenon DEF HandshakeNext

\* NewConn against CliProcess: npc takes a connection for established only after the
\* server has verified it, in every version, and whatever a refusal, a cut or a reset
\* leaves of the exchange.
THEOREM AcceptedMeansVerified == HandshakeSpec => []AcceptedIsVerified
<1>1. HandshakeInv => AcceptedIsVerified
  BY Zenon DEF HandshakeInv, AcceptedIsVerified, Allowed, Known, Trusted
<1> QED
  BY <1>1, HandshakeInitInv, HandshakeStepInv, PTL DEF HandshakeSpec

=============================================================================
