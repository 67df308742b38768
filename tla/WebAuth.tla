------------------------------ MODULE WebAuth ------------------------------
(***************************************************************************)
(* Authentication of the management API (web/api): one-time challenges,    *)
(* captchas, login throttling, the login and registration handlers, bearer *)
(* tokens and their signing key, which is generated at the first start and *)
(* appended to nps.conf, and the authorisation of the routes.  Handlers of *)
(* several requests interleave at every access to a shared store; the      *)
(* process may stop at any point, and what is not in a file is lost.       *)
(*                                                                         *)
(* Data.  A nonce and a captcha id are numbers in order of issue (the code *)
(* draws them at random and never repeats one).  A password is a pair: the *)
(* text and the one-time code at its end, "none" when there is none.  Time *)
(* is a small clock; every duration of the code is a constant in its unit. *)
(***************************************************************************)
EXTENDS Integers, FiniteSets, FiniteSetsExt, Functions

CONSTANTS
    Proc,          \* goroutines serving login and register requests
    Ip,            \* addresses; a throttled key is one, or a user name
    MaxId,         \* the largest client id
    Setups,        \* the configurations a run looks at, a tuple of records
    Attempts,      \* the login and register bodies, a tuple of records
    NonceTTL, MaxStore, SweepEvery,
    BanTime, IPBanTime, UserBanTime, MaxFail,
    TokenTTL, MaxSkew,
    MaxIssue, MaxLogin   \* bounds; a setup has its own on the rest

Id == 1 .. MaxId

\* A client of the database; life tells a new client from a deleted one with its id.
AccountFields == {"user", "pass", "vkey", "totp", "on", "life"}

Absent == 0      \* no line api_jwt_key
Blank == -1      \* the line "api_jwt_key="
Short == -2      \* a value of fewer than 16 characters

ASSUME WebAuthAssumption ==
    /\ MaxId \in Nat /\ TokenTTL \in Nat
    /\ \A i \in DOMAIN Setups :
          /\ Setups[i].conf \in Nat \cup {Blank, Short}
          /\ \A b \in Setups[i].bodies : Attempts[b].kind \in {"login", "register"}
    /\ \A i \in DOMAIN Setups :
          LET cs == Setups[i].clients IN
          /\ cs = [c \in DOMAIN cs |-> cs[c]] /\ DOMAIN cs \subseteq Id
          /\ \A c \in DOMAIN cs : cs[c] = [f \in AccountFields |-> cs[c][f]]

VARIABLES
    now,       \* the wall clock
    case,      \* which of Setups
    conf,      \* api_jwt_key in nps.conf: a key, or one of the values below
    boot,      \* how often the process was started
    proc,      \* "down", "write", "rename" or "up"
    key,       \* the signing key of this process
    nonces,    \* loginNonces
    captchas,  \* the captcha store
    bans,      \* loginRecords
    clients,   \* accounts of the database, on disk
    lastId,    \* the client id counter of this process
    reqs,      \* the request each goroutine is serving
    tokens,    \* every token handed out
    served,    \* the last request that passed the guards of its route
    logins,    \* how many requests were made
    spent,     \* nonce -> how often it let a request through to the password
    solved     \* captcha -> how often it was accepted

vars == <<now, case, conf, boot, proc, key, nonces, captchas, bans, clients,
          lastId, reqs, tokens, served, logins, spent, solved>>

Setup == Setups[case]
Admin == "admin"

(*********************** Challenge and captcha stores **********************)

EmptyStore == [items |-> << >>, sweep |-> 0, next |-> 1]

\* The store of a new process.
Emptied(s) == [EmptyStore EXCEPT !.next = s.next]

Live(s) == {n \in DOMAIN s.items : now < s.items[n]}

sweepLocked(s) ==
    IF Cardinality(DOMAIN s.items) < MaxStore /\ now - s.sweep < SweepEvery
    THEN s
    ELSE [s EXCEPT !.sweep = now, !.items = Restrict(@, Live(s))]

Full(s) == Cardinality(DOMAIN s.items) >= MaxStore

\* The store after Issue, and what Issue returned: 0 stands for "".
Issue(s) ==
    LET t == sweepLocked(s) IN
    IF Full(t) THEN [store |-> t, got |-> 0]
    ELSE [store |-> [t EXCEPT !.items = [n \in DOMAIN @ \cup {t.next} |->
                                 IF n = t.next THEN now + NonceTTL ELSE @[n]],
                              !.next = @ + 1],
          got |-> t.next]

\* Fault: a nonce is only looked up, and left to the sweep.
ConsumeKeeps(s, n) ==
    [store |-> s, ok |-> n \in Live(s)]

\* The entry goes whether or not it was still valid.
Consume(s, n) ==
    [store |-> [s EXCEPT !.items = Restrict(@, DOMAIN @ \ {n})],
     ok |-> n \in Live(s)]

\* captchaStore.issue: the same store, filled with the rendered codes.
NewCaptcha(s) == Issue(s)

\* A wrong guess uses the image up as well.  An empty id or code returns
\* before the store is touched.
VerifyCaptcha(s, n, guess) ==
    IF n = 0 \/ guess = "none" THEN [store |-> s, ok |-> FALSE]
    ELSE LET c == Consume(s, n)
         IN  [store |-> c.store, ok |-> c.ok /\ guess = "right"]

(***************************** Login throttling ****************************)

Window(k) == IF k \in Ip THEN IPBanTime ELSE UserBanTime

Elapsed(k) == now - bans[k].last

NoteLoginFailure(b, k) ==
    [j \in DOMAIN b \cup {k} |->
        IF j /= k THEN b[j]
        ELSE [fail |-> IF k \in DOMAIN b THEN b[k].fail + 1 ELSE 1, last |-> now]]

ClearLoginFailures(b, k) == Restrict(b, DOMAIN b \ {k})

\* What IsLoginBanned answers, and the counter it resets on the way.
IsLoginBanned(k) ==
    /\ k \in DOMAIN bans
    /\ \/ Elapsed(k) < BanTime
       \/ Elapsed(k) < Window(k) /\ bans[k].fail >= MaxFail
       \/ Elapsed(k) >= Window(k) /\ 0 >= MaxFail

AfterCheck(k) ==
    IF k \in DOMAIN bans /\ Elapsed(k) >= BanTime /\ Elapsed(k) >= Window(k)
    THEN [bans EXCEPT ![k].fail = 0] ELSE bans

CleanBanRecords(b) == Restrict(b, {k \in DOMAIN b : now - b[k].last < Window(k)})

(******************************* Credentials *******************************)

\* A code given with the captcha decides; otherwise the code is cut off the
\* end of the password.
adminAuth(a, totp) ==
    /\ a.user = Admin
    /\ \/ ~Setup.totp /\ a.pass = [text |-> "root", code |-> "none"]
       \/ Setup.totp /\ totp = "good" /\ a.pass = [text |-> "root", code |-> "none"]
       \/ Setup.totp /\ totp = "none" /\ a.pass = [text |-> "root", code |-> "good"]

\* The clients the given name and password open.  The first one the range
\* over the map meets is taken.
clientAuth(a, totp) ==
    {c \in DOMAIN clients :
        /\ Setup.users
        /\ clients[c].on
        /\ a.user /= "" /\ a.pass.text /= ""
        /\ \/ /\ clients[c].user = "" /\ clients[c].pass = ""
              /\ a.user = "user" /\ Setup.vkey
              /\ a.pass = [text |-> clients[c].vkey, code |-> "none"]
           \/ /\ clients[c].user = a.user /\ ~clients[c].totp
              /\ \/ clients[c].pass = "" /\ a.pass.text = clients[c].vkey
                 \/ clients[c].pass = a.pass.text
              /\ a.pass.code = "none"
           \/ /\ clients[c].user = a.user /\ clients[c].totp
              /\ clients[c].pass = a.pass.text
              /\ \/ totp = "good" /\ a.pass.code = "none"
                 \/ totp = "none" /\ a.pass.code = "good"}

(********************************* Tokens **********************************)

Principal(admin, c) == [admin |-> admin, client |-> c]

\* boot and life are for the properties: the process that signed, and which
\* account the password was checked against.
IssueToken(p, life) ==
    [admin |-> p.admin, client |-> p.client, iat |-> now, exp |-> now + TokenTTL,
     key |-> key, boot |-> boot, life |-> life]

\* jwt.Verify: the signature first, then the validity window.
Verify(t) ==
    IF t.key /= key THEN "signature"
    ELSE IF now > t.exp THEN "expired" ELSE IF t.iat > now THEN "early"
    ELSE "ok"

\* An admin token carries no client, a user token carries one.
ParseToken(t) ==
    IF Verify(t) /= "ok" THEN Verify(t)
    ELSE IF t.admin = (t.client = 0) THEN "ok" ELSE "malformed"

\* auth_key with a time stamp in the query: always an administrator.
legacyAuthKeyPrincipal(stamp) ==
    Setup.authKey /\ (now - stamp) \in -MaxSkew..MaxSkew

OwnsClient(p, c) == p.admin \/ (c /= 0 /\ c = p.client)

(************************* Start-up of the process *************************)

Idle == [pc |-> "idle"]

\* A new process: the stores are empty, the database is loaded.
Memory ==
    /\ nonces' = Emptied(nonces) /\ captchas' = Emptied(captchas) /\ bans' = << >>
    /\ lastId' = Max(DOMAIN clients \cup {0})
    /\ reqs' = [p \in Proc |-> Idle]

\* resolveJWTKey.  A configured key is used; otherwise one is made up, and
\* stays in memory when there is no file to put it into.
resolveJWTKey ==
    \/ /\ conf > 0
       /\ key' = conf /\ proc' = "up"
    \/ /\ conf = Short
       /\ proc' = "stuck" /\ key' = 0
    \/ /\ conf \in {Absent, Blank}
       /\ key' = boot + 1
       /\ proc' = IF Setup.dir = "none" THEN "up" ELSE "append"

InitTokenKey ==
    /\ proc = "down" /\ boot < Setup.boots
    /\ boot' = boot + 1
    /\ resolveJWTKey
    /\ Memory
    /\ UNCHANGED <<now, case, conf, clients, tokens, served, logins, spent, solved>>

\* Fault: the key is written to the file only when the process stops.
AppendsNothing ==
    /\ proc = "append"
    /\ proc' = "up"
    /\ UNCHANGED <<now, case, conf, boot, key, nonces, captchas, bans, clients,
                   lastId, reqs, tokens, served, logins, spent, solved>>

\* AppendKeys: a key whose name is in the file already is left alone, an
\* unwritable directory leaves the key in memory, and otherwise a temporary
\* file with the line added is prepared.
AppendKeys ==
    /\ proc = "append"
    /\ proc' = IF conf = Blank \/ Setup.dir = "readonly" THEN "up" ELSE "rename"
    /\ UNCHANGED <<now, case, conf, boot, key, nonces, captchas, bans, clients,
                   lastId, reqs, tokens, served, logins, spent, solved>>

\* The rename of writeFileAtomic replaces the file in one step.
writeFileAtomic ==
    /\ proc = "rename"
    /\ conf' = key /\ proc' = "up"
    /\ UNCHANGED <<now, case, boot, key, nonces, captchas, bans, clients,
                   lastId, reqs, tokens, served, logins, spent, solved>>

\* The process is killed or stops: nothing but the files is left.
Stop ==
    /\ proc /= "down"
    /\ proc' = "down" /\ key' = 0
    /\ nonces' = Emptied(nonces) /\ captchas' = Emptied(captchas) /\ bans' = << >>
    /\ reqs' = [p \in Proc |-> Idle]
    /\ UNCHANGED <<now, case, conf, boot, clients, lastId, tokens, served,
                   logins, spent, solved>>

Tick ==
    /\ now < Setup.until
    /\ now' = now + 1
    /\ UNCHANGED <<case, conf, boot, proc, key, nonces, captchas, bans, clients,
                   lastId, reqs, tokens, served, logins, spent, solved>>

(************************** Login and registration *************************)

\* What the handlers leave alone: the process, the clock and the files.
Fixed == UNCHANGED <<now, case, conf, boot, proc, key>>

Body(p) == Attempts[reqs[p].body]

\* GET /auth/challenge: a nonce, and a captcha when they are on.  A full
\* nonce store ends the request before a captcha is drawn.
handleChallenge ==
    LET n == Issue(nonces)
        c == NewCaptcha(captchas) IN
    /\ proc = "up" /\ nonces.next <= MaxIssue
    /\ nonces' = n.store
    /\ captchas' = IF Setup.captcha /\ n.got /= 0 THEN c.store ELSE captchas
    /\ UNCHANGED <<bans, clients, lastId, reqs, tokens, served, logins, spent, solved>>
    /\ Fixed

\* GET /auth/captcha.
handleCaptcha ==
    /\ proc = "up" /\ Setup.captcha /\ captchas.next <= MaxIssue
    /\ captchas' = NewCaptcha(captchas).store
    /\ UNCHANGED <<nonces, bans, clients, lastId, reqs, tokens, served, logins,
                   spent, solved>>
    /\ Fixed

\* A request arrives with a nonce and a captcha handed out before, to
\* whomever.  Both handlers refuse large and malformed bodies before any
\* access to the stores; registration also when it is off, and for the name
\* of the administrator.
Arrive(p, b, ip, n, c) ==
    LET a == Attempts[b]
        reserved == a.kind = "register" /\ a.user = Admin IN
    /\ proc = "up" /\ reqs[p] = Idle /\ logins < Setup.logins
    /\ a.kind = "register" => Setup.register
    /\ (~Setup.captcha) => c = 0
    /\ logins' = logins + 1
    /\ reqs' = [reqs EXCEPT ![p] =
           [body |-> b, ip |-> ip, nonce |-> n, captcha |-> c, stamp |-> now - a.late,
            ipBanned |-> FALSE, userBanned |-> FALSE, totp |-> "none", passed |-> TRUE,
            notes |-> {}, who |-> Principal(FALSE, 0), life |-> 0,
            pc |-> IF a.kind = "login" THEN "banned"
                   ELSE IF reserved THEN "reject" ELSE "captcha"]]
    /\ UNCHANGED <<nonces, captchas, bans, clients, lastId, tokens, served, spent, solved>>
    /\ Fixed

At(p, pc) == proc = "up" /\ reqs[p].pc = pc

Goto(p, r) == reqs' = [reqs EXCEPT ![p] = r]

\* Where a refused login goes: the failures in notes are recorded, then the
\* answer is sent.
Refuse(r, notes) == [r EXCEPT !.notes = notes, !.pc = "note"]

\* The address, and the user name too when only a one-time code stood in
\* for the captcha.
Blamed(p) ==
    {reqs[p].ip} \cup (IF reqs[p].passed THEN {} ELSE {Body(p).user})

\* Registration answers a refusal without counting it.
Refused(p) ==
    IF Body(p).kind = "login" THEN Refuse(reqs[p], Blamed(p))
    ELSE [reqs[p] EXCEPT !.pc = "reject"]

checkBans(p) ==
    /\ At(p, "banned")
    /\ Goto(p, [reqs[p] EXCEPT !.ipBanned = IsLoginBanned(reqs[p].ip),
                              !.userBanned = IsLoginBanned(Body(p).user),
                              !.pc = "captcha"])
    /\ bans' = [k \in DOMAIN bans |->
                   IF k \in {reqs[p].ip, Body(p).user} THEN AfterCheck(k)[k] ELSE bans[k]]
    /\ UNCHANGED <<nonces, captchas, clients, lastId, tokens, served, logins,
                   spent, solved>>
    /\ Fixed

\* The captcha field may end in a one-time code, which only a login reads.
checkCaptcha(p) ==
    LET r == reqs[p]
        v == VerifyCaptcha(captchas, r.captcha, Body(p).guess)
        totp == IF Body(p).kind = "login" THEN Body(p).totp ELSE "none"
        after == [r EXCEPT !.totp = totp, !.passed = v.ok, !.pc = "pow"]
    IN
    /\ At(p, "captcha")
    /\ \/ /\ ~Setup.captcha
          /\ Goto(p, [r EXCEPT !.pc = "pow"])
          /\ UNCHANGED <<captchas, solved>>
       \/ /\ Setup.captcha
          /\ captchas' = v.store
          /\ solved' = IF v.ok THEN [solved EXCEPT ![r.captcha] = @ + 1] ELSE solved
          /\ Goto(p, IF Body(p).kind = "register"
                     THEN IF v.ok THEN after ELSE [after EXCEPT !.pc = "reject"]
                     ELSE IF r.ipBanned \/ (~v.ok /\ (totp = "none" \/ r.userBanned))
                          THEN Refuse(after, {r.ip})
                          ELSE after)
    /\ UNCHANGED <<nonces, bans, clients, lastId, tokens, served, logins, spent>>
    /\ Fixed

\* Proof of work where the login is suspicious, then the decryption.
checkPayload(p) ==
    LET r == reqs[p]
        needPoW == /\ Body(p).kind = "login"
                   /\ \/ Setup.pow \/ r.ipBanned
                      \/ r.userBanned /\ Setup.secure
                      \/ r.totp /= "none" /\ ~r.passed
    IN
    /\ At(p, "pow")
    /\ Goto(p, IF (needPoW => Body(p).pow) /\ Body(p).cipher
               THEN [r EXCEPT !.pc = "nonce"] ELSE Refused(p))
    /\ UNCHANGED <<nonces, captchas, bans, clients, lastId, tokens, served, logins,
                   spent, solved>>
    /\ Fixed

consumeNonce(p) ==
    LET c == Consume(nonces, reqs[p].nonce) IN
    /\ At(p, "nonce")
    /\ nonces' = c.store
    /\ spent' = IF c.ok THEN [spent EXCEPT ![reqs[p].nonce] = @ + 1] ELSE spent
    /\ Goto(p, IF c.ok THEN [reqs[p] EXCEPT !.pc = "time"] ELSE Refused(p))
    /\ UNCHANGED <<captchas, bans, clients, lastId, tokens, served, logins, solved>>
    /\ Fixed

checkTime(p) ==
    /\ At(p, "time")
    /\ Goto(p, IF Setup.secure /\ (now - reqs[p].stamp) \notin -MaxSkew..MaxSkew
               THEN Refused(p)
               ELSE [reqs[p] EXCEPT !.pc = Body(p).kind])
    /\ UNCHANGED <<nonces, captchas, bans, clients, lastId, tokens, served, logins,
                   spent, solved>>
    /\ Fixed

\* authenticate.  An address banned in the meantime is refused without a look
\* at the password; a refused password counts against the address as well.
\* The records that ran out may be dropped first (on 1% of the calls).
authenticate(p) ==
    LET r == reqs[p] IN
    /\ At(p, "login")
    /\ \E b \in {bans, CleanBanRecords(bans)} :
          bans' = IF r.ip \in DOMAIN b THEN [b EXCEPT ![r.ip] = AfterCheck(r.ip)[r.ip]] ELSE b
    /\ IF IsLoginBanned(r.ip) THEN Goto(p, Refuse(r, {Body(p).user}))
       ELSE IF adminAuth(Body(p), r.totp)
       THEN Goto(p, [r EXCEPT !.who = Principal(TRUE, 0), !.pc = "clear"])
       ELSE IF clientAuth(Body(p), r.totp) = {}
       THEN Goto(p, Refuse(r, {r.ip, Body(p).user}))
       ELSE \E c \in clientAuth(Body(p), r.totp) :
               Goto(p, [r EXCEPT !.who = Principal(FALSE, c), !.life = clients[c].life,
                                 !.pc = "clear"])
    /\ UNCHANGED <<nonces, captchas, clients, lastId, tokens, served, logins,
                   spent, solved>>
    /\ Fixed

\* The end of a good login: the failures of the address are forgotten and
\* the token is signed.
grant(p) ==
    /\ At(p, "clear")
    /\ bans' = ClearLoginFailures(bans, reqs[p].ip)
    /\ tokens' = tokens \cup {IssueToken(reqs[p].who, reqs[p].life)}
    /\ Goto(p, Idle)
    /\ UNCHANGED <<nonces, captchas, clients, lastId, served, logins, spent, solved>>
    /\ Fixed

\* The address is noted before the user name.
note(p) ==
    /\ At(p, "note")
    /\ \E k \in reqs[p].notes :
          /\ k \in Ip \/ reqs[p].notes \cap Ip = {}
          /\ bans' = NoteLoginFailure(bans, k)
          /\ Goto(p, [reqs[p] EXCEPT !.notes = @ \ {k},
                                    !.pc = IF reqs[p].notes = {k} THEN "reject" ELSE "note"])
    /\ UNCHANGED <<nonces, captchas, clients, lastId, tokens, served, logins,
                   spent, solved>>
    /\ Fixed

\* rejectLogin: the answer carries a new nonce and a new captcha.
rejectLogin(p) ==
    /\ At(p, "reject")
    /\ nonces' = Issue(nonces).store
    /\ captchas' = IF Setup.captcha THEN NewCaptcha(captchas).store ELSE captchas
    /\ Goto(p, Idle)
    /\ UNCHANGED <<bans, clients, lastId, tokens, served, logins, spent, solved>>
    /\ Fixed

\* The account a registration or an administrator adds.  life tells apart
\* two accounts with the same id: an id comes back only in another process.
Account(u, text) ==
    [user |-> u, pass |-> text, vkey |-> "key", totp |-> FALSE, on |-> TRUE, life |-> boot]

Taken(u) == \E c \in DOMAIN clients : clients[c].user = u

\* Fault: the next id is the first one above those in use.
FirstFreeId == Max(DOMAIN clients \cup {0}) + 1

GetClientId == lastId + 1

\* handleRegister draws an id, then refuses a name that is taken.
register(p) ==
    LET id == GetClientId IN
    /\ At(p, "register") /\ id \in Id
    /\ lastId' = id
    /\ clients' = IF Taken(Body(p).user) THEN clients
                  ELSE [c \in DOMAIN clients \cup {id} |->
                          IF c = id THEN Account(Body(p).user, Body(p).pass.text)
                          ELSE clients[c]]
    /\ Goto(p, Idle)
    /\ UNCHANGED <<nonces, captchas, bans, tokens, served, logins, spent, solved>>
    /\ Fixed

Serve(p) ==
    \/ checkBans(p) \/ checkCaptcha(p) \/ checkPayload(p) \/ consumeNonce(p)
    \/ checkTime(p) \/ authenticate(p) \/ grant(p) \/ note(p) \/ rejectLogin(p)
    \/ register(p)

(**************************** Requests with a token ************************)

\* RequireAuth: who the request acts for; {} when it is refused.  The query
\* parameters come first.
RequireAuth(t, stamp) ==
    IF legacyAuthKeyPrincipal(stamp) THEN {Principal(TRUE, 0)}
    ELSE {Principal(u.admin, u.client) : u \in {v \in {t} : ParseToken(v) = "ok"}}

RequireAdmin(p) == p.admin

\* Every route on one client: the guards, then the record, if there is one.
requireClientAccess(p, c) == OwnsClient(p, c) /\ c \in DOMAIN clients

\* What the routes change here: accounts and login bans.  The others only
\* read, or change records this module does not have.
Admitted(t, p, c) ==
    served' = [admin |-> p.admin, client |-> c,
               life |-> IF c = 0 THEN 0 ELSE clients[c].life,
               own |-> <<t.client, t.life>>, same |-> t.boot = boot,
               count |-> served.count + 1]

clientRoute(t, p, c) ==
    /\ requireClientAccess(p, c)
    /\ Admitted(t, p, c)
    /\ UNCHANGED <<clients, lastId, bans>>

handleClientStatus(t, p, c) ==
    /\ RequireAdmin(p) /\ c \in DOMAIN clients
    /\ Admitted(t, p, c)
    /\ clients' = [clients EXCEPT ![c].on = ~@]
    /\ UNCHANGED <<lastId, bans>>

handleDeleteClient(t, p, c) ==
    /\ RequireAdmin(p) /\ c \in DOMAIN clients
    /\ Admitted(t, p, c)
    /\ clients' = Restrict(clients, DOMAIN clients \ {c})
    /\ UNCHANGED <<lastId, bans>>

handleCreateClient(t, p) ==
    LET id == GetClientId IN
    /\ RequireAdmin(p) /\ id \in Id /\ ~Taken("bob")
    /\ Admitted(t, p, 0)
    /\ lastId' = id
    /\ clients' = [c \in DOMAIN clients \cup {id} |->
                      IF c = id THEN Account("bob", "pw") ELSE clients[c]]
    /\ UNCHANGED bans

handleRemoveBan(t, p, k) ==
    /\ RequireAdmin(p) /\ k \in DOMAIN bans
    /\ Admitted(t, p, 0)
    /\ bans' = ClearLoginFailures(bans, k)
    /\ UNCHANGED <<clients, lastId>>

handleClearBans(t, p) ==
    /\ RequireAdmin(p) /\ bans /= << >>
    /\ Admitted(t, p, 0)
    /\ bans' = << >>
    /\ UNCHANGED <<clients, lastId>>

handleCleanBans(t, p) ==
    /\ RequireAdmin(p) /\ bans /= << >>
    /\ Admitted(t, p, 0)
    /\ bans' = CleanBanRecords(bans)
    /\ UNCHANGED <<clients, lastId>>

\* The routes behind RequireAuth.
registerRoutes(t, p) ==
    \/ \E c \in Id : \/ clientRoute(t, p, c) \/ handleClientStatus(t, p, c)
                     \/ handleDeleteClient(t, p, c)
    \/ handleCreateClient(t, p)
    \/ \E k \in DOMAIN bans : handleRemoveBan(t, p, k)
    \/ handleClearBans(t, p) \/ handleCleanBans(t, p)

\* A script sends a time stamp and no token, the web page only a token.
Never == -100
NoToken == [admin |-> FALSE, client |-> 0, iat |-> 0, exp |-> 0, key |-> -1,
            boot |-> 0, life |-> 0]

Request ==
    /\ proc = "up" /\ served.count < Setup.requests
    /\ \E t \in tokens \cup {NoToken} : \E stamp \in {Never, 0, now} :
          /\ t = NoToken <=> stamp /= Never
          /\ \E p \in RequireAuth(t, stamp) : registerRoutes(t, p)
    /\ UNCHANGED <<nonces, captchas, reqs, tokens, logins, spent, solved>>
    /\ Fixed

\* The minute ticker of StartLoginBanCleaner.
StartLoginBanCleaner ==
    /\ proc = "up" /\ CleanBanRecords(bans) /= bans
    /\ bans' = CleanBanRecords(bans)
    /\ UNCHANGED <<nonces, captchas, clients, lastId, reqs, tokens, served, logins,
                   spent, solved>>
    /\ Fixed

(****************************** Specification ******************************)

Init ==
    /\ now = 1
    /\ case \in DOMAIN Setups
    /\ conf = Setup.conf
    /\ boot = 0 /\ proc = "down" /\ key = 0
    /\ nonces = EmptyStore /\ captchas = EmptyStore /\ bans = << >>
    /\ clients = Setup.clients /\ lastId = 0
    /\ reqs = [p \in Proc |-> Idle]
    /\ tokens = {} /\ logins = 0
    /\ served = [admin |-> FALSE, client |-> 0, life |-> 0, own |-> <<0, 0>>,
                 same |-> FALSE, count |-> 0]
    /\ spent = [n \in 1 .. MaxIssue + MaxLogin |-> 0]
    /\ solved = [n \in 1 .. MaxIssue + MaxLogin |-> 0]

Next ==
    \/ InitTokenKey \/ AppendKeys \/ writeFileAtomic \/ Stop \/ Tick
    \/ handleChallenge \/ handleCaptcha
    \/ \E p \in Proc, b \in Setup.bodies, ip \in Ip,
          n \in 0 .. nonces.next - 1, c \in 0 .. captchas.next - 1 : Arrive(p, b, ip, n, c)
    \/ \E p \in Proc : Serve(p)
    \/ Request \/ StartLoginBanCleaner

Spec == Init /\ [][Next]_vars

(******************************* Properties ********************************)

\* A nonce lets at most one request through to the password check, and a
\* captcha is accepted at most once, however logins, registrations, sweeps of
\* the stores and restarts interleave (nonceStore.Consume, captchaStore.verify).
OneUseEach ==
    \A n \in DOMAIN spent : spent[n] <= 1 /\ solved[n] <= 1

\* A request with the token of a client that is served by the process that
\* signed it reads or changes the account whose password was checked at the
\* login, and never one that got the id later (OwnsClient, GetClientId).
ActsOnOwnClient ==
    (served.client /= 0 /\ ~served.admin /\ served.same)
        => served.own = <<served.client, served.life>>

\* Where nps.conf can be written and has no line api_jwt_key without a value,
\* which AppendKeys would leave as it is.
KeyIsKept == Setup.dir = "ok" /\ Setup.conf /= Blank

\* A token that has not run out is accepted by every later process too, when
\* the key is kept: the key it was signed with is in the file before the
\* process that made the key up serves a request (resolveJWTKey, AppendKeys).
SessionSurvives ==
    \A t \in tokens :
        (proc = "up" /\ KeyIsKept /\ now <= t.exp) => ParseToken(t) = "ok"
=============================================================================
