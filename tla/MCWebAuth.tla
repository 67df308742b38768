----------------------------- MODULE MCWebAuth -----------------------------
(* Configurations and request bodies for TLC. *)
EXTENDS WebAuth, TLC

Pw(text) == [text |-> text, code |-> "none"]
Coded(text) == [text |-> text, code |-> "good"]

Login(u, pass, guess, totp, pow) ==
    [kind |-> "login", user |-> u, pass |-> pass, guess |-> guess, totp |-> totp,
     pow |-> pow, cipher |-> TRUE, late |-> 0]

MCAttempts ==
    <<Login("admin", Pw("root"), "right", "none", TRUE),
      Login("admin", Coded("root"), "none", "none", FALSE),
      Login("ann", Pw("pw"), "wrong", "good", TRUE),
      Login("user", Pw("key"), "right", "none", FALSE),
      [Login("ann", Pw("pw"), "right", "none", TRUE) EXCEPT !.cipher = FALSE],
      [Login("ann", Pw("bad"), "right", "none", TRUE) EXCEPT !.late = 2],
      [Login("bob", Pw("pw"), "right", "none", TRUE) EXCEPT !.kind = "register"],
      [Login("admin", Pw("pw"), "right", "none", TRUE) EXCEPT !.kind = "register"]>>

Ann == [user |-> "ann", pass |-> "pw", vkey |-> "key", totp |-> FALSE, on |-> TRUE,
        life |-> 0]
Key == [Ann EXCEPT !.user = "", !.pass = ""]

Plain == [captcha |-> FALSE, pow |-> FALSE, secure |-> FALSE, totp |-> FALSE,
          users |-> TRUE, vkey |-> TRUE, register |-> TRUE, authKey |-> FALSE,
          dir |-> "ok", conf |-> Absent, clients |-> 1 :> Ann,
          boots |-> 1, logins |-> 2, bodies |-> {3, 6}, requests |-> 0, until |-> 3]

MCSetups ==
    <<\* tokens over a restart
      [Plain EXCEPT !.boots = 2, !.logins = 1, !.bodies = {1, 3}, !.requests = 2],
      \* tokens and accounts that come and go
      [Plain EXCEPT !.conf = 9, !.bodies = {1, 3}, !.requests = 3, !.until = 1],
      \* throttling, with and without captchas
      [Plain EXCEPT !.conf = 9, !.bodies = {1, 6}],
      [Plain EXCEPT !.captcha = TRUE, !.secure = TRUE, !.conf = 9, !.bodies = {3, 5}, !.until = 2,
                    !.clients = 1 :> [Ann EXCEPT !.totp = TRUE]],
      \* registration, and scripts with the shared key
      [Plain EXCEPT !.captcha = TRUE, !.conf = 9, !.bodies = {7, 8}, !.until = 2],
      [Plain EXCEPT !.authKey = TRUE, !.conf = 9, !.bodies = {6}, !.logins = 1,
                    !.requests = 2],
      \* proof of work, one-time codes, a read-only directory
      [Plain EXCEPT !.pow = TRUE, !.totp = TRUE, !.dir = "readonly", !.bodies = {2, 4},
                    !.boots = 2, !.logins = 1, !.clients = 1 :> Key],
      \* a key that is too short, one without a value, and no file at all
      [Plain EXCEPT !.conf = Short, !.dir = "none"],
      [Plain EXCEPT !.conf = Blank, !.boots = 2, !.logins = 1, !.bodies = {3}, !.until = 2],
      [Plain EXCEPT !.dir = "none", !.boots = 2, !.logins = 1, !.secure = TRUE]>>

Symmetry == Permutations(Proc)
=============================================================================
