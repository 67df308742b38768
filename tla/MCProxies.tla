----------------------------- MODULE MCProxies -----------------------------
(***************************************************************************)
(* Small instances of the servers of nps, the UDP server and the one for   *)
(* connections: in a behaviour one of them is used and the other is idle.  *)
(***************************************************************************)
EXTENDS UdpServer, Proxy

CONSTANTS a1, a2, v1, v2

NoPackets == [addrs |-> {}, pkts |-> 2, max |-> 0, exhausted |-> FALSE, lossy |-> FALSE, close |-> FALSE]

MCUdpSetups == {
    NoPackets,
    [NoPackets EXCEPT !.addrs = {a1}, !.pkts = 3, !.lossy = TRUE, !.close = TRUE],
    [NoPackets EXCEPT !.addrs = {a1, a2}, !.max = 1, !.close = TRUE],
    [NoPackets EXCEPT !.addrs = {a1}, !.exhausted = TRUE, !.close = TRUE] }

\* A task whose own flow limit is used up.
Exhausted == {[NoPackets EXCEPT !.addrs = {a1}, !.exhausted = TRUE]}

NoUsers == [mode |-> "tcp", visitors |-> {}, asks |-> {"data"}, acl |-> FALSE, max |-> 0,
            tlimit |-> 0, climit |-> 0, req |-> 1, resp |-> 2,
            refuse |-> FALSE, abort |-> FALSE, close |-> FALSE]

One == [NoUsers EXCEPT !.visitors = {v1}]
Two == [NoUsers EXCEPT !.visitors = {v1, v2}, !.req = 0]

MCSetups == {
    NoUsers,
    One,
    [One EXCEPT !.abort = TRUE, !.resp = 1],
    [One EXCEPT !.close = TRUE, !.refuse = TRUE, !.req = 0, !.resp = 1],
    [One EXCEPT !.mode = "secret", !.abort = TRUE, !.refuse = TRUE, !.resp = 0],
    [One EXCEPT !.mode = "socks5", !.asks = {"connect", "denied", "bind", "badauth", "other"},
                !.acl = TRUE, !.refuse = TRUE, !.resp = 0],
    [One EXCEPT !.mode = "httpProxy", !.asks = {"connect", "denied", "other"},
                !.acl = TRUE, !.refuse = TRUE, !.resp = 0],
    [Two EXCEPT !.resp = 1],
    [Two EXCEPT !.mode = "secret", !.max = 1, !.resp = 0],
    [One EXCEPT !.tlimit = 2, !.climit = 4] }

MCInit ==
    /\ UdpInit /\ Init
    /\ (udpSetup = NoPackets) # (setup = NoUsers)

MCNext ==
    \/ UdpNext /\ UNCHANGED vars
    \/ Next /\ UNCHANGED udpVars

MCSpec == MCInit /\ [][MCNext]_<<udpVars, vars>> /\ UdpFairness /\ Fairness
=============================================================================
