--------------------------------- MODULE Dhcp ---------------------------------
(***************************************************************************)
(* The address of the network interface: net_init, which asks a DHCP       *)
(* server at boot and falls back to fixed addresses, the shell's dhcp      *)
(* command, which asks again, and the callback of port 68 (net/dhcp.c),    *)
(* with the routes they add (net/route.c).                                 *)
(*                                                                         *)
(* At boot interrupts are off and only dhcp_start polls the device.  Later *)
(* the tick polls too: it may run a whole callback between two steps of    *)
(* the shell, one of which may be a callback of its own.  (Only the        *)
(* self-test calls the shell so far; the model lets a thread do so.)       *)
(*                                                                         *)
(* External: the servers, which offer, lease and acknowledge as RFC 2131   *)
(* says, and the network, which keeps every message: one may arrive late,  *)
(* again or never.  The options of a message (mask, gateway, name server)  *)
(* are one value, the gateway.                                             *)
(***************************************************************************)
EXTENDS Integers, Sequences, FiniteSets, FiniteSetsExt, SequencesExt

CONSTANTS
    Servers,        \* each is also the gateway that it names
    Pool,           \* the addresses each server gives
    DHCP_ROUNDS,
    Xids,           \* csprng_u32, a new one each time
    StaticIp,
    StaticGateway,
    TestGateway     \* the loopback, to which the self-test adds a default route

ASSUME DhcpAssumption ==
    /\ Servers \subseteq Nat \ {0} /\ {StaticGateway, TestGateway} \cap ({0} \cup Servers) = {}
    /\ \A s \in Servers : Pool[s] \subseteq Nat \ {0, StaticIp}
    /\ DHCP_ROUNDS \in Nat \ {0}

VARIABLES
    client,   \* g_state, g_xid, g_done and what the last offer said
    eth,      \* netif: ip and gateway
    routes,   \* netns.routes, newest first: the network, or all
    start,    \* dhcp_start: where it is, its round, whether at boot, what it returned
    running,  \* the message whose callback the shell is in, or NoMsg
    xids,     \* identifiers taken
    msgs,     \* messages sent
    lease     \* the address each server has leased to this machine, or 0

dhcp_vars == <<client, eth, routes, start, running, xids, msgs, lease>>

NoMsg == [kind |-> "none"]
Query(kind, xid, s, ip) == [kind |-> kind, xid |-> xid, server |-> s, ip |-> ip]
Answer(kind, xid, s, ip, gw) == [kind |-> kind, xid |-> xid, server |-> s, ip |-> ip, gw |-> gw]
Answers == {m \in msgs : m.kind \in {"offer", "ack"}}

DhcpInit ==
    /\ client = [state |-> "INIT", xid |-> 0, done |-> FALSE, bound |-> FALSE,
                 yiaddr |-> 0, server_id |-> 0, requested_ip |-> 0, gw |-> 0]
    /\ eth = [ip |-> 0, gateway |-> 0]
    /\ routes = <<>>
    /\ start = [at |-> "idle", round |-> 0, boot |-> TRUE, ret |-> "none"]
    /\ running = NoMsg /\ xids = {} /\ msgs = {}
    /\ lease = [s \in Servers |-> 0]

-----------------------------------------------------------------------------
(* Routes.  A destination is near, in the network of the interface, or far. *)

route_add(rs, net, gw) == <<[net |-> net, gw |-> gw]>> \o rs

\* Networks a destination is in, those with the longer mask first.
Fits(dst) == IF dst = "near" THEN <<"near", "ten", "all">> ELSE <<"all">>
Into(rs, net) == {i \in DOMAIN rs : rs[i].net = net}
Longest(rs, dst) == Fits(dst)[Min({k \in DOMAIN Fits(dst) : Into(rs, Fits(dst)[k]) # {}})]

\* Mutant: of two routes with the same mask the older is taken.
route_lookup_Older(rs, dst) == rs[Max(Into(rs, Longest(rs, dst)))]

\* The route with the longest mask, of several the newest.
route_lookup(rs, dst) == rs[Min(Into(rs, Longest(rs, dst)))]

\* Routes of a new configuration; without a gateway only its own network's.
Routed(rs, gw) ==
    IF gw = 0 THEN route_add(rs, "near", 0) ELSE route_add(route_add(rs, "near", 0), "all", gw)

-----------------------------------------------------------------------------
(* The callback of port 68. *)

Accepts(m) ==
    /\ client.bound /\ m.xid = client.xid
    /\ \/ m.kind = "offer" /\ client.state = "DISCOVER"
       \/ m.kind = "ack" /\ client.state = "REQUEST"

\* An offer is requested at once.
Offered(m) ==
    /\ client' = [client EXCEPT !.yiaddr = m.ip, !.server_id = m.server, !.requested_ip = m.ip,
                                !.gw = m.gw, !.state = "REQUEST"]
    /\ msgs' = msgs \cup {Query("request", client.xid, m.server, m.ip)}
    /\ UNCHANGED <<eth, routes>>

\* dhcp_apply_config; options that an acknowledgement leaves out stay as offered.
Acked(m) ==
    LET gw == IF m.gw # 0 THEN m.gw ELSE client.gw IN
    /\ client' = [client EXCEPT !.yiaddr = m.ip, !.gw = gw, !.done = TRUE, !.state = "BOUND"]
    /\ eth' = [ip |-> m.ip, gateway |-> gw]
    /\ routes' = Routed(routes, gw)
    /\ UNCHANGED msgs

\* Mutant: the address that was requested is taken, not the acknowledged one.
dhcp_udp_cb_Requested(m) ==
    \/ m.kind = "offer" /\ Offered(m)
    \/ m.kind = "ack" /\ Acked([m EXCEPT !.ip = client.requested_ip])

dhcp_udp_cb(m) ==
    \/ m.kind = "offer" /\ Offered(m)
    \/ m.kind = "ack" /\ Acked(m)

\* net_tick delivers a message between two steps of any thread.
net_tick ==
    /\ ~start.boot
    /\ \E m \in Answers : Accepts(m) /\ dhcp_udp_cb(m)
    /\ UNCHANGED <<start, running, xids, lease>>

-----------------------------------------------------------------------------
(* dhcp_start, in net_init and in the shell. *)

DhcpStarts ==
    /\ start.at = "idle" /\ Xids \ xids # {}
    /\ client' = [client EXCEPT !.done = FALSE]
    /\ start' = [start EXCEPT !.at = "reset", !.round = 0, !.ret = "none"]
    /\ UNCHANGED <<eth, routes, running, xids, msgs, lease>>

DhcpResets ==
    /\ start.at = "reset"
    /\ client' = [client EXCEPT !.state = "INIT", !.server_id = 0, !.requested_ip = 0]
    /\ start' = [start EXCEPT !.at = "xid"]
    /\ UNCHANGED <<eth, routes, running, xids, msgs, lease>>

\* What follows dhcp_start: net_init sets fixed addresses when it fails, and the self-test runs.
Returns(ret) ==
    /\ start' = [start EXCEPT !.at = IF start.boot THEN "test" ELSE "idle", !.ret = ret]
    /\ IF start.boot /\ ret = "timeout"
       THEN /\ eth' = [ip |-> StaticIp, gateway |-> StaticGateway]
            /\ routes' = Routed(routes, StaticGateway)
       ELSE UNCHANGED <<eth, routes>>

\* A new identifier, and the port, which stays bound for good.
DhcpBinds ==
    /\ start.at = "xid"
    /\ \E x \in Xids \ xids, room \in BOOLEAN :
           /\ xids' = xids \cup {x}
           /\ client' = [client EXCEPT !.xid = x, !.bound = @ \/ room]
           /\ IF client.bound \/ room
              THEN start' = [start EXCEPT !.at = "send"] /\ UNCHANGED <<eth, routes>>
              ELSE Returns("timeout")
    /\ UNCHANGED <<running, msgs, lease>>

\* A round sends, or has no buffer for it and waits all the same.
dhcp_send_discover ==
    /\ start.at = "send"
    /\ start' = [start EXCEPT !.at = "wait"]
    /\ \/ /\ client' = [client EXCEPT !.state = "DISCOVER"]
          /\ msgs' = msgs \cup {Query("discover", client.xid, 0, 0)}
       \/ UNCHANGED <<client, msgs>>
    /\ UNCHANGED <<eth, routes, running, xids, lease>>

\* A poll of dhcp_start: the callback runs at once at boot, and in two steps in the shell.
Polls ==
    /\ start.at = "wait" /\ running = NoMsg /\ ~client.done
    /\ \E m \in Answers :
           /\ Accepts(m)
           /\ IF start.boot
              THEN dhcp_udp_cb(m) /\ UNCHANGED running
              ELSE running' = m /\ UNCHANGED <<client, msgs, eth, routes>>
    /\ UNCHANGED <<start, xids, lease>>

CallbackGoesOn ==
    /\ running # NoMsg
    /\ dhcp_udp_cb(running)
    /\ running' = NoMsg
    /\ UNCHANGED <<start, xids, lease>>

RoundEnds ==
    /\ start.at = "wait" /\ running = NoMsg
    /\ IF client.done THEN Returns("ok")
       ELSE IF start.round + 1 < DHCP_ROUNDS
       THEN /\ start' = [start EXCEPT !.at = "send", !.round = @ + 1]
            /\ UNCHANGED <<eth, routes>>
       ELSE Returns("timeout")
    /\ UNCHANGED <<client, running, xids, msgs, lease>>

\* The self-test tries its own routes and leaves them.
test_route ==
    /\ start.at = "test"
    /\ routes' = route_add(route_add(routes, "ten", TestGateway), "all", TestGateway)
    /\ start' = [start EXCEPT !.at = "idle", !.boot = FALSE]
    /\ UNCHANGED <<client, eth, running, xids, msgs, lease>>

-----------------------------------------------------------------------------
(* The servers. *)

\* An offer: of the address already leased, or any.
Offer(s) ==
    \E q \in msgs, ip \in Pool[s] :
        /\ q.kind = "discover" /\ lease[s] \in {0, ip}
        /\ msgs' = msgs \cup {Answer("offer", q.xid, s, ip, s)}
        /\ UNCHANGED <<client, eth, routes, start, running, xids, lease>>

\* A request of an offer is acknowledged, with the options or without them;
\* one of another server's offer frees the address.
Acknowledge(s) ==
    \E q \in msgs, gw \in {0, s} :
        /\ q.kind = "request"
        /\ IF q.server = s
           THEN /\ lease[s] \in {0, q.ip}
                /\ lease' = [lease EXCEPT ![s] = q.ip]
                /\ msgs' = msgs \cup {Answer("ack", q.xid, s, q.ip, gw)}
           ELSE lease' = [lease EXCEPT ![s] = 0] /\ UNCHANGED msgs
        /\ UNCHANGED <<client, eth, routes, start, running, xids>>

DhcpNext ==
    \/ net_tick \/ DhcpStarts \/ DhcpResets \/ DhcpBinds \/ dhcp_send_discover
    \/ Polls \/ CallbackGoesOn \/ RoundEnds \/ test_route
    \/ \E s \in Servers : Offer(s) \/ Acknowledge(s)

DhcpSpec == DhcpInit /\ [][DhcpNext]_dhcp_vars

-----------------------------------------------------------------------------
(* What dhcp_start reported is so; and datagrams to near machines go out       *)
(* directly and those to far machines to the gateway that came with the         *)
(* address, past the routes of older addresses - or to the loopback, where the  *)
(* self-test's route leads until the next address.                              *)
RoutesLead ==
    /\ eth.ip \in {0, StaticIp} => start.ret # "ok"
    /\ eth.ip # 0 => /\ route_lookup(routes, "far").gw \in {eth.gateway, TestGateway}
                     /\ route_lookup(routes, "near").gw = 0

(* Once there is an address, it is the fixed one or one that a server holds for *)
(* this machine, whichever of the boot, the shell and the tick took the         *)
(* acknowledgement and however late.                                            *)
AddressHeld ==
    /\ eth.ip \in {0, StaticIp} \cup {lease[s] : s \in Servers}
    /\ eth.ip \notin {0, StaticIp} => lease[eth.gateway] = eth.ip
    /\ RoutesLead

=============================================================================
