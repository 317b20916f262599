---------------------------------- MODULE Tcp ----------------------------------
(***************************************************************************)
(* TCP connections and the sockets over them (net/tcp.c, net/socket.c),    *)
(* against remote machines that follow the protocol, over a network that   *)
(* loses, repeats and reorders.  System calls run with interrupts off and  *)
(* segments are received in the tick, so every handler is one step.  A     *)
(* segment carries one unit of data.  Loopback, where a send runs the      *)
(* receiver inside the sender, is left out.                                *)
(***************************************************************************)
EXTENDS Integers, Sequences, FiniteSets, FiniteSetsExt

CONSTANTS Slots,    \* indices of g_conns
          Socks,    \* indices of g_socks
          Actives,  \* address and port pairs of the connections made here, from 1 on
          Passives, \* those of the connections made to the listening port
          TxqMax, RxSize,
          Talkers,  \* bound: the links that carry data
          OutUnits, \* bound: units a program sends on one of them
          InUnits,  \* units the remote machine sends on one of them
          InFlight, \* bound: segments in the network
          Hasty     \* whether a remote machine closes before its data is acknowledged

Links == Actives \cup Passives
Txq == 1 .. TxqMax

ASSUME TcpAssumption ==
    /\ Slots \subseteq Nat \ {0} /\ IsFiniteSet(Slots)
    /\ Links \subseteq Nat \ {0} /\ Actives \cap Passives = {} /\ Talkers \subseteq Links
    /\ {TxqMax, RxSize, OutUnits, InUnits, InFlight} \subseteq Nat
    /\ Hasty \in BOOLEAN

VARIABLES
    conns, \* g_conns
    socks, \* the slot a socket points to; 0 without one, -1 for a free socket
    net,   \* segments on their way
    peer,  \* the remote end of each link
    given, \* history: units that tcp_send_data took for each link
    g_eph_cursor, \* the next ephemeral port, named by its link
    taken  \* history: units put in the receive buffer of each link

tcp_vars == <<conns, socks, net, peer, g_eph_cursor, given, taken>>

\* What tcp_alloc leaves; numbers count from the initial ones, which are 0.
NoSeg == [used |-> FALSE, sent |-> FALSE, seq |-> 0]
Fresh == [used |-> FALSE, state |-> "CLOSED", link |-> 0, snd_una |-> 0, snd_nxt |-> 0,
          rcv_nxt |-> 0, rx_len |-> 0, txq |-> [k \in Txq |-> NoSeg]]

TcpInit ==
    /\ conns = [s \in Slots |-> Fresh]
    /\ socks = [fd \in Socks |-> -1]
    /\ net = {}
    /\ peer = [l \in Links |-> [state |-> "idle", got |-> 0, out |-> 0]]
    /\ g_eph_cursor = 1
    /\ given = [l \in Links |-> 0]
    /\ taken = [l \in Links |-> << >>]

-----------------------------------------------------------------------------
\* A unit's sequence number is its place in the stream: unit # 0 marks data.
Segment(to, l, flags, seq, ack, unit) ==
    [to |-> to, link |-> l, flags |-> flags, seq |-> seq, ack |-> ack, unit |-> unit]
tcp_send_segment(c, seq, flags, unit) ==
    Segment("peer", c.link, flags, seq, IF "ACK" \in flags THEN c.rcv_nxt ELSE 0, unit)
Ack(c) == tcp_send_segment(c, c.snd_nxt, {"ACK"}, 0)

\* Of the segments sent any may be lost: by the network, for want of a buffer, by ARP.
Carry(rest, segs) ==
    \E kept \in SUBSET segs :
        /\ net' = rest \cup kept
        /\ Cardinality(net') <= InFlight
\* A segment that arrives may have a duplicate behind it.
Rest(m) == {net, net \ {m}}

tcp_alloc ==
    {s \in Slots : ~conns[s].used /\ \A r \in Slots : r < s => conns[r].used}

Listeners == {s \in Slots : conns[s].used /\ conns[s].state = "LISTEN"}
Matching(l) == {s \in Slots \ Listeners : conns[s].used /\ conns[s].link = l}

tcp_find(l) ==
    IF Matching(l) # {} THEN {Min(Matching(l))}
    ELSE IF l \in Passives /\ Listeners # {} THEN {Min(Listeners)} ELSE {}

\* Of a free slot a socket may still read the buffer; the rest nobody looks at.
tcp_free(c) == [Fresh EXCEPT !.link = c.link, !.rx_len = c.rx_len]

\* tcp_output stops at the first segment it cannot send; what it did send is `good`.
Unsent(c) == {k \in Txq : c.txq[k].used /\ ~c.txq[k].sent}
Outputs(c) == IF c.state # "ESTABLISHED" THEN {{}}
              ELSE {good \in SUBSET Unsent(c) :
                        \A k \in good, j \in Unsent(c) : j < k => j \in good}
Output(c, good) ==
    [c EXCEPT !.txq = [k \in Txq |-> IF k \in good THEN [@[k] EXCEPT !.sent = TRUE] ELSE @[k]]]
Data(c, ks) == {tcp_send_segment(c, c.txq[k].seq, {"ACK", "PSH"}, c.txq[k].seq) : k \in ks}

-----------------------------------------------------------------------------
\* Sockets.
net_socket(fd) ==
    /\ socks[fd] = -1
    /\ socks' = [socks EXCEPT ![fd] = 0]
    /\ UNCHANGED <<conns, net, peer, given, taken, g_eph_cursor>>

\* A second call on one socket leaves the first connection without an owner.
net_listen(fd) == \E s \in tcp_alloc :
    /\ socks[fd] # -1 /\ Passives # {}
    /\ conns' = [conns EXCEPT ![s] = [Fresh EXCEPT !.used = TRUE, !.state = "LISTEN"]]
    /\ socks' = [socks EXCEPT ![fd] = s]
    /\ UNCHANGED <<net, peer, given, taken, g_eph_cursor>>

net_connect(fd) == \E s \in tcp_alloc :
    LET l == g_eph_cursor
        c == [Fresh EXCEPT !.used = TRUE, !.state = "SYN_SENT", !.link = l]
    IN  /\ socks[fd] # -1 /\ l \in Actives
        /\ \/ /\ Carry(net, {tcp_send_segment(c, 0, {"SYN"}, 0)})
              /\ conns' = [conns EXCEPT ![s] = [c EXCEPT !.snd_nxt = 1]]
           \/ conns' = [conns EXCEPT ![s] = tcp_free(c)] /\ UNCHANGED net \* no route
        /\ g_eph_cursor' = l + 1
        /\ socks' = [socks EXCEPT ![fd] = s]
        /\ UNCHANGED <<peer, given, taken>>

\* Mutant: data waits in the slot of a segment that was sent and not acknowledged.
FreeSeg_Sent(c) == {k \in Txq : (~c.txq[k].used \/ c.txq[k].sent)
                                /\ \A j \in Txq : j < k => c.txq[j].used}

FreeSeg(c) ==
    {k \in Txq : ~c.txq[k].used /\ \A j \in Txq : j < k => c.txq[j].used}

net_send(fd) == socks[fd] > 0 /\
    LET s == socks[fd] IN \E k \in FreeSeg(conns[s]) :
    LET l == conns[s].link
        c == [conns[s] EXCEPT !.txq[k] = [used |-> TRUE, sent |-> FALSE, seq |-> conns[s].snd_nxt],
                              !.snd_nxt = @ + 1]
    IN  /\ conns[s].state = "ESTABLISHED" /\ l \in Talkers /\ given[l] < OutUnits
        /\ \E good \in Outputs(c) :
              /\ conns' = [conns EXCEPT ![s] = Output(c, good)]
              /\ Carry(net, Data(c, good))
        /\ given' = [given EXCEPT ![l] = @ + 1]
        /\ UNCHANGED <<socks, peer, taken, g_eph_cursor>>

net_recv(fd) == socks[fd] > 0 /\ \E n \in 1 .. conns[socks[fd]].rx_len :
    /\ conns' = [conns EXCEPT ![socks[fd]].rx_len = @ - n]
    /\ UNCHANGED <<socks, net, peer, given, taken, g_eph_cursor>>

\* tcp_close leaves FIN_WAIT_1 in a slot that is given up at once, so nobody sees it:
\* no FIN is sent again, and no data.
net_close(fd) ==
    LET s == socks[fd] IN
    /\ s # -1
    /\ IF s = 0 THEN UNCHANGED <<conns, net>>
       ELSE LET c == conns[s] IN
            /\ IF c.state # "ESTABLISHED" THEN UNCHANGED net
               ELSE Carry(net, {tcp_send_segment(c, c.snd_nxt, {"FIN", "ACK"}, 0)})
            /\ conns' = [conns EXCEPT ![s] = tcp_free(c)]
    /\ socks' = [socks EXCEPT ![fd] = -1]
    /\ UNCHANGED <<peer, given, taken, g_eph_cursor>>

-----------------------------------------------------------------------------
\* tcp_rx, by the state of the connection that tcp_find gives.

RxListen(m, s) ==
    /\ conns[s].state \in {"LISTEN"}
    /\ \E rest \in Rest(m) :
        \/ "SYN" \in m.flags /\ \E r \in tcp_alloc :
            LET child == [Fresh EXCEPT !.used = TRUE, !.state = "SYN_RCVD", !.link = m.link,
                                       !.rcv_nxt = m.seq + 1]
            IN  /\ Carry(rest, {tcp_send_segment(child, 0, {"SYN", "ACK"}, 0)})
                /\ conns' = [conns EXCEPT ![r] = [child EXCEPT !.snd_nxt = 1]]
        \/ /\ "SYN" \notin m.flags \/ tcp_alloc = {}
           /\ net' = rest /\ UNCHANGED conns
    /\ UNCHANGED <<socks, peer, given, taken, g_eph_cursor>>

\* A machine that follows the protocol sends nothing else to SYN_SENT.
RxSynSent(m, s) ==
    /\ conns[s].state \in {"SYN_SENT"}
    /\ LET c == [conns[s] EXCEPT !.rcv_nxt = m.seq + 1, !.snd_una = m.ack]
       IN  \E rest \in Rest(m) :
        \/ /\ {"SYN", "ACK"} \subseteq m.flags
           /\ Carry(rest, {Ack(c)})
           /\ conns' = [conns EXCEPT ![s] = [c EXCEPT !.state = "ESTABLISHED"]]
        \/ /\ "RST" \in m.flags
           /\ net' = rest
           /\ conns' = [conns EXCEPT ![s] = tcp_free(conns[s])]
    /\ UNCHANGED <<socks, peer, given, taken, g_eph_cursor>>

RxSynRcvd(m, s) ==
    /\ conns[s].state \in {"SYN_RCVD"}
    /\ net' \in Rest(m)
    /\ conns' = IF "ACK" \in m.flags
                THEN [conns EXCEPT ![s].state = "ESTABLISHED", ![s].snd_una = m.ack]
                ELSE conns
    /\ UNCHANGED <<socks, peer, given, taken, g_eph_cursor>>

\* Mutant: an acknowledgement frees the segment it stops at.
tcp_process_ack_Next(c, ack) ==
    IF ack <= c.snd_una THEN c
    ELSE [c EXCEPT !.snd_una = ack,
                   !.txq = [k \in Txq |-> [@[k] EXCEPT !.used = @ /\ c.txq[k].seq > ack]]]

tcp_process_ack(c, ack) ==
    IF ack <= c.snd_una THEN c
    ELSE [c EXCEPT !.snd_una = ack,
                   !.txq = [k \in Txq |-> [@[k] EXCEPT !.used = @ /\ c.txq[k].seq >= ack]]]

\* Mutant: data is taken whatever its place in the stream.
InPlace_Any(c, m) ==
    m.unit # 0

InPlace(c, m) ==
    m.unit # 0 /\ m.seq = c.rcv_nxt

\* Data beyond the buffer is dropped and counted as received; so is an early FIN.
RxEstablished(m, s) ==
    /\ conns[s].state \in {"ESTABLISHED"}
    /\ LET acked == IF "ACK" \in m.flags THEN tcp_process_ack(conns[s], m.ack) ELSE conns[s]
           fits == InPlace(acked, m) /\ acked.rx_len < RxSize
           data == [acked EXCEPT !.rcv_nxt = IF InPlace(acked, m) THEN @ + 1 ELSE @,
                                 !.rx_len = IF fits THEN @ + 1 ELSE @]
           c == IF "FIN" \in m.flags
                THEN [data EXCEPT !.rcv_nxt = @ + 1, !.state = "CLOSE_WAIT"] ELSE data
           acks == (IF m.unit # 0 THEN {Ack(data)} ELSE {})
                       \cup (IF "FIN" \in m.flags THEN {Ack(c)} ELSE {})
       IN  /\ \E rest \in Rest(m), good \in Outputs(c) :
                 /\ conns' = [conns EXCEPT ![s] = Output(c, good)]
                 /\ Carry(rest, acks \cup Data(c, good))
           /\ taken' = IF fits THEN [taken EXCEPT ![m.link] = Append(@, m.unit)] ELSE taken
    /\ UNCHANGED <<socks, peer, given, g_eph_cursor>>

RxClosing(m, s) ==
    /\ conns[s].state \in {"CLOSE_WAIT", "LAST_ACK"}
    /\ net' \in Rest(m)
    /\ conns' = IF "ACK" \notin m.flags THEN conns
                ELSE IF conns[s].state = "CLOSE_WAIT"
                THEN [conns EXCEPT ![s].state = "LAST_ACK"]
                ELSE [conns EXCEPT ![s] = tcp_free(conns[s])]
    /\ UNCHANGED <<socks, peer, given, taken, g_eph_cursor>>

\* No connection: dropped without a word.
RxNobody(m) ==
    /\ m.to = "us" /\ tcp_find(m.link) = {}
    /\ net' = net \ {m}
    /\ UNCHANGED <<conns, socks, peer, given, taken, g_eph_cursor>>

tcp_rx(m) ==
    \/ /\ m.to = "us"
       /\ \E s \in tcp_find(m.link) : \/ RxListen(m, s) \/ RxSynSent(m, s) \/ RxSynRcvd(m, s)
                                      \/ RxEstablished(m, s) \/ RxClosing(m, s)
    \/ RxNobody(m)

\* One tick.  Any SYN_SENT connections may be due, and any segments sent.
Retransmits(late) ==
    UNION {{tcp_send_segment(conns[p[1]], conns[p[1]].txq[p[2]].seq, {"ACK", "PSH"},
                             conns[p[1]].txq[p[2]].seq)} : p \in late}
Due == {p \in Slots \X Txq : /\ conns[p[1]].used /\ conns[p[1]].state = "ESTABLISHED"
                             /\ conns[p[1]].txq[p[2]].used /\ conns[p[1]].txq[p[2]].sent}
Waiting == {s \in Slots : conns[s].used /\ conns[s].state = "SYN_SENT"}

tcp_tick == \E late \in SUBSET Due, gone \in SUBSET Waiting :
    /\ late # {} \/ gone # {}
    /\ conns' = [s \in Slots |-> IF s \in gone THEN tcp_free(conns[s]) ELSE conns[s]]
    /\ Carry(net, Retransmits(late))
    /\ UNCHANGED <<socks, peer, given, taken, g_eph_cursor>>

-----------------------------------------------------------------------------
\* The remote machine: cumulative acknowledgements, data and FIN repeated at will.
PeerSegment(l, flags, seq, unit) ==
    Segment("us", l, flags, seq, IF "ACK" \in flags THEN peer[l].got + 1 ELSE 0, unit)
PeerAck(l, got) == Segment("us", l, {"ACK"}, 0, got + 1, 0) \* nobody reads its seq
LastUnit(l) == IF l \in Talkers THEN InUnits ELSE 0

PeerTells(rest, segs, l, p) ==
    /\ Carry(rest, segs)
    /\ peer' = [peer EXCEPT ![l] = p]
    /\ UNCHANGED <<conns, socks, given, taken, g_eph_cursor>>

\* It asks for a connection, or asks again.
PeerSyn(l) ==
    /\ l \in Passives /\ peer[l].state \in {"idle", "asked"}
    /\ PeerTells(net, {PeerSegment(l, {"SYN"}, 0, 0)}, l, [peer[l] EXCEPT !.state = "asked"])

\* It sends a unit not acknowledged yet, or its FIN.
PeerData(l) == \E u \in peer[l].out + 1 .. LastUnit(l) :
    /\ peer[l].state = "open"
    /\ PeerTells(net, {PeerSegment(l, {"ACK", "PSH"}, u, u)}, l, peer[l])

PeerFin(l) ==
    /\ peer[l].state = "open" /\ (Hasty \/ peer[l].out = LastUnit(l))
    /\ PeerTells(net, {PeerSegment(l, {"FIN", "ACK"}, LastUnit(l) + 1, 0)}, l, peer[l])

\* It receives: a request, which it may refuse; an answer; data or an acknowledgement.
PeerRx(m) == m.to = "peer" /\ \E rest \in Rest(m) :
    LET l == m.link
        p == peer[l]
        got == IF m.unit = p.got + 1 THEN p.got + 1 ELSE p.got
        out == IF "ACK" \in m.flags /\ m.ack - 1 > p.out THEN m.ack - 1 ELSE p.out
    IN  \/ /\ m.flags = {"SYN"} /\ p.state \in {"idle", "called"}
           /\ PeerTells(rest, {PeerSegment(l, {"SYN", "ACK"}, 0, 0)}, l, [p EXCEPT !.state = "called"])
        \/ /\ m.flags = {"SYN"} /\ p.state = "idle"
           /\ PeerTells(rest, {PeerSegment(l, {"RST", "ACK"}, 0, 0)}, l, p)
        \/ /\ m.flags = {"SYN", "ACK"} /\ p.state \in {"asked", "open"}
           /\ PeerTells(rest, {PeerAck(l, p.got)}, l, [p EXCEPT !.state = "open"])
        \/ /\ "SYN" \notin m.flags /\ p.state \in {"called", "open"}
           /\ PeerTells(rest, IF m.unit # 0 THEN {PeerAck(l, got)} ELSE {}, l,
                        [state |-> "open", got |-> got, out |-> out])
        \/ /\ \/ m.flags = {"SYN"} /\ p.state = "open"
              \/ m.flags = {"SYN", "ACK"} /\ p.state \notin {"asked", "open"}
              \/ "SYN" \notin m.flags /\ p.state \notin {"called", "open"}
           /\ PeerTells(rest, {}, l, p)

TcpNext ==
    \/ \E fd \in Socks : \/ net_socket(fd) \/ net_listen(fd) \/ net_connect(fd)
                         \/ net_send(fd) \/ net_recv(fd) \/ net_close(fd)
    \/ \E m \in net : tcp_rx(m) \/ PeerRx(m)
    \/ tcp_tick
    \/ \E l \in Links : PeerSyn(l) \/ PeerData(l) \/ PeerFin(l)

TcpSpec == TcpInit /\ [][TcpNext]_tcp_vars

-----------------------------------------------------------------------------
\* What the remote machine believes delivered was put in the receive buffer,
\* in order and once, whatever the network repeated, lost or overtook
\* (tcp_rx, tcp.c:416-434).  A repeated SYN may open a link of Passives again.
AckedIsHeld == \A l \in Actives :
    /\ taken[l] = [i \in 1 .. Len(taken[l]) |-> i]
    /\ \A u \in 1 .. LastUnit(l) : peer[l].out >= u => Len(taken[l]) >= u

\* A unit that tcp_send_data took and the remote machine lacks is in the send
\* queue of a connection that is established, at its place in the stream
\* (tcp_send_data, tcp_process_ack): else nothing sends it again.
UnackedIsKept == \A s \in Slots :
    LET c == conns[s] IN c.used /\ c.state = "ESTABLISHED" /\ c.link \in Actives =>
        \A u \in peer[c.link].got + 1 .. given[c.link] :
            \E k \in Txq : c.txq[k].used /\ c.txq[k].seq = u

\* Both streams of a connection are whole: what is acknowledged is held, what is
\* not is kept to be sent again (tcp.c:284-330, 416-434).
StreamsWhole == AckedIsHeld /\ UnackedIsKept
=============================================================================
