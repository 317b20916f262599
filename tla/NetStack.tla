------------------------------- MODULE NetStack -------------------------------
(***************************************************************************)
(* The network stack from frames to datagrams: buffers (net/netbuf.c),     *)
(* Ethernet and loopback, the ARP cache, IPv4, ICMP, ICMPv6 over the       *)
(* loopback, UDP bindings, and the two clients that wait for an answer,    *)
(* ping and the resolver (net/dns.c).                                      *)
(*                                                                         *)
(* A thread that sends over the loopback runs the receiving side inside    *)
(* its call, which may send again: calls are a stack of frames to handle   *)
(* and buffers to free afterwards.  The tick polls the device between any  *)
(* two steps of the client and finishes before the client goes on.  (Only  *)
(* the self-test calls ping and dns so far, with interrupts off; the model *)
(* lets a thread do so.)                                                   *)
(*                                                                         *)
(* External: other machines and the network.  A frame sent may be lost,    *)
(* and whatever answers it may arrive any number of times, ever after.     *)
(***************************************************************************)
EXTENDS Integers, Sequences, FiniteSets, FiniteSetsExt, SequencesExt

CONSTANTS
    ME, LO,             \* addresses of this machine: of the network device, of the loopback
    Hosts, NS,          \* those of other machines; the name server
    Bufs,               \* netbufs there is memory for
    ARP_CACHE_MAX, ARP_TIMEOUT_TICKS,
    Names, AddrOf,      \* names and their addresses
    Stored,             \* what the cache keeps of a name: all, or its first 63 characters
    DNS_CACHE_MAX, DNS_TTL, DNS_MAX_ROUNDS,
    NetIds,             \* csprng_u16, a new one each time
    MaxResolves,        \* bound of the runs: calls of dns_resolve
    NetPorts            \* ephemeral ports, from 0 on; the cursor goes round

ASSUME NetAssumption ==
    /\ ME # LO /\ {ME, LO} \cap Hosts = {} /\ NS \in Hosts
    /\ Bufs \subseteq Nat \ {0}
    /\ ARP_CACHE_MAX \in Nat \ {0} /\ DNS_CACHE_MAX \in Nat \ {0}
    /\ DNS_TTL \in Nat /\ NetPorts \in Nat \ {0}

VARIABLES
    bufs,       \* state of each netbuf: "none", "pool" or "held", refcount 1
    arp,        \* g_cache of arp.c: address and age in learned entries, or Empty
    out,        \* frames sent
    stacks,      \* stack of each thread: frames to handle, buffers to free
    ping,       \* g_ping_seen and g_ping_id of icmp.c and of ipv6.c
    pending,    \* g_pending, g_pending_id and g_pending_ip
    names,      \* g_cache of dns.c and its g_ticks
    binds,      \* UDP ports bound
    g_eph,      \* the next ephemeral port
    job,        \* the client: ping or resolve, where it is, and what it returned
    heard       \* history: echo replies delivered

stack_vars == <<bufs, arp, out, stacks, ping, pending, names, binds, g_eph, job, heard>>

Threads == {"shell", "tick"}
Empty == [ip |-> 0, age |-> 0]
NoName == [name |-> "", ip |-> 0, expires |-> 0]
Idle0 == [op |-> "none", at |-> "idle", dst |-> 0, id |-> 0, port |-> 0, round |-> 0, ret |-> "none", ip |-> 0]

Frame(kind, from, to, id) == [kind |-> kind, from |-> from, to |-> to, id |-> id, port |-> 0, name |-> "", ip |-> 0]
Rx(nif, f, b) == [op |-> "rx", nif |-> nif, f |-> f, buf |-> b]
Free(b) == [op |-> "free", buf |-> b]
AddressOn(nif) == IF nif = "lo" THEN LO ELSE ME

\* What machines send on their own and in answer to a frame.
Replies(f) ==
    CASE f.kind = "arp_req" /\ f.to \in Hosts -> {Frame("arp_rep", f.to, ME, 0)}
      [] f.kind = "echo" /\ f.to \in Hosts -> {[f EXCEPT !.kind = "echo_rep", !.from = f.to, !.to = ME]}
      [] f.kind = "query" -> {[f EXCEPT !.kind = "answer", !.from = NS, !.to = ME, !.ip = a] : a \in AddrOf[f.name]}
      [] OTHER -> {}
Incoming == UNION ({Replies(f) : f \in out}
                   \cup {{Frame("arp_req", h, ME, 0), Frame("echo", h, ME, 0)} : h \in Hosts \ {NS}})

StackInit ==
    /\ bufs = [b \in Bufs |-> "none"]
    /\ arp = [i \in 1..ARP_CACHE_MAX |-> IF i = 1 THEN [ip |-> LO, age |-> 0] ELSE Empty]
    /\ out = {} /\ stacks = [t \in Threads |-> <<>>]
    /\ ping = [v \in {4, 6} |-> [seen |-> FALSE, id |-> 0]]
    /\ pending = [got |-> FALSE, id |-> 0, ip |-> 0]
    /\ names = [cache |-> [i \in 1..DNS_CACHE_MAX |-> NoName], ticks |-> 0]
    /\ binds = {} /\ g_eph = 0 /\ job = Idle0 /\ heard = {}

-----------------------------------------------------------------------------
(* A step computes a record m: buffers, ARP cache, frames sent, calls to make    *)
(* before going on, and rc.  short: no memory and no free descriptor.            *)

Now == [bufs |-> bufs, arp |-> arp, out |-> out, push |-> <<>>, buf |-> 0, rc |-> 0]

InState(m, s) == {b \in Bufs : m.bufs[b] = s}

\* The buffer is m.buf, 0 without one.
netbuf_alloc(m, short) ==
    LET from == IF InState(m, "pool") # {} THEN InState(m, "pool")
                ELSE IF short THEN {} ELSE InState(m, "none")
    IN IF from = {} THEN [m EXCEPT !.buf = 0]
       ELSE [m EXCEPT !.buf = Min(from), !.bufs[Min(from)] = "held"]

\* A buffer that is free already stays so.
netbuf_free(m, b) == [m EXCEPT !.bufs[b] = "pool"]

\* Mutant: the loopback frees a frame that the receiver has freed.
ethernet_send_FreesTwice(m, nif, f, b, short) ==
    IF nif = "lo" THEN [m EXCEPT !.push = @ \o <<Rx("lo", f, b), Free(b)>>, !.rc = 0]
    ELSE [netbuf_free(m, b) EXCEPT !.out = IF short THEN @ ELSE @ \cup {f},
                                   !.rc = IF short THEN -1 ELSE 0]

\* The loopback hands the frame to the receiver; the device copies it and frees the buffer.
ethernet_send(m, nif, f, b, short) ==
    IF nif = "lo" THEN [m EXCEPT !.push = Append(@, Rx("lo", f, b)), !.rc = 0]
    ELSE [netbuf_free(m, b) EXCEPT !.out = IF short THEN @ ELSE @ \cup {f},
                                   !.rc = IF short THEN -1 ELSE 0]

Aged(e) == IF e.ip = 0 \/ e.age > ARP_TIMEOUT_TICKS THEN e ELSE [e EXCEPT !.age = @ + 1]

\* Entries age by one for each that is learned; when the cache is full the first is replaced.
arp_learn(m, ip) ==
    LET has(x) == {i \in DOMAIN m.arp : m.arp[i].ip = x}
        slot == IF has(ip) # {} THEN Min(has(ip)) ELSE IF has(0) # {} THEN Min(has(0)) ELSE 1
    IN [m EXCEPT !.arp = [i \in DOMAIN m.arp |->
           IF i = slot THEN [ip |-> ip, age |-> 0] ELSE Aged(m.arp[i])]]

\* An entry that is too old is dropped by the lookup that finds it.
arp_lookup(m, ip) ==
    LET i == CHOOSE j \in DOMAIN m.arp : m.arp[j].ip = ip
        known == \E j \in DOMAIN m.arp : m.arp[j].ip = ip
    IN IF known /\ m.arp[i].age <= ARP_TIMEOUT_TICKS THEN [m EXCEPT !.rc = 0]
       ELSE IF known THEN [m EXCEPT !.arp[i] = Empty, !.rc = -1] ELSE [m EXCEPT !.rc = -1]

arp_send_req(m, nif, ip, short) ==
    LET a == netbuf_alloc(m, short)
    IN IF a.buf = 0 THEN a
       ELSE ethernet_send(a, nif, Frame("arp_req", AddressOn(nif), ip, 0), a.buf, short)

\* The datagram is dropped when the address is not resolved yet, after a request for it.
ipv4_send(m, nif, f, b, short) ==
    LET looked == arp_lookup(m, f.to)
    IN IF looked.rc = 0 THEN ethernet_send(looked, nif, f, b, short)
       ELSE LET asked == arp_send_req(looked, nif, f.to, short)
            IN [asked EXCEPT !.push = Append(@, Free(b)), !.rc = -1]

\* The step ends: its calls come before what the thread was in.
Does(t, m, rest) ==
    /\ bufs' = m.bufs /\ arp' = m.arp /\ out' = m.out
    /\ stacks' = [stacks EXCEPT ![t] = m.push \o rest]

-----------------------------------------------------------------------------
(* Receiving. *)

Runs(t) == t = "tick" \/ stacks["tick"] = <<>>

\* A frame's handler frees its buffer when what it sent has been handled.
Answered(t, m, b) == Does(t, [m EXCEPT !.push = Append(@, Free(b))], Tail(stacks[t]))

arp_rx(t, a, short) ==
    /\ a.f.kind \in {"arp_req", "arp_rep"}
    /\ LET m == arp_learn(Now, a.f.from)
           r == netbuf_alloc(m, short)
           reply == Frame("arp_rep", AddressOn(a.nif), a.f.from, 0)
       IN IF a.f.kind = "arp_req" /\ a.f.to = AddressOn(a.nif) /\ r.buf # 0
          THEN Answered(t, ethernet_send(r, a.nif, reply, r.buf, short), a.buf)
          ELSE Answered(t, m, a.buf)
    /\ UNCHANGED <<ping, pending, heard>>

icmp_rx(t, a, short) ==
    \/ /\ a.f.kind = "echo"
       /\ LET r == netbuf_alloc(Now, short)
              reply == [a.f EXCEPT !.kind = "echo_rep", !.from = a.f.to, !.to = a.f.from]
          IN IF r.buf = 0 THEN Answered(t, Now, a.buf)
             ELSE Answered(t, ipv4_send(r, a.nif, reply, r.buf, short), a.buf)
       /\ UNCHANGED <<ping, pending, heard>>
    \/ /\ a.f.kind = "echo_rep"
       /\ ping' = IF a.f.id = ping[4].id THEN [ping EXCEPT ![4].seen = TRUE] ELSE ping
       /\ heard' = heard \cup {<<a.f.from, a.f.id>>}
       /\ Answered(t, Now, a.buf)
       /\ UNCHANGED pending

\* IPv6 goes over the loopback alone, and needs no address of the link.
icmpv6_rx(t, a, short) ==
    \/ /\ a.f.kind = "echo6"
       /\ LET r == netbuf_alloc(Now, short)
              reply == [a.f EXCEPT !.kind = "echo6_rep"]
          IN IF r.buf = 0 THEN Answered(t, Now, a.buf)
             ELSE Answered(t, ethernet_send(r, "lo", reply, r.buf, short), a.buf)
       /\ UNCHANGED <<ping, pending, heard>>
    \/ /\ a.f.kind = "echo6_rep"
       /\ ping' = IF a.f.id = ping[6].id THEN [ping EXCEPT ![6].seen = TRUE] ELSE ping
       /\ heard' = heard \cup {<<a.f.from, a.f.id>>}
       /\ Answered(t, Now, a.buf)
       /\ UNCHANGED pending

\* The binding of the port is dns_udp_cb, which takes an answer to the query that is out.
udp_rx(t, a) ==
    /\ a.f.kind = "answer"
    /\ pending' = IF a.f.port \in binds /\ a.f.id = pending.id
                  THEN [pending EXCEPT !.got = TRUE, !.ip = a.f.ip] ELSE pending
    /\ Answered(t, Now, a.buf)
    /\ UNCHANGED <<ping, heard>>

ethernet_rx(t) ==
    /\ Runs(t) /\ stacks[t] # <<>> /\ Head(stacks[t]).op = "rx"
    /\ \E short \in BOOLEAN :
           LET a == Head(stacks[t])
           IN arp_rx(t, a, short) \/ icmp_rx(t, a, short) \/ icmpv6_rx(t, a, short) \/ udp_rx(t, a)
    /\ UNCHANGED <<names, binds, g_eph, job>>

Frees(t) ==
    /\ Runs(t) /\ stacks[t] # <<>> /\ Head(stacks[t]).op = "free"
    /\ Does(t, netbuf_free(Now, Head(stacks[t]).buf), Tail(stacks[t]))
    /\ UNCHANGED <<ping, pending, names, binds, g_eph, job, heard>>

\* The tick, or the client where it waits, takes a frame from the device.
Poll0(t) ==
    /\ Runs(t) /\ stacks[t] = <<>>
    /\ t = "shell" => job.at \in {"ping wait", "arp wait", "dns wait"}
    /\ \E f \in Incoming :
           LET m == netbuf_alloc(Now, FALSE)
           IN m.buf # 0 /\ Does(t, [m EXCEPT !.push = <<Rx("eth", f, m.buf)>>], <<>>)
    /\ UNCHANGED <<ping, pending, names, binds, g_eph, job, heard>>

-----------------------------------------------------------------------------
(* The client.  It goes on when the calls it made have returned. *)

Client(at) == Runs("shell") /\ stacks["shell"] = <<>> /\ job.at = at
NewIds == NetIds \ ({f.id : f \in out} \cup {ping[4].id, ping[6].id, pending.id})
Version == IF job.op = "ping6" THEN 6 ELSE 4
Ends(ret, ip) == job' = [job EXCEPT !.at = "idle", !.ret = ret, !.ip = ip]

\* Mutant: a reply seen before is not forgotten.
PingStarts_KeepsSeen ==
    /\ Client("idle")
    /\ \E id \in NewIds, dst \in Hosts \cup {LO}, op \in {"ping", "ping6"} :
           /\ op = "ping6" => dst = LO
           /\ LET v == IF op = "ping6" THEN 6 ELSE 4
              IN ping' = [ping EXCEPT ![v].id = id]
           /\ job' = [Idle0 EXCEPT !.op = op, !.at = "ping send", !.dst = dst, !.id = id]
    /\ UNCHANGED <<bufs, arp, out, stacks, pending, names, binds, g_eph, heard>>

PingStarts ==
    /\ Client("idle")
    /\ \E id \in NewIds, dst \in Hosts \cup {LO}, op \in {"ping", "ping6"} :
           /\ op = "ping6" => dst = LO
           /\ LET v == IF op = "ping6" THEN 6 ELSE 4
              IN ping' = [ping EXCEPT ![v] = [seen |-> FALSE, id |-> id]]
           /\ job' = [Idle0 EXCEPT !.op = op, !.at = "ping send", !.dst = dst, !.id = id]
    /\ UNCHANGED <<bufs, arp, out, stacks, pending, names, binds, g_eph, heard>>

PingSends ==
    /\ Client("ping send")
    /\ \E short \in BOOLEAN :
           LET nif == IF job.dst = LO THEN "lo" ELSE "eth"
               m == netbuf_alloc(Now, short)
               f == Frame(IF Version = 6 THEN "echo6" ELSE "echo", AddressOn(nif), job.dst, job.id)
               sent == IF Version = 6 THEN ethernet_send(m, "lo", f, m.buf, short)
                       ELSE ipv4_send(m, nif, f, m.buf, short)
           IN IF m.buf = 0
              THEN Ends("failed", 0) /\ UNCHANGED <<bufs, arp, out, stacks>>
              ELSE /\ Does("shell", sent, <<>>)
                   /\ IF sent.rc # 0 THEN Ends("failed", 0) ELSE job' = [job EXCEPT !.at = "ping wait"]
    /\ UNCHANGED <<ping, pending, names, binds, g_eph, heard>>

PingEnds ==
    /\ Client("ping wait")
    /\ Ends(IF ping[Version].seen THEN "ok" ELSE "timeout", 0)
    /\ UNCHANGED <<bufs, arp, out, stacks, ping, pending, names, binds, g_eph, heard>>

\* dns_resolve up to the cache.
DnsStarts ==
    /\ Client("idle") /\ NewIds # {} /\ names.ticks < MaxResolves
    /\ \E n \in Names :
           LET now == names.ticks + 1
               hits == {i \in DOMAIN names.cache : names.cache[i].name = n /\ now < names.cache[i].expires}
           IN /\ names' = [names EXCEPT !.ticks = now]
              /\ IF hits # {}
                 THEN job' = [Idle0 EXCEPT !.op = "dns", !.dst = n, !.ret = "ok",
                                           !.ip = names.cache[Min(hits)].ip]
                 ELSE job' = [Idle0 EXCEPT !.op = "dns", !.dst = n, !.at = "arp"]
    /\ UNCHANGED <<bufs, arp, out, stacks, ping, pending, binds, g_eph, heard>>

\* The server's address must be resolved before a query is worth sending.
DnsResolvesServer ==
    /\ Client("arp")
    /\ \E short \in BOOLEAN :
           LET looked == arp_lookup(Now, NS) IN
           IF looked.rc = 0
           THEN Does("shell", looked, <<>>) /\ job' = [job EXCEPT !.at = "id"]
           ELSE /\ Does("shell", arp_send_req(looked, "eth", NS, short), <<>>)
                /\ job' = [job EXCEPT !.at = "arp wait"]
    /\ UNCHANGED <<ping, pending, names, binds, g_eph, heard>>

DnsServerResolved ==
    /\ Client("arp wait")
    /\ LET looked == arp_lookup(Now, NS) IN
       /\ Does("shell", looked, <<>>)
       /\ IF looked.rc = 0 THEN job' = [job EXCEPT !.at = "id"] ELSE Ends("unreachable", 0)
    /\ UNCHANGED <<ping, pending, names, binds, g_eph, heard>>

DnsNewId ==
    /\ Client("id")
    /\ \E id \in NewIds :
           /\ pending' = [pending EXCEPT !.id = id]
           /\ job' = [job EXCEPT !.at = "clear", !.id = id]
    /\ UNCHANGED <<bufs, arp, out, stacks, ping, names, binds, g_eph, heard>>

\* Nobody looks at what udp_bind returns: without a binding no answer comes.
\* Mutant: the flag of an earlier answer stays.
DnsBinds_KeepsPending ==
    /\ Client("clear")
    /\ \E bound \in BOOLEAN : binds' = IF bound THEN binds \cup {g_eph} ELSE binds
    /\ g_eph' = (g_eph + 1) % NetPorts
    /\ job' = [job EXCEPT !.at = "dns send", !.port = g_eph]
    /\ UNCHANGED <<bufs, arp, out, stacks, ping, pending, names, heard>>

DnsBinds ==
    /\ Client("clear")
    /\ pending' = [pending EXCEPT !.got = FALSE]
    /\ \E bound \in BOOLEAN : binds' = IF bound THEN binds \cup {g_eph} ELSE binds
    /\ g_eph' = (g_eph + 1) % NetPorts
    /\ job' = [job EXCEPT !.at = "dns send", !.port = g_eph]
    /\ UNCHANGED <<bufs, arp, out, stacks, ping, names, heard>>

DnsSends ==
    /\ Client("dns send")
    /\ \E short \in BOOLEAN :
           LET m == netbuf_alloc(Now, short)
               q == [Frame("query", ME, NS, job.id) EXCEPT !.port = job.port, !.name = job.dst]
           IN IF m.buf = 0 THEN UNCHANGED <<bufs, arp, out, stacks>>
              ELSE Does("shell", ipv4_send(m, "eth", q, m.buf, short), <<>>)
    /\ job' = [job EXCEPT !.at = "dns wait"]
    /\ UNCHANGED <<ping, pending, names, binds, g_eph, heard>>

\* Into the slot of the name, a free one, or the first.
dns_cache_put(n, ip) ==
    LET has(x) == {i \in DOMAIN names.cache : names.cache[i].name = x}
        slot == IF has(n) # {} THEN Min(has(n)) ELSE IF has("") # {} THEN Min(has("")) ELSE 1
    IN [names EXCEPT !.cache[slot] = [name |-> Stored[n], ip |-> ip, expires |-> names.ticks + DNS_TTL]]

DnsEnds ==
    /\ Client("dns wait")
    /\ IF pending.got
       THEN /\ Ends("ok", pending.ip)
            /\ names' = dns_cache_put(job.dst, pending.ip)
            /\ binds' = binds \ {job.port}
       ELSE IF job.round + 1 < DNS_MAX_ROUNDS
       THEN job' = [job EXCEPT !.at = "dns send", !.round = @ + 1] /\ UNCHANGED <<names, binds>>
       ELSE Ends("timeout", 0) /\ binds' = binds \ {job.port} /\ UNCHANGED names
    /\ UNCHANGED <<bufs, arp, out, stacks, ping, pending, g_eph, heard>>

StackNext ==
    \/ \E t \in Threads : ethernet_rx(t) \/ Frees(t) \/ Poll0(t)
    \/ PingStarts \/ PingSends \/ PingEnds
    \/ DnsStarts \/ DnsResolvesServer \/ DnsServerResolved \/ DnsNewId \/ DnsBinds \/ DnsSends \/ DnsEnds

StackSpec == StackInit /\ [][StackNext]_stack_vars

-----------------------------------------------------------------------------
(* A buffer belongs to exactly one call, which frees it once: nothing is leaked  *)
(* when a send fails or an address is not known, and no call has a buffer that   *)
(* is free, however calls nest over the loopback and in the tick.                *)
BuffersOwned ==
    LET all == stacks["shell"] \o stacks["tick"]
    IN /\ \A i, j \in DOMAIN all : all[i].buf = all[j].buf => i = j
       /\ \A b \in Bufs : bufs[b] = "held" <=> \E i \in DOMAIN all : all[i].buf = b

(* What a client reports is so: a ping succeeds when the machine it named has    *)
(* answered this very request, and a name gets one of its own addresses, not     *)
(* what a late answer to an earlier query, or the cache, held for another.       *)
ClientsTold ==
    job.ret = "ok" =>
        \/ job.op \in {"ping", "ping6"} /\ <<job.dst, job.id>> \in heard
        \/ job.op = "dns" /\ job.ip \in AddrOf[job.dst]

NetTrue == BuffersOwned /\ ClientsTold

=============================================================================
