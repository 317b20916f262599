------------------------------ MODULE VirtioNet ------------------------------
(***************************************************************************)
(* The network device of net/virtio_net.c: a receive queue that is polled  *)
(* and a transmit queue that is reclaimed when the next frame is sent.     *)
(*                                                                         *)
(* Both queues are under g_lock with interrupts off, so a transmission is  *)
(* one step; virtio_net_poll drops the lock while ethernet_rx has a frame, *)
(* and another thread may poll meanwhile (net_poll in a system call beside *)
(* the shell, the self-tests or dhcp).  The device moves between any two   *)
(* steps.                                                                  *)
(*                                                                         *)
(* External: the device and the wire.  Frames are numbered as they arrive  *)
(* and as they are sent.  A device with Reuses fills a buffer that the     *)
(* driver has handed back and is still copying out of.                     *)
(***************************************************************************)
EXTENDS Integers, Sequences, FiniteSets, SequencesExt

CONSTANTS ring_num,   \* descriptors of each queue, VQ_SIZE
          Pollers,    \* threads that call virtio_net_poll
          MaxFrames,  \* bound: frames that arrive, and frames sent
          Reuses      \* the device reuses a buffer while it is copied

ASSUME VirtioNetAssumption ==
    ring_num \in Nat \ {0} /\ MaxFrames \in Nat /\ Reuses \in BOOLEAN

Descriptors == 0 .. ring_num - 1

VARIABLES
    rx_avail, rx_used,  \* descriptors at the device, and reported by it
    rx_buf,    \* by descriptor: the frame in its buffer, 0 at first
    arrived,   \* frames that have arrived
    pc,        \* by poller: "idle", "pop", "copy", "deliver"
    held,      \* by poller, in "copy" its descriptor, in "deliver" its frame
    up,        \* what ethernet_rx has been given, in order
    tx_next, tx_head, tx_free,  \* the free list of the transmit queue
    tx_avail, tx_used,
    tx_buf,    \* by descriptor
    accepted,  \* frames virtio_xmit took
    wire       \* frames the device has sent

rx_vars == <<rx_avail, rx_used, rx_buf, arrived, pc, held, up>>
tx_vars == <<tx_next, tx_head, tx_free, tx_avail, tx_used, tx_buf, accepted, wire>>
nvars == <<rx_vars, tx_vars>>

NetInit ==
    /\ rx_avail = [i \in 1 .. ring_num |-> i - 1] /\ rx_used = << >>
    /\ rx_buf = [d \in Descriptors |-> 0]
    /\ arrived = 0
    /\ pc = [p \in Pollers |-> "idle"] /\ held = [p \in Pollers |-> 0]
    /\ up = << >>
    /\ tx_next = [d \in Descriptors |-> (d + 1) % ring_num]
    /\ tx_head = 0 /\ tx_free = ring_num
    /\ tx_avail = << >> /\ tx_used = << >>
    /\ tx_buf = [d \in Descriptors |-> 0]
    /\ accepted = 0 /\ wire = << >>

-----------------------------------------------------------------------------
\* g_lock is held from "pop" through "copy".
LockFree == \A p \in Pollers : pc[p] \in {"idle", "deliver"}

\* The device fills the next buffer with the frame that has arrived.
Arrive ==
    /\ arrived < MaxFrames
    /\ rx_avail # << >>
    /\ LET d == Head(rx_avail)
       IN /\ Reuses \/ \A p \in Pollers : pc[p] = "copy" => held[p] # d
          /\ rx_buf' = [rx_buf EXCEPT ![d] = arrived + 1]
          /\ rx_used' = Append(rx_used, d)
    /\ rx_avail' = Tail(rx_avail)
    /\ arrived' = arrived + 1
    /\ UNCHANGED <<pc, held, up, tx_vars>>

\* virtio_net_poll takes the lock, on entry and after a delivery.
Poll(p) ==
    /\ pc[p] = "idle" /\ LockFree
    /\ pc' = [pc EXCEPT ![p] = "pop"]
    /\ UNCHANGED <<rx_avail, rx_used, rx_buf, arrived, held, up, tx_vars>>

PollEnd(p) ==
    /\ pc[p] = "pop" /\ rx_used = << >>
    /\ pc' = [pc EXCEPT ![p] = "idle"]
    /\ UNCHANGED <<rx_avail, rx_used, rx_buf, arrived, held, up, tx_vars>>

\* Mutant: the reported element is looked at, and not taken.
Taken_Peeked == rx_used
\* last_used moves past the element.
Taken ==
    Tail(rx_used)

\* One element of the used ring; its descriptor goes back to the device
\* before the frame is read.
PollPop(p) ==
    /\ pc[p] = "pop" /\ rx_used # << >>
    /\ rx_used' = Taken
    /\ rx_avail' = Append(rx_avail, Head(rx_used))
    /\ pc' = [pc EXCEPT ![p] = "copy"]
    /\ held' = [held EXCEPT ![p] = Head(rx_used)]
    /\ UNCHANGED <<rx_buf, arrived, up, tx_vars>>

\* The frame goes into a netbuf and the lock is dropped; a frame that is
\* only a header, or finds no netbuf, is dropped.
PollCopy(p, kept) ==
    /\ pc[p] = "copy"
    /\ pc' = [pc EXCEPT ![p] = IF kept THEN "deliver" ELSE "pop"]
    /\ held' = [held EXCEPT ![p] = IF kept THEN rx_buf[held[p]] ELSE 0]
    /\ UNCHANGED <<rx_avail, rx_used, rx_buf, arrived, up, tx_vars>>

\* ethernet_rx without the lock, and the lock again.
Deliver(p) ==
    /\ pc[p] = "deliver" /\ LockFree
    /\ up' = Append(up, held[p])
    /\ pc' = [pc EXCEPT ![p] = "pop"] /\ held' = [held EXCEPT ![p] = 0]
    /\ UNCHANGED <<rx_avail, rx_used, rx_buf, arrived, tx_vars>>

-----------------------------------------------------------------------------
\* The free list after the reported descriptors have been pushed on it.
Reclaimed ==
    LET n == Len(tx_used)
    IN [next |-> [d \in Descriptors |->
            IF \E k \in 1 .. n : tx_used[k] = d
            THEN LET k == CHOOSE k \in 1 .. n : tx_used[k] = d
                 IN IF k = 1 THEN tx_head ELSE tx_used[k - 1]
            ELSE tx_next[d]],
        head |-> IF n = 0 THEN tx_head ELSE tx_used[n],
        free |-> tx_free + n]

\* Mutant: the free list still begins with the descriptor just posted.
Unlinked_Kept(list) == [list EXCEPT !.free = @ - 1]
\* The list without its first descriptor.
Unlinked(list) ==
    [next |-> [list.next EXCEPT ![list.head] = 0], head |-> list.next[list.head],
     free |-> list.free - 1]

\* Mutant: the frame goes into the buffer the list now begins with.
Buffer_Next(list) == list.next[list.head]
\* The buffer a frame goes into.
Buffer(list) ==
    list.head

\* virtio_xmit: reclaim, then post, or drop the frame when nothing is free.
virtio_xmit ==
    /\ accepted < MaxFrames
    /\ LockFree
    /\ tx_used' = << >>
    /\ LET list == Reclaimed
           rest == Unlinked(list)
       IN IF list.free < 1
          THEN /\ tx_next' = list.next /\ tx_head' = list.head /\ tx_free' = list.free
               /\ UNCHANGED <<tx_avail, tx_buf, accepted>>
          ELSE /\ tx_next' = rest.next /\ tx_head' = rest.head /\ tx_free' = rest.free
               /\ tx_buf' = [tx_buf EXCEPT ![Buffer(list)] = accepted + 1]
               /\ tx_avail' = Append(tx_avail, list.head)
               /\ accepted' = accepted + 1
    /\ UNCHANGED <<wire, rx_vars>>

\* The device sends the next frame.
Sent ==
    /\ tx_avail # << >>
    /\ wire' = Append(wire, tx_buf[Head(tx_avail)])
    /\ tx_avail' = Tail(tx_avail)
    /\ tx_used' = Append(tx_used, Head(tx_avail))
    /\ UNCHANGED <<tx_next, tx_head, tx_free, tx_buf, accepted, rx_vars>>

NetNext ==
    \/ Arrive \/ virtio_xmit \/ Sent
    \/ \E p \in Pollers :
         \/ Poll(p) \/ PollEnd(p) \/ PollPop(p) \/ Deliver(p)
         \/ \E kept \in BOOLEAN : PollCopy(p, kept)

NetSpec == NetInit /\ [][NetNext]_nvars

-----------------------------------------------------------------------------
\* A frame that arrives goes up at most once, whoever polls, and none goes up
\* that did not arrive; every receive buffer is at the device or reported,
\* once: the queue never runs dry, whatever was dropped (virtio_net_poll).
Delivering == {p \in Pollers : pc[p] = "deliver"}
ReceiveSound ==
    /\ IsInjective(up)
    /\ \A p, q \in Delivering : held[p] = held[q] => p = q
    /\ \A p \in Delivering : held[p] \notin Range(up)
    /\ Range(up) \union {held[p] : p \in Delivering} \subseteq 1 .. arrived
    /\ Len(rx_avail) + Len(rx_used) = ring_num
    /\ Range(rx_avail) \union Range(rx_used) = Descriptors

\* Frames go out complete, in order and once each, and every transmit
\* descriptor is free, posted or reported (virtio_xmit).
WireTrue ==
    /\ wire = [i \in 1 .. Len(wire) |-> i]
    /\ Len(wire) + Len(tx_avail) = accepted
    /\ tx_free + Len(tx_avail) + Len(tx_used) = ring_num

\* Both directions: no frame is given up twice, lost between the driver and the
\* device or sent out of order, and no buffer leaves its ring (virtio_net.c).
FramesSound == ReceiveSound /\ WireTrue
=============================================================================
