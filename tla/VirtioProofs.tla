----------------------------- MODULE VirtioProofs -----------------------------
(***************************************************************************)
(* The rings.  virtio-net, for rings of any size, any number of pollers    *)
(* and of frames: no frame goes up twice or leaves the machine twice or    *)
(* out of order, and no buffer leaves its ring.  virtio-blk, for a queue   *)
(* and a device of any size, any calls, time-outs and late answers: no     *)
(* descriptor is in two places or lost but descriptor 0, and, with a       *)
(* device that serves in order, what is acknowledged is on the disk and in *)
(* what reads return.  The address of the interface, for any servers,      *)
(* identifiers and rounds: what dhcp_start reported is so and the routes   *)
(* lead where they should; with one server its address is leased.  The     *)
(* network stack, for any hosts, names, buffers and caches: each buffer    *)
(* belongs to one call, and what ping and dns_resolve tell is so.          *)
(***************************************************************************)
EXTENDS VirtioNet, VirtioBlk, Dhcp, NetStack, ListsProofs

-----------------------------------------------------------------------------
(* virtio-net *)

(* Receiving *)

RxTypes ==
    /\ rx_avail \in Seq(Descriptors) /\ rx_used \in Seq(Descriptors)
    /\ rx_buf \in [Descriptors -> Nat]
    /\ arrived \in Nat
    /\ pc \in [Pollers -> {"idle", "pop", "copy", "deliver"}]
    /\ held \in [Pollers -> Nat]
    /\ up \in Seq(Nat)

\* The descriptors are shared out between the device and the used ring.
RxRing ==
    /\ Len(rx_avail) + Len(rx_used) = ring_num
    /\ Range(rx_avail) \union Range(rx_used) = Descriptors
    /\ Range(rx_avail) \intersect Range(rx_used) = {}
    /\ IsInjective(rx_avail) /\ IsInjective(rx_used)

\* One poller has the lock; what it copies is not among the reported.
RxLock ==
    /\ \A p, q \in Pollers : pc[p] \in {"pop", "copy"} /\ pc[q] \in {"pop", "copy"} => p = q
    /\ \A p \in Pollers : pc[p] = "copy" => held[p] \in Range(rx_avail)

\* Buffers with a frame that nobody has yet, and the frames that somebody has.
Filled(d) == d \in Range(rx_used) \/ \E p \in Pollers : pc[p] = "copy" /\ held[p] = d
Gone(f) == f \in Range(up) \/ \E p \in Pollers : pc[p] = "deliver" /\ held[p] = f

RxFrames ==
    /\ \A d \in Descriptors : Filled(d) => rx_buf[d] \in 1 .. arrived /\ ~Gone(rx_buf[d])
    /\ \A d, e \in Descriptors : Filled(d) /\ Filled(e) /\ rx_buf[d] = rx_buf[e] => d = e
    /\ \A f : Gone(f) => f \in 1 .. arrived
    /\ IsInjective(up)
    /\ \A p, q \in Pollers : pc[p] = "deliver" /\ pc[q] = "deliver" /\ held[p] = held[q] => p = q
    /\ \A p \in Pollers : pc[p] = "deliver" => held[p] \notin Range(up)

RxInv == RxTypes /\ RxRing /\ RxLock /\ RxFrames

LEMMA RxInit == NetInit => RxInv
<1> SUFFICES ASSUME NetInit PROVE RxInv
    OBVIOUS
<1>0. ring_num \in Nat /\ ring_num > 0
    BY VirtioNetAssumption
<1>1. /\ rx_avail = [i \in 1 .. ring_num |-> i - 1] /\ rx_used = << >> /\ up = << >>
      /\ rx_buf = [d \in Descriptors |-> 0] /\ arrived = 0
      /\ pc = [p \in Pollers |-> "idle"] /\ held = [p \in Pollers |-> 0]
    BY DEF NetInit
<1>2. \A i \in 1 .. ring_num : i - 1 \in Descriptors
    BY <1>0 DEF Descriptors
<1>3. rx_avail \in Seq(Descriptors) /\ Len(rx_avail) = ring_num /\ DOMAIN rx_avail = 1 .. ring_num
    BY <1>0, <1>1, <1>2
<1>4. rx_used \in Seq(Descriptors) /\ up \in Seq(Nat) /\ DOMAIN rx_used = {} /\ DOMAIN up = {}
      /\ Len(rx_used) = 0
    BY <1>1
<1>5. RxTypes
    BY <1>1, <1>3, <1>4 DEF RxTypes
<1>6. Range(rx_used) = {} /\ Range(up) = {} /\ IsInjective(rx_used) /\ IsInjective(up)
    BY <1>4 DEF Range, IsInjective
<1>7. Range(rx_avail) = Descriptors
    <2>1. \A d \in Descriptors : d + 1 \in DOMAIN rx_avail /\ rx_avail[d + 1] = d
        BY <1>0, <1>1, <1>3 DEF Descriptors
    <2>2. \A i \in DOMAIN rx_avail : rx_avail[i] \in Descriptors
        BY <1>1, <1>2, <1>3
    <2> QED
        BY <2>1, <2>2 DEF Range
<1>8. IsInjective(rx_avail)
    <2>1. \A i \in DOMAIN rx_avail : i \in Int /\ rx_avail[i] = i - 1
        BY <1>0, <1>1, <1>3
    <2> QED
        BY <2>1 DEF IsInjective
<1>9. RxRing
    BY <1>0, <1>3, <1>4, <1>6, <1>7, <1>8 DEF RxRing
<1>10. RxLock
    BY <1>1 DEF RxLock
<1>11. RxFrames
    BY <1>1, <1>6 DEF RxFrames, Filled, Gone
<1> QED
    BY <1>5, <1>9, <1>10, <1>11 DEF RxInv

\* The device fills a buffer that nobody copies with the newest frame.
LEMMA ArriveKeeps ==
    ASSUME RxInv, ~Reuses, Arrive
    PROVE  RxInv'
<1> DEFINE d == Head(rx_avail)
<1>1. /\ rx_avail # << >> /\ rx_avail' = Tail(rx_avail) /\ rx_used' = Append(rx_used, d)
      /\ rx_buf' = [rx_buf EXCEPT ![d] = arrived + 1] /\ arrived' = arrived + 1
      /\ pc' = pc /\ held' = held /\ up' = up
      /\ \A p \in Pollers : pc[p] = "copy" => held[p] # d
    BY DEF Arrive
<1>2. rx_avail \in Seq(Descriptors) /\ rx_used \in Seq(Descriptors) /\ arrived \in Nat
    BY DEF RxInv, RxTypes
<1>3. /\ rx_avail' \in Seq(Descriptors) /\ Len(rx_avail') = Len(rx_avail) - 1 /\ d \in Descriptors
      /\ Range(rx_avail) = Range(rx_avail') \union {d}
      /\ IsInjective(rx_avail') /\ d \notin Range(rx_avail')
    BY <1>1, <1>2, TailFacts DEF RxInv, RxRing
<1>4. d \notin Range(rx_used)
    BY <1>3 DEF RxInv, RxRing
<1> HIDE DEF d
<1>5. /\ rx_used' \in Seq(Descriptors) /\ Len(rx_used') = Len(rx_used) + 1
      /\ Range(rx_used') = Range(rx_used) \union {d}
      /\ IsInjective(rx_used')
    BY <1>1, <1>2, <1>3, <1>4, AppendFacts DEF RxInv, RxRing
<1>6. RxTypes'
    BY <1>1, <1>3, <1>5 DEF RxInv, RxTypes
<1>7. Len(rx_avail') + Len(rx_used') = ring_num
    BY <1>2, <1>3, <1>5 DEF RxInv, RxRing
<1>8. RxRing'
    BY <1>3, <1>4, <1>5, <1>7 DEF RxInv, RxRing
<1>9. RxLock'
    BY <1>1, <1>3 DEF RxInv, RxLock
<1>10. \A e \in Descriptors : rx_buf'[e] = IF e = d THEN arrived + 1 ELSE rx_buf[e]
    BY <1>1, <1>3 DEF RxInv, RxTypes
<1>11. \A e \in Descriptors : Filled(e)' <=> Filled(e) \/ e = d
    BY <1>1, <1>5 DEF Filled
<1>12. \A f : Gone(f)' <=> Gone(f)
    BY <1>1 DEF Gone
<1>13. 1 .. arrived' = 1 .. arrived \union {arrived + 1} /\ arrived + 1 \notin 1 .. arrived
    BY <1>1, <1>2
<1>14. ~Filled(d)
    BY <1>1, <1>4 DEF Filled
<1>15. \A e \in Descriptors : Filled(e)' => rx_buf'[e] \in 1 .. arrived' /\ ~Gone(rx_buf'[e])
    BY <1>10, <1>11, <1>12, <1>13 DEF RxInv, RxFrames
<1>16. \A e, g \in Descriptors : Filled(e)' /\ Filled(g)' /\ rx_buf'[e] = rx_buf'[g] => e = g
    BY <1>10, <1>11, <1>13 DEF RxInv, RxFrames
<1>17. RxFrames'
    BY <1>1, <1>12, <1>13, <1>15, <1>16 DEF RxInv, RxFrames, Gone
<1> QED
    BY <1>6, <1>8, <1>9, <1>17 DEF RxInv

\* What a step of one poller does to the control of all.
LEMMA StepOf ==
    ASSUME RxTypes, NEW p \in Pollers, NEW c, NEW h,
           pc' = [pc EXCEPT ![p] = c], held' = [held EXCEPT ![p] = h] \/ (held' = held /\ h = held[p])
    PROVE  \A q \in Pollers : /\ pc'[q] = IF q = p THEN c ELSE pc[q]
                              /\ held'[q] = IF q = p THEN h ELSE held[q]
BY DEF RxTypes

\* The lock is taken by one poller, or given back with nothing in hand.
LEMMA PollKeeps ==
    ASSUME RxInv, NEW p \in Pollers, Poll(p) \/ PollEnd(p)
    PROVE  RxInv'
<1>1. UNCHANGED <<rx_avail, rx_used, rx_buf, arrived, held, up>>
    BY DEF Poll, PollEnd
<1>2. PICK c \in {"pop", "idle"} :
        /\ pc' = [pc EXCEPT ![p] = c]
        /\ c = "pop" => pc[p] = "idle" /\ LockFree
        /\ c = "idle" => pc[p] = "pop"
    BY DEF Poll, PollEnd
<1>3. \A q \in Pollers : pc'[q] = IF q = p THEN c ELSE pc[q]
    BY <1>2 DEF RxInv, RxTypes
<1>4. RxTypes'
    BY <1>1, <1>2 DEF RxInv, RxTypes
<1>5. RxLock'
    BY <1>1, <1>2, <1>3 DEF RxInv, RxLock, LockFree
<1>6. \A d : Filled(d)' <=> Filled(d)
    BY <1>1, <1>2, <1>3 DEF Filled
<1>7. \A f : Gone(f)' <=> Gone(f)
    BY <1>1, <1>2, <1>3 DEF Gone
<1>8. RxFrames'
    BY <1>1, <1>2, <1>3, <1>6, <1>7 DEF RxInv, RxFrames
<1> QED
    BY <1>1, <1>4, <1>5, <1>8 DEF RxInv, RxRing

\* The reported buffer is the device's again and the poller's to copy.
LEMMA PollPopKeeps ==
    ASSUME RxInv, NEW p \in Pollers, PollPop(p)
    PROVE  RxInv'
<1> DEFINE d == Head(rx_used)
<1>1. /\ rx_used # << >> /\ rx_used' = Tail(rx_used) /\ rx_avail' = Append(rx_avail, d)
      /\ pc[p] = "pop" /\ pc' = [pc EXCEPT ![p] = "copy"] /\ held' = [held EXCEPT ![p] = d]
      /\ UNCHANGED <<rx_buf, arrived, up>>
    BY DEF PollPop, Taken
<1>2. rx_avail \in Seq(Descriptors) /\ rx_used \in Seq(Descriptors)
    BY DEF RxInv, RxTypes
<1>3. /\ rx_used' \in Seq(Descriptors) /\ Len(rx_used') = Len(rx_used) - 1 /\ d \in Descriptors
      /\ Range(rx_used) = Range(rx_used') \union {d}
      /\ IsInjective(rx_used') /\ d \notin Range(rx_used')
    BY <1>1, <1>2, TailFacts DEF RxInv, RxRing
<1>4. d \notin Range(rx_avail)
    BY <1>3 DEF RxInv, RxRing
<1> HIDE DEF d
<1>5. /\ rx_avail' \in Seq(Descriptors) /\ Len(rx_avail') = Len(rx_avail) + 1
      /\ Range(rx_avail') = Range(rx_avail) \union {d}
      /\ IsInjective(rx_avail')
    BY <1>1, <1>2, <1>3, <1>4, AppendFacts DEF RxInv, RxRing
<1>6. d \in Nat
    BY <1>3, VirtioNetAssumption DEF Descriptors
<1>7. \A q \in Pollers : /\ pc'[q] = IF q = p THEN "copy" ELSE pc[q]
                         /\ held'[q] = IF q = p THEN d ELSE held[q]
    BY <1>1 DEF RxInv, RxTypes
<1>8. RxTypes'
    BY <1>1, <1>3, <1>5, <1>6 DEF RxInv, RxTypes
<1>9. Len(rx_avail') + Len(rx_used') = ring_num
    BY <1>2, <1>3, <1>5 DEF RxInv, RxRing
<1>10. RxRing'
    BY <1>3, <1>4, <1>5, <1>9 DEF RxInv, RxRing
<1>11. RxLock'
    BY <1>1, <1>5, <1>7 DEF RxInv, RxLock
<1>12. \A q \in Pollers : pc[q] # "copy"
    BY <1>1 DEF RxInv, RxLock
<1>13. \A e : Filled(e)' <=> Filled(e)
    BY <1>3, <1>7, <1>12 DEF Filled
<1>14. \A f : Gone(f)' <=> Gone(f)
    BY <1>1, <1>7 DEF Gone
<1>15. RxFrames'
    BY <1>1, <1>7, <1>13, <1>14 DEF RxInv, RxFrames
<1> QED
    BY <1>8, <1>10, <1>11, <1>15 DEF RxInv

\* The copied frame is the poller's, and the lock is free; or it is dropped.
LEMMA PollCopyKeeps ==
    ASSUME RxInv, NEW p \in Pollers, NEW kept \in BOOLEAN, PollCopy(p, kept)
    PROVE  RxInv'
<1> DEFINE d == held[p]
           c == IF kept THEN "deliver" ELSE "pop"
           h == IF kept THEN rx_buf[d] ELSE 0
<1>1. /\ pc[p] = "copy" /\ pc' = [pc EXCEPT ![p] = c] /\ held' = [held EXCEPT ![p] = h]
      /\ UNCHANGED <<rx_avail, rx_used, rx_buf, arrived, up>>
    BY DEF PollCopy
<1>2. d \in Descriptors /\ Filled(d)
    BY <1>1 DEF RxInv, RxRing, RxLock, Filled
<1>3. rx_buf[d] \in 1 .. arrived /\ ~Gone(rx_buf[d]) /\ rx_buf[d] \in Nat
    BY <1>2 DEF RxInv, RxTypes, RxFrames
<1>4. d \notin Range(rx_used)
    BY <1>1 DEF RxInv, RxRing, RxLock
<1>5. \A q \in Pollers : /\ pc'[q] = IF q = p THEN c ELSE pc[q]
                         /\ held'[q] = IF q = p THEN h ELSE held[q]
    BY <1>1 DEF RxInv, RxTypes
<1>6. \A q \in Pollers : q # p => pc[q] \notin {"pop", "copy"}
    BY <1>1 DEF RxInv, RxLock
<1>7. RxTypes'
    BY <1>1, <1>3 DEF RxInv, RxTypes
<1>8. RxLock'
    BY <1>1, <1>5, <1>6 DEF RxInv, RxLock
<1>9. \A e \in Descriptors : Filled(e)' <=> Filled(e) /\ e # d
    BY <1>1, <1>4, <1>5, <1>6 DEF Filled
<1>10. \A f : Gone(f)' <=> Gone(f) \/ (kept /\ f = rx_buf[d])
    BY <1>1, <1>5 DEF Gone
<1>11. RxFrames'
    <2>1. \A e \in Descriptors : Filled(e)' => rx_buf[e] \in 1 .. arrived /\ ~Gone(rx_buf[e])'
        <3> SUFFICES ASSUME NEW e \in Descriptors, Filled(e)'
                     PROVE  rx_buf[e] \in 1 .. arrived /\ ~Gone(rx_buf[e])'
            OBVIOUS
        <3>1. Filled(e) /\ e # d
            BY <1>9
        <3>2. rx_buf[e] \in 1 .. arrived /\ ~Gone(rx_buf[e]) /\ rx_buf[e] # rx_buf[d]
            BY <1>2, <3>1 DEF RxInv, RxFrames
        <3>3. \A f : Gone(f)' => Gone(f) \/ f = rx_buf[d]
            BY <1>10
        <3> HIDE DEF d
        <3> QED
            BY <1>1, <3>2, <3>3
    <2>2. \A e, g \in Descriptors : Filled(e)' /\ Filled(g)' /\ rx_buf'[e] = rx_buf'[g] => e = g
        BY <1>1, <1>9 DEF RxInv, RxFrames
    <2>3. \A f : Gone(f)' => f \in 1 .. arrived'
        BY <1>1, <1>3, <1>10 DEF RxInv, RxFrames
    <2>4. \A q \in Pollers : pc'[q] = "deliver" =>
            held'[q] \notin Range(up) /\ (q # p => pc[q] = "deliver" /\ held'[q] = held[q])
                /\ (q = p => held'[q] = rx_buf[d])
        BY <1>3, <1>5 DEF RxInv, RxFrames, Gone
    <2>5. \A q \in Pollers : pc[q] = "deliver" => held[q] # rx_buf[d]
        BY <1>3 DEF Gone
    <2>6. \A q, r \in Pollers : pc'[q] = "deliver" /\ pc'[r] = "deliver" /\ held'[q] = held'[r] => q = r
        BY <2>4, <2>5 DEF RxInv, RxFrames
    <2>7. \A e \in Descriptors : Filled(e)' => rx_buf'[e] \in 1 .. arrived' /\ ~Gone(rx_buf[e])'
        BY <1>1, <2>1
    <2>8. IsInjective(up')
        BY <1>1 DEF RxInv, RxFrames
    <2> QED
        BY <1>1, <2>2, <2>3, <2>4, <2>6, <2>7, <2>8 DEF RxFrames
<1> QED
    BY <1>1, <1>7, <1>8, <1>11 DEF RxInv, RxRing

\* The frame goes up, and the poller has the lock again.
LEMMA DeliverKeeps ==
    ASSUME RxInv, NEW p \in Pollers, Deliver(p)
    PROVE  RxInv'
<1> DEFINE f == held[p]
<1>1. /\ pc[p] = "deliver" /\ LockFree /\ up' = Append(up, f)
      /\ pc' = [pc EXCEPT ![p] = "pop"] /\ held' = [held EXCEPT ![p] = 0]
      /\ UNCHANGED <<rx_avail, rx_used, rx_buf, arrived>>
    BY DEF Deliver
<1>2. f \in Nat /\ up \in Seq(Nat) /\ f \notin Range(up)
    BY <1>1 DEF RxInv, RxTypes, RxFrames
<1>3. \A q \in Pollers : /\ pc'[q] = IF q = p THEN "pop" ELSE pc[q]
                         /\ held'[q] = IF q = p THEN 0 ELSE held[q]
    BY <1>1 DEF RxInv, RxTypes
<1>4. \A q \in Pollers : q # p /\ pc[q] = "deliver" => held[q] # f
    BY <1>1 DEF RxInv, RxFrames
<1>5. Gone(f)
    BY <1>1 DEF Gone
<1> HIDE DEF f
<1>6. up' \in Seq(Nat) /\ Range(up') = Range(up) \union {f} /\ IsInjective(up')
    BY <1>1, <1>2, AppendFacts DEF RxInv, RxFrames
<1>7. RxTypes'
    BY <1>1, <1>6 DEF RxInv, RxTypes
<1>8. RxLock'
    BY <1>1, <1>3 DEF RxInv, RxLock, LockFree
<1>9. \A d : Filled(d)' <=> Filled(d)
    BY <1>1, <1>3 DEF Filled
<1>10. \A g : Gone(g)' <=> Gone(g)
    BY <1>1, <1>3, <1>5, <1>6 DEF Gone, f
<1>11. \A q \in Pollers : pc'[q] = "deliver" => held'[q] \notin Range(up')
    BY <1>3, <1>4, <1>6 DEF RxInv, RxFrames
<1>12. RxFrames'
    BY <1>1, <1>3, <1>6, <1>9, <1>10, <1>11 DEF RxInv, RxFrames
<1> QED
    BY <1>1, <1>7, <1>8, <1>12 DEF RxInv, RxRing

-----------------------------------------------------------------------------
(* Sending *)

TxTypes ==
    /\ tx_next \in [Descriptors -> Descriptors] /\ tx_head \in Descriptors /\ tx_free \in Nat
    /\ tx_avail \in Seq(Descriptors) /\ tx_used \in Seq(Descriptors)
    /\ tx_buf \in [Descriptors -> Nat]
    /\ accepted \in Nat /\ wire \in Seq(Nat)

\* A free list: g is the way through it, as long as its count says.
Path(successor, head, free, g) ==
    /\ g \in Seq(Descriptors) /\ Len(g) = free /\ IsInjective(g)
    /\ free > 0 => g[1] = head
    /\ \A i \in 1 .. free - 1 : successor[g[i]] = g[i + 1]

TxRing ==
    /\ tx_free + Len(tx_avail) + Len(tx_used) = ring_num
    /\ IsInjective(tx_avail) /\ IsInjective(tx_used)
    /\ Range(tx_avail) \intersect Range(tx_used) = {}
    /\ \E g : /\ Path(tx_next, tx_head, tx_free, g)
             /\ Range(g) \intersect (Range(tx_avail) \union Range(tx_used)) = {}

\* What is posted are the frames that follow those on the wire.
TxWire ==
    /\ \A i \in 1 .. Len(wire) : wire[i] = i
    /\ Len(wire) + Len(tx_avail) = accepted
    /\ \A k \in 1 .. Len(tx_avail) : tx_buf[tx_avail[k]] = Len(wire) + k

TxInv == TxTypes /\ TxRing /\ TxWire

LEMMA TxInit == NetInit => TxInv
<1> SUFFICES ASSUME NetInit PROVE TxInv
    OBVIOUS
<1>0. ring_num \in Nat /\ ring_num > 0
    BY VirtioNetAssumption
<1>1. /\ tx_next = [d \in Descriptors |-> (d + 1) % ring_num] /\ tx_head = 0 /\ tx_free = ring_num
      /\ tx_avail = << >> /\ tx_used = << >> /\ tx_buf = [d \in Descriptors |-> 0]
      /\ accepted = 0 /\ wire = << >>
    BY DEF NetInit
<1>2. \A d \in Descriptors : (d + 1) % ring_num \in Descriptors /\ d \in Nat
    BY <1>0 DEF Descriptors
<1>3. tx_avail \in Seq(Descriptors) /\ tx_used \in Seq(Descriptors) /\ wire \in Seq(Nat)
      /\ Len(tx_avail) = 0 /\ Len(tx_used) = 0 /\ Len(wire) = 0
      /\ DOMAIN tx_avail = {} /\ DOMAIN tx_used = {}
    BY <1>1
<1>4. TxTypes
    <2>1. 0 \in Descriptors
        BY <1>0 DEF Descriptors
    <2>2. tx_next \in [Descriptors -> Descriptors]
        BY <1>1, <1>2
    <2> QED
        BY <1>0, <1>1, <1>3, <2>1, <2>2 DEF TxTypes
<1>5. TxWire
    BY <1>1, <1>3 DEF TxWire
<1> DEFINE g == [i \in 1 .. ring_num |-> i - 1]
<1>6. \A i \in 1 .. ring_num : i - 1 \in Descriptors
    BY <1>0 DEF Descriptors
<1>7. g \in Seq(Descriptors) /\ Len(g) = ring_num /\ DOMAIN g = 1 .. ring_num
    BY <1>0, <1>6
<1>8. \A i \in 1 .. ring_num : g[i] = i - 1
    OBVIOUS
<1> HIDE DEF g
<1>9. IsInjective(g)
    BY <1>0, <1>7, <1>8 DEF IsInjective
<1>10. \A i \in 1 .. ring_num - 1 : tx_next[g[i]] = g[i + 1]
    <2> SUFFICES ASSUME NEW i \in 1 .. ring_num - 1 PROVE tx_next[g[i]] = g[i + 1]
        OBVIOUS
    <2>1. g[i] = i - 1 /\ g[i + 1] = i /\ i - 1 \in Descriptors
        BY <1>0, <1>8 DEF Descriptors
    <2>2. (i - 1 + 1) % ring_num = i
        BY <1>0
    <2> QED
        BY <1>1, <2>1, <2>2
<1>11. Path(tx_next, tx_head, tx_free, g)
    BY <1>0, <1>1, <1>7, <1>8, <1>9, <1>10 DEF Path
<1>12. IsInjective(tx_avail) /\ IsInjective(tx_used) /\ Range(tx_avail) = {} /\ Range(tx_used) = {}
    BY <1>3 DEF IsInjective, Range
<1>13. TxRing
    <2>1. tx_free + Len(tx_avail) + Len(tx_used) = ring_num
        BY <1>0, <1>1, <1>3
    <2>2. Range(tx_avail) \intersect Range(tx_used) = {}
          /\ Range(g) \intersect (Range(tx_avail) \union Range(tx_used)) = {}
        BY <1>12
    <2> QED
        BY <1>11, <1>12, <2>1, <2>2 DEF TxRing
<1> QED
    BY <1>4, <1>5, <1>13 DEF TxInv

\* The device sends the frame that follows.
LEMMA SentKeeps ==
    ASSUME TxInv, Sent
    PROVE  TxInv'
<1> DEFINE d == Head(tx_avail)
<1>1. /\ tx_avail # << >> /\ wire' = Append(wire, tx_buf[d])
      /\ tx_avail' = Tail(tx_avail) /\ tx_used' = Append(tx_used, d)
      /\ UNCHANGED <<tx_next, tx_head, tx_free, tx_buf, accepted>>
    BY DEF Sent
<1>2. tx_avail \in Seq(Descriptors) /\ tx_used \in Seq(Descriptors) /\ wire \in Seq(Nat)
    BY DEF TxInv, TxTypes
<1>3. /\ tx_avail' \in Seq(Descriptors) /\ Len(tx_avail') = Len(tx_avail) - 1 /\ d \in Descriptors
      /\ \A i \in 1 .. Len(tx_avail') : tx_avail'[i] = tx_avail[i + 1]
      /\ d = tx_avail[1]
      /\ Range(tx_avail) = Range(tx_avail') \union {d}
      /\ IsInjective(tx_avail') /\ d \notin Range(tx_avail')
    BY <1>1, <1>2, TailFacts DEF TxInv, TxRing
<1>4. d \notin Range(tx_used)
    BY <1>3 DEF TxInv, TxRing
<1>5. Len(tx_avail) \in Nat /\ Len(tx_avail) > 0 /\ Len(wire) \in Nat /\ Len(tx_used) \in Nat
    BY <1>1, <1>2
<1> HIDE DEF d
<1>6. /\ tx_used' \in Seq(Descriptors) /\ Len(tx_used') = Len(tx_used) + 1
      /\ Range(tx_used') = Range(tx_used) \union {d}
      /\ IsInjective(tx_used')
    BY <1>1, <1>2, <1>3, <1>4, AppendFacts DEF TxInv, TxRing
<1>7. tx_buf[d] = Len(wire) + 1 /\ tx_buf[d] \in Nat
    BY <1>3, <1>5 DEF TxInv, TxTypes, TxWire
<1>8. /\ wire' \in Seq(Nat) /\ Len(wire') = Len(wire) + 1
      /\ \A i \in 1 .. Len(wire) : wire'[i] = wire[i]
      /\ wire'[Len(wire) + 1] = tx_buf[d]
    BY <1>1, <1>2, <1>7, AppendFacts
<1>9. TxTypes'
    BY <1>1, <1>3, <1>6, <1>8 DEF TxInv, TxTypes
<1>10. TxRing'
    <2>1. tx_free' + Len(tx_avail') + Len(tx_used') = ring_num
        BY <1>1, <1>3, <1>5, <1>6 DEF TxInv, TxTypes, TxRing
    <2>2. PICK g : /\ Path(tx_next, tx_head, tx_free, g)
                   /\ Range(g) \intersect (Range(tx_avail) \union Range(tx_used)) = {}
        BY DEF TxInv, TxRing
    <2>3. Range(g) \intersect (Range(tx_avail') \union Range(tx_used')) = {}
        BY <1>3, <1>6, <2>2
    <2>4. Path(tx_next', tx_head', tx_free', g)
        BY <1>1, <2>2
    <2>5. Range(tx_avail') \intersect Range(tx_used') = {}
        BY <1>3, <1>6 DEF TxInv, TxRing
    <2> QED
        BY <1>3, <1>6, <2>1, <2>3, <2>4, <2>5 DEF TxRing
<1>11. TxWire'
    <2>1. \A i \in 1 .. Len(wire') : wire'[i] = i
        BY <1>5, <1>7, <1>8 DEF TxInv, TxWire
    <2>2. Len(wire') + Len(tx_avail') = accepted'
        BY <1>1, <1>3, <1>5, <1>8 DEF TxInv, TxWire
    <2>3. \A k \in 1 .. Len(tx_avail') : tx_buf'[tx_avail'[k]] = Len(wire') + k
        <3> SUFFICES ASSUME NEW k \in 1 .. Len(tx_avail')
                     PROVE  tx_buf'[tx_avail'[k]] = Len(wire') + k
            OBVIOUS
        <3>1. k + 1 \in 1 .. Len(tx_avail) /\ tx_avail'[k] = tx_avail[k + 1] /\ k \in Int
            BY <1>3, <1>5
        <3>2. tx_buf[tx_avail[k + 1]] = Len(wire) + (k + 1)
            BY <3>1 DEF TxInv, TxWire
        <3> QED
            BY <1>1, <1>5, <1>8, <3>1, <3>2
    <2> QED
        BY <2>1, <2>2, <2>3 DEF TxWire
<1> QED
    BY <1>9, <1>10, <1>11 DEF TxInv

\* What is pushed on a stack, the last one first, and what was there before.
LEMMA PushedFacts ==
    ASSUME NEW s \in Seq(Descriptors), NEW f \in Seq(Descriptors),
           IsInjective(s), IsInjective(f), Range(s) \intersect Range(f) = {}
    PROVE  \E g \in [1 .. Len(s) + Len(f) -> Descriptors] :
              /\ \A i \in 1 .. Len(s) : g[i] = s[Len(s) + 1 - i]
              /\ \A j \in 1 .. Len(f) : g[Len(s) + j] = f[j]
              /\ IsInjective(g)
              /\ Range(g) = Range(f) \union Range(s)
<1>a. PICK n \in Nat : n = Len(s) /\ s \in [1 .. n -> Descriptors]
    OBVIOUS
<1>b. PICK m \in Nat : m = Len(f) /\ f \in [1 .. m -> Descriptors]
    OBVIOUS
<1>c. PICK g : g = [i \in 1 .. n + m |-> IF i <= n THEN s[n + 1 - i] ELSE f[i - n]]
    OBVIOUS
<1>1. \A i \in 1 .. n : i \in 1 .. n + m /\ n + 1 - i \in 1 .. n /\ g[i] = s[n + 1 - i]
    BY <1>c
<1>2. \A j \in 1 .. m : n + j \in 1 .. n + m /\ g[n + j] = f[j]
    BY <1>c
<1>3. \A i \in 1 .. n + m : i \in 1 .. n \/ \E j \in 1 .. m : i = n + j
    <2> SUFFICES ASSUME NEW i \in 1 .. n + m, i \notin 1 .. n PROVE \E j \in 1 .. m : i = n + j
        OBVIOUS
    <2>1. i - n \in 1 .. m /\ i = n + (i - n)
        OBVIOUS
    <2> QED
        BY <2>1
<1>4. DOMAIN g = 1 .. n + m /\ DOMAIN s = 1 .. n /\ DOMAIN f = 1 .. m
      /\ g = [i \in 1 .. n + m |-> g[i]]
    BY <1>a, <1>b, <1>c
<1>5. \A i \in 1 .. n + m : g[i] \in Descriptors
    <2> SUFFICES ASSUME NEW i \in 1 .. n + m PROVE g[i] \in Descriptors
        OBVIOUS
    <2>1. CASE i \in 1 .. n
        BY <1>1, <1>a, <2>1
    <2>2. CASE \E j \in 1 .. m : i = n + j
        BY <1>2, <1>b, <2>2
    <2> QED
        BY <1>3, <2>1, <2>2
<1>6. Range(g) = Range(f) \union Range(s)
    <2>1. ASSUME NEW i \in 1 .. n + m PROVE g[i] \in Range(f) \union Range(s)
        <3>1. CASE i \in 1 .. n
            BY <1>1, <1>4, <3>1 DEF Range
        <3>2. CASE \E j \in 1 .. m : i = n + j
            BY <1>2, <1>4, <3>2 DEF Range
        <3> QED
            BY <1>3, <3>1, <3>2
    <2>2. ASSUME NEW k \in 1 .. n PROVE s[k] \in Range(g)
        <3>1. n + 1 - k \in 1 .. n /\ n + 1 - (n + 1 - k) = k
            OBVIOUS
        <3>2. g[n + 1 - k] = s[k] /\ n + 1 - k \in DOMAIN g
            BY <1>1, <1>4, <3>1
        <3> QED
            BY <3>2 DEF Range
    <2>3. ASSUME NEW j \in 1 .. m PROVE f[j] \in Range(g)
        BY <1>2, <1>4 DEF Range
    <2>4. Range(g) \subseteq Range(f) \union Range(s)
        BY <1>4, <2>1 DEF Range
    <2>5. Range(f) \subseteq Range(g) /\ Range(s) \subseteq Range(g)
        BY <1>4, <2>2, <2>3 DEF Range
    <2> QED
        BY <2>4, <2>5
<1>7. \A k, l \in 1 .. n : s[k] = s[l] => k = l
    BY <1>4 DEF IsInjective
<1>8. \A k, l \in 1 .. m : f[k] = f[l] => k = l
    BY <1>4 DEF IsInjective
<1>9. \A k \in 1 .. n, l \in 1 .. m : s[k] # f[l]
    BY <1>4 DEF Range
<1>10. \A i, j \in 1 .. n + m : g[i] = g[j] => i = j
    <2> SUFFICES ASSUME NEW i \in 1 .. n + m, NEW j \in 1 .. n + m, g[i] = g[j] PROVE i = j
        OBVIOUS
    <2>1. CASE i \in 1 .. n /\ j \in 1 .. n
        <3>1. n + 1 - i = n + 1 - j
            BY <1>1, <1>7, <2>1
        <3> QED
            BY <3>1
    <2>2. ASSUME NEW k \in 1 .. m, NEW l \in 1 .. m, i = n + k, j = n + l PROVE i = j
        BY <1>2, <1>8, <2>2
    <2>3. ASSUME i \in 1 .. n, NEW l \in 1 .. m, j = n + l PROVE FALSE
        BY <1>1, <1>2, <1>9, <2>3
    <2>4. ASSUME j \in 1 .. n, NEW k \in 1 .. m, i = n + k PROVE FALSE
        BY <1>1, <1>2, <1>9, <2>4
    <2> QED
        BY <1>3, <2>1, <2>2, <2>3, <2>4
<1>11. IsInjective(g)
    BY <1>4, <1>10 DEF IsInjective
<1>12. g \in [1 .. n + m -> Descriptors]
    BY <1>4, <1>5
<1>13. (\A i \in 1 .. n : g[i] = s[n + 1 - i]) /\ \A j \in 1 .. m : g[n + j] = f[j]
    BY <1>1, <1>2
<1> QED
    BY <1>6, <1>11, <1>12, <1>13, <1>a, <1>b

\* The reported descriptors are pushed on the free list, the last one first.
LEMMA ReclaimedPath ==
    ASSUME TxTypes, IsInjective(tx_used), NEW f, Path(tx_next, tx_head, tx_free, f),
           Range(f) \intersect Range(tx_used) = {}
    PROVE  /\ Reclaimed.next \in [Descriptors -> Descriptors] /\ Reclaimed.head \in Descriptors
           /\ Reclaimed.free = tx_free + Len(tx_used)
           /\ \E g : /\ Path(Reclaimed.next, Reclaimed.head, Reclaimed.free, g)
                    /\ Range(g) = Range(f) \union Range(tx_used)
<1>1. PICK n \in Nat : n = Len(tx_used) /\ tx_used \in [1 .. n -> Descriptors]
    BY DEF TxTypes
<1>2. PICK m \in Nat : m = tx_free /\ f \in [1 .. m -> Descriptors]
    BY DEF TxTypes, Path
<1> DEFINE at(d) == CHOOSE k \in 1 .. n : tx_used[k] = d
           nxt == [d \in Descriptors |->
                      IF \E k \in 1 .. n : tx_used[k] = d
                      THEN IF at(d) = 1 THEN tx_head ELSE tx_used[at(d) - 1]
                      ELSE tx_next[d]]
           hd == IF n = 0 THEN tx_head ELSE tx_used[n]
<1>3. Reclaimed = [next |-> nxt, head |-> hd, free |-> m + n]
    BY <1>1, <1>2 DEF Reclaimed
<1>4. PICK g \in [1 .. n + m -> Descriptors] :
      /\ \A i \in 1 .. n : g[i] = tx_used[n + 1 - i]
      /\ \A j \in 1 .. m : g[n + j] = f[j]
      /\ IsInjective(g)
      /\ Range(g) = Range(f) \union Range(tx_used)
    <2>1. /\ tx_used \in Seq(Descriptors) /\ f \in Seq(Descriptors) /\ IsInjective(f)
          /\ Len(tx_used) = n /\ Len(f) = m
        BY <1>1, <1>2 DEF Path, TxTypes
    <2>2. Range(tx_used) \intersect Range(f) = {}
        OBVIOUS
    <2> QED
        BY <2>1, <2>2, PushedFacts
<1>5. \A k \in 1 .. n : at(tx_used[k]) = k
    BY <1>1 DEF IsInjective
<1>6. \A d : (\E k \in 1 .. n : tx_used[k] = d) => at(d) \in 1 .. n
    OBVIOUS
<1> HIDE DEF at
<1>7. tx_head \in Descriptors /\ tx_next \in [Descriptors -> Descriptors]
    BY DEF TxTypes
<1>8. hd \in Descriptors
    BY <1>1, <1>7
<1>9. nxt \in [Descriptors -> Descriptors]
    <2> SUFFICES ASSUME NEW d \in Descriptors PROVE nxt[d] \in Descriptors
        OBVIOUS
    <2>1. CASE \E k \in 1 .. n : tx_used[k] = d
        <3>1. at(d) \in 1 .. n
            BY <1>6, <2>1
        <3>2. at(d) # 1 => at(d) - 1 \in 1 .. n
            BY <3>1
        <3> QED
            BY <1>1, <1>7, <2>1, <3>2
    <2>2. CASE ~ \E k \in 1 .. n : tx_used[k] = d
        BY <1>7, <2>2
    <2> QED
        BY <2>1, <2>2
<1>10. \A k \in 1 .. n : nxt[tx_used[k]] = IF k = 1 THEN tx_head ELSE tx_used[k - 1]
    BY <1>1, <1>5
<1>11. \A j \in 1 .. m : nxt[f[j]] = tx_next[f[j]]
    <2> SUFFICES ASSUME NEW j \in 1 .. m PROVE nxt[f[j]] = tx_next[f[j]]
        OBVIOUS
    <2>1. f[j] \in Range(f) /\ f[j] \in Descriptors
        BY <1>2 DEF Range
    <2>2. \A k \in 1 .. n : tx_used[k] \in Range(tx_used)
        BY <1>1 DEF Range
    <2> QED
        BY <2>1, <2>2
<1>12. m > 0 => f[1] = tx_head
    BY <1>2 DEF Path
<1>13. \A j \in 1 .. m - 1 : tx_next[f[j]] = f[j + 1]
    BY <1>2 DEF Path
<1> HIDE DEF nxt
<1>14. ASSUME NEW i \in 1 .. n + m - 1 PROVE nxt[g[i]] = g[i + 1]
    <2>1. CASE i < n
        <3>1. n + 1 - i \in 1 .. n /\ i \in 1 .. n /\ i + 1 \in 1 .. n /\ n + 1 - i # 1
              /\ n + 1 - (i + 1) = n + 1 - i - 1
            BY <2>1
        <3>2. g[i] = tx_used[n + 1 - i] /\ g[i + 1] = tx_used[n + 1 - i - 1]
            BY <1>4, <3>1
        <3> QED
            BY <1>10, <3>1, <3>2
    <2>2. CASE i = n
        <3>1. 1 \in 1 .. n /\ 1 \in 1 .. m /\ m > 0 /\ i \in 1 .. n /\ n + 1 - i = 1 /\ i + 1 = n + 1
            BY <2>2
        <3>2. g[i] = tx_used[1] /\ g[i + 1] = f[1]
            BY <1>4, <3>1
        <3> QED
            BY <1>10, <1>12, <3>1, <3>2
    <2>3. CASE i > n
        <3>1. i - n \in 1 .. m - 1 /\ i - n \in 1 .. m /\ i - n + 1 \in 1 .. m
              /\ n + (i - n) = i /\ n + (i - n + 1) = i + 1
            BY <2>3
        <3>2. g[i] = f[i - n] /\ g[i + 1] = f[i - n + 1]
            BY <1>4, <3>1
        <3> QED
            BY <1>11, <1>13, <3>1, <3>2
    <2> QED
        BY <2>1, <2>2, <2>3
<1>15. m + n > 0 => g[1] = hd
    <2>1. CASE n > 0
        BY <1>4, <2>1
    <2>2. ASSUME n = 0, m > 0 PROVE g[1] = hd
        <3>1. 1 \in 1 .. m /\ n + 1 = 1
            BY <2>2
        <3> QED
            BY <1>4, <1>12, <2>2, <3>1
    <2> QED
        BY <2>1, <2>2
<1> HIDE DEF hd
<1>16. g \in Seq(Descriptors) /\ Len(g) = m + n
    BY <1>4
<1>17. Path(nxt, hd, m + n, g)
    <2>1. m + n - 1 = n + m - 1
        OBVIOUS
    <2> QED
        BY <1>4, <1>14, <1>15, <1>16, <2>1 DEF Path
<1> QED
    BY <1>1, <1>2, <1>3, <1>4, <1>8, <1>9, <1>17

\* The first free descriptor is taken off the list.
LEMMA UnlinkedPath ==
    ASSUME NEW successor \in [Descriptors -> Descriptors], NEW head \in Descriptors, NEW free \in Nat,
           free > 0, NEW g, Path(successor, head, free, g), NEW rest,
           rest = Unlinked([next |-> successor, head |-> head, free |-> free])
    PROVE  /\ rest.next \in [Descriptors -> Descriptors] /\ rest.head \in Descriptors
           /\ rest.free = free - 1
           /\ Path(rest.next, rest.head, rest.free, Tail(g))
           /\ Range(g) = Range(Tail(g)) \union {head} /\ head \notin Range(Tail(g))
<1> DEFINE nxt == [successor EXCEPT ![head] = 0]
           r == Tail(g)
<1>1. rest = [next |-> nxt, head |-> successor[head], free |-> free - 1]
    BY DEF Unlinked
<1>2. g \in Seq(Descriptors) /\ Len(g) = free /\ IsInjective(g) /\ g[1] = head
      /\ \A i \in 1 .. free - 1 : successor[g[i]] = g[i + 1]
    BY DEF Path
<1>3. g # << >>
    BY <1>2
<1>4. /\ r \in Seq(Descriptors) /\ Len(r) = free - 1
      /\ \A i \in 1 .. free - 1 : r[i] = g[i + 1]
      /\ IsInjective(r) /\ head \notin Range(r) /\ Range(g) = Range(r) \union {head}
    BY <1>2, <1>3, TailFacts
<1> HIDE DEF r
<1>5. nxt \in [Descriptors -> Descriptors]
    <2>1. 0 \in Descriptors
        BY VirtioNetAssumption DEF Descriptors
    <2> QED
        BY <2>1
<1>6. successor[head] \in Descriptors
    OBVIOUS
<1>7. free - 1 > 0 => r[1] = successor[head]
    <2> SUFFICES ASSUME free - 1 > 0 PROVE r[1] = successor[head]
        OBVIOUS
    <2>1. 1 \in 1 .. free - 1
        OBVIOUS
    <2> QED
        BY <1>2, <1>4, <2>1
<1>8. \A i \in 1 .. free - 1 - 1 : nxt[r[i]] = r[i + 1]
    <2> SUFFICES ASSUME NEW i \in 1 .. free - 1 - 1 PROVE nxt[r[i]] = r[i + 1]
        OBVIOUS
    <2>1. i \in 1 .. free - 1 /\ i + 1 \in 1 .. free - 1 /\ i \in DOMAIN r
        BY <1>4
    <2>2. r[i] \in Range(r) /\ r[i] \in Descriptors
        BY <1>4, <2>1 DEF Range
    <2>3. nxt[r[i]] = successor[r[i]]
        BY <1>4, <2>2
    <2> QED
        BY <1>2, <1>4, <2>1, <2>3
<1>9. Path(nxt, successor[head], free - 1, r)
    BY <1>4, <1>7, <1>8 DEF Path
<1> QED
    <2> HIDE DEF nxt
    <2>1. rest.next = nxt /\ rest.head = successor[head] /\ rest.free = free - 1
        BY <1>1
    <2>2. Path(rest.next, rest.head, rest.free, r)
        BY <1>9, <2>1
    <2>3. rest.next \in [Descriptors -> Descriptors] /\ rest.head \in Descriptors
        BY <1>5, <1>6, <2>1
    <2> QED
        BY <1>4, <2>1, <2>2, <2>3 DEF r

\* A transmission reclaims what is reported, then posts a free descriptor or none.
LEMMA virtio_xmitKeeps ==
    ASSUME TxInv, virtio_xmit
    PROVE  TxInv'
<1> DEFINE list == Reclaimed
           rest == Unlinked(list)
           h == list.head
<1>1. tx_used' = << >> /\ wire' = wire
    BY DEF virtio_xmit
<1>2. PICK f : /\ Path(tx_next, tx_head, tx_free, f)
               /\ Range(f) \intersect (Range(tx_avail) \union Range(tx_used)) = {}
    BY DEF TxInv, TxRing
<1>3. TxTypes /\ IsInjective(tx_used) /\ IsInjective(tx_avail)
      /\ Range(tx_avail) \intersect Range(tx_used) = {}
      /\ Range(f) \intersect Range(tx_used) = {}
    BY <1>2 DEF TxInv, TxRing
<1>4. /\ list.next \in [Descriptors -> Descriptors] /\ list.head \in Descriptors
      /\ list.free = tx_free + Len(tx_used)
      /\ \E g : /\ Path(list.next, list.head, list.free, g)
               /\ Range(g) = Range(f) \union Range(tx_used)
    BY <1>2, <1>3, ReclaimedPath
<1>5. PICK g : /\ Path(list.next, list.head, list.free, g)
               /\ Range(g) = Range(f) \union Range(tx_used)
    BY <1>4
<1>6. Range(g) \intersect Range(tx_avail) = {}
    BY <1>2, <1>3, <1>5
<1>7. /\ tx_free \in Nat /\ Len(tx_used) \in Nat /\ Len(tx_avail) \in Nat /\ Len(wire) \in Nat
      /\ accepted \in Nat /\ list.free \in Nat
    BY <1>3, <1>4 DEF TxTypes
<1>8. list = [next |-> list.next, head |-> list.head, free |-> list.free]
    BY DEF Reclaimed
<1>9. /\ tx_used' \in Seq(Descriptors) /\ Len(tx_used') = 0 /\ Range(tx_used') = {}
      /\ IsInjective(tx_used')
    <2>1. tx_used' \in Seq(Descriptors) /\ Len(tx_used') = 0 /\ DOMAIN tx_used' = {}
        BY <1>1
    <2> QED
        BY <2>1 DEF Range, IsInjective
<1>10. CASE list.free < 1
    <2>1. /\ tx_next' = list.next /\ tx_head' = list.head /\ tx_free' = list.free
          /\ UNCHANGED <<tx_avail, tx_buf, accepted>>
        BY <1>10 DEF virtio_xmit
    <2> HIDE DEF list
    <2>2. TxTypes'
        BY <1>1, <1>3, <1>4, <1>7, <1>9, <2>1 DEF TxTypes
    <2>3. TxWire'
        BY <1>1, <2>1 DEF TxInv, TxWire
    <2>4. tx_free' + Len(tx_avail') + Len(tx_used') = ring_num
        BY <1>4, <1>7, <1>9, <2>1 DEF TxInv, TxRing
    <2>5. Path(tx_next', tx_head', tx_free', g)
        BY <1>5, <2>1
    <2>6. Range(g) \intersect (Range(tx_avail') \union Range(tx_used')) = {}
        BY <1>6, <1>9, <2>1
    <2>7. TxRing'
        BY <1>3, <1>9, <2>1, <2>4, <2>5, <2>6 DEF TxRing
    <2> QED
        BY <2>2, <2>3, <2>7 DEF TxInv
<1>11. CASE ~(list.free < 1)
    <2>1. /\ tx_next' = rest.next /\ tx_head' = rest.head /\ tx_free' = rest.free
          /\ tx_buf' = [tx_buf EXCEPT ![h] = accepted + 1]
          /\ tx_avail' = Append(tx_avail, h) /\ accepted' = accepted + 1
        BY <1>11 DEF virtio_xmit, Buffer
    <2>2. list.free > 0
        BY <1>7, <1>11
    <2>3. rest = Unlinked([next |-> list.next, head |-> list.head, free |-> list.free])
        BY <1>8
    <2> HIDE DEF list, rest
    <2>4. /\ rest.next \in [Descriptors -> Descriptors] /\ rest.head \in Descriptors
          /\ rest.free = list.free - 1
          /\ Path(rest.next, rest.head, rest.free, Tail(g))
          /\ Range(g) = Range(Tail(g)) \union {h} /\ h \notin Range(Tail(g))
        BY <1>4, <1>5, <1>7, <2>2, <2>3, UnlinkedPath
    <2>5. h \in Descriptors /\ h \notin Range(tx_avail)
        BY <1>4, <1>6, <2>4
    <2> HIDE DEF h
    <2>6. /\ tx_avail' \in Seq(Descriptors) /\ Len(tx_avail') = Len(tx_avail) + 1
          /\ \A i \in 1 .. Len(tx_avail) : tx_avail'[i] = tx_avail[i]
          /\ tx_avail'[Len(tx_avail) + 1] = h
          /\ Range(tx_avail') = Range(tx_avail) \union {h}
          /\ IsInjective(tx_avail')
        <3>1. tx_avail \in Seq(Descriptors)
            BY <1>3 DEF TxTypes
        <3> QED
            BY <1>3, <2>1, <2>5, <3>1, AppendFacts
    <2>7. \A d \in Descriptors : tx_buf'[d] = IF d = h THEN accepted + 1 ELSE tx_buf[d]
        BY <1>3, <2>1 DEF TxTypes
    <2>8. TxTypes'
        <3>1. accepted + 1 \in Nat /\ rest.free \in Nat
            BY <1>7, <2>2, <2>4
        <3>2. tx_buf' \in [Descriptors -> Nat]
            BY <1>3, <2>1, <3>1 DEF TxTypes
        <3> QED
            BY <1>1, <1>3, <1>9, <2>1, <2>4, <2>6, <3>1, <3>2 DEF TxTypes
    <2>9. TxWire'
        <3>1. Len(wire') + Len(tx_avail') = accepted'
            BY <1>1, <1>7, <2>1, <2>6 DEF TxInv, TxWire
        <3>2. \A k \in 1 .. Len(tx_avail') : tx_buf'[tx_avail'[k]] = Len(wire') + k
            <4> SUFFICES ASSUME NEW k \in 1 .. Len(tx_avail')
                         PROVE  tx_buf'[tx_avail'[k]] = Len(wire') + k
                OBVIOUS
            <4>0. k \in 1 .. Len(tx_avail) \/ k = Len(tx_avail) + 1
                BY <1>7, <2>6
            <4>1. CASE k \in 1 .. Len(tx_avail)
                <5>1. tx_avail[k] \in Descriptors /\ tx_avail[k] \in Range(tx_avail)
                    <6>1. tx_avail \in Seq(Descriptors) /\ k \in DOMAIN tx_avail
                        BY <1>3, <4>1 DEF TxTypes
                    <6> QED
                        BY <6>1 DEF Range
                <5>2. tx_buf'[tx_avail[k]] = tx_buf[tx_avail[k]]
                    BY <2>5, <2>7, <5>1
                <5> QED
                    BY <1>1, <2>6, <4>1, <5>2 DEF TxInv, TxWire
            <4>2. CASE k = Len(tx_avail) + 1
                <5>1. tx_buf'[tx_avail'[k]] = accepted + 1
                    BY <2>5, <2>6, <2>7, <4>2
                <5>2. Len(wire) + Len(tx_avail) = accepted
                    BY DEF TxInv, TxWire
                <5>3. accepted + 1 = Len(wire) + k
                    BY <1>7, <4>2, <5>2
                <5> QED
                    BY <1>1, <5>1, <5>3
            <4> QED
                BY <4>0, <4>1, <4>2
        <3> QED
            BY <1>1, <3>1, <3>2 DEF TxInv, TxWire
    <2>10. tx_free' + Len(tx_avail') + Len(tx_used') = ring_num
        BY <1>4, <1>7, <1>9, <2>1, <2>4, <2>6 DEF TxInv, TxRing
    <2>11. Range(Tail(g)) \intersect (Range(tx_avail') \union Range(tx_used')) = {}
        BY <1>6, <1>9, <2>4, <2>6
    <2>12. Path(tx_next', tx_head', tx_free', Tail(g))
        BY <2>1, <2>4
    <2>13. TxRing'
        BY <1>9, <2>6, <2>10, <2>11, <2>12 DEF TxRing
    <2> QED
        BY <2>8, <2>9, <2>13 DEF TxInv
<1> QED
    BY <1>10, <1>11

-----------------------------------------------------------------------------
(* The specification *)

\* The receiving side needs a device that leaves a buffer alone while it is copied.
IInv == TxInv /\ (~Reuses => RxInv)

LEMMA NextKeeps == IInv /\ [NetNext]_nvars => IInv'
<1> SUFFICES ASSUME IInv, [NetNext]_nvars PROVE IInv'
    OBVIOUS
<1>1. ASSUME UNCHANGED rx_vars PROVE RxInv => RxInv'
    BY <1>1 DEF rx_vars, RxInv, RxTypes, RxRing, RxLock, RxFrames, Filled, Gone
<1>2. ASSUME UNCHANGED tx_vars PROVE TxInv'
    BY <1>2 DEF tx_vars, IInv, TxInv, TxTypes, TxRing, TxWire
<1>3. CASE Arrive
    BY <1>2, <1>3, ArriveKeeps DEF Arrive, IInv
<1>4. CASE virtio_xmit
    BY <1>1, <1>4, virtio_xmitKeeps DEF virtio_xmit, IInv
<1>5. CASE Sent
    BY <1>1, <1>5, SentKeeps DEF Sent, IInv
<1>6. ASSUME NEW p \in Pollers, Poll(p) \/ PollEnd(p) PROVE IInv'
    BY <1>2, <1>6, PollKeeps DEF Poll, PollEnd, IInv
<1>7. ASSUME NEW p \in Pollers, PollPop(p) PROVE IInv'
    BY <1>2, <1>7, PollPopKeeps DEF PollPop, IInv
<1>8. ASSUME NEW p \in Pollers, Deliver(p) PROVE IInv'
    BY <1>2, <1>8, DeliverKeeps DEF Deliver, IInv
<1>9. ASSUME NEW p \in Pollers, NEW kept \in BOOLEAN, PollCopy(p, kept) PROVE IInv'
    BY <1>2, <1>9, PollCopyKeeps DEF PollCopy, IInv
<1>10. CASE UNCHANGED nvars
    BY <1>1, <1>2, <1>10 DEF nvars, IInv
<1> QED
    BY <1>3, <1>4, <1>5, <1>6, <1>7, <1>8, <1>9, <1>10 DEF NetNext

THEOREM NetInvariant == NetSpec => []IInv
<1>1. NetInit => IInv
    BY RxInit, TxInit DEF IInv
<1>2. IInv /\ [NetNext]_nvars => IInv'
    BY NextKeeps
<1> QED
    BY <1>1, <1>2, PTL DEF NetSpec

LEMMA RxInvSound == RxInv => ReceiveSound
<1> SUFFICES ASSUME RxInv PROVE ReceiveSound
    OBVIOUS
<1>1. \A f \in Range(up) : f \in 1 .. arrived
    BY DEF RxInv, RxFrames, Gone
<1>2. \A p \in Delivering : held[p] \in 1 .. arrived /\ held[p] \notin Range(up)
    BY DEF Delivering, RxInv, RxFrames, Gone
<1>3. \A p, q \in Delivering : held[p] = held[q] => p = q
    BY DEF Delivering, RxInv, RxFrames
<1> QED
    BY <1>1, <1>2, <1>3 DEF ReceiveSound, RxInv, RxFrames, RxRing

LEMMA TxInvTrue == TxInv => WireTrue
<1> SUFFICES ASSUME TxInv PROVE WireTrue
    OBVIOUS
<1>1. wire \in Seq(Nat) /\ \A i \in 1 .. Len(wire) : wire[i] = i
    BY DEF TxInv, TxTypes, TxWire
<1>2. wire = [i \in 1 .. Len(wire) |-> i]
    BY <1>1
<1> QED
    BY <1>2 DEF WireTrue, TxInv, TxWire, TxRing

\* Frames go out complete, in order and once each, and no transmit descriptor
\* is lost or on the free list twice, whatever the device does (virtio_xmit).
THEOREM TransmitsInOrder == NetSpec => []WireTrue
<1>1. IInv => WireTrue
    BY TxInvTrue DEF IInv
<1> QED
    BY <1>1, NetInvariant, PTL

\* With a device that does not fill a buffer while it is copied, a frame goes up
\* once at most and only if it arrived, for any number of threads that poll at
\* once, though the buffer goes back to the device before the copy
\* (virtio_net_poll); and frames go out in order (virtio_xmit).
THEOREM FramesSoundly == ~Reuses => (NetSpec => []FramesSound)
<1> SUFFICES ASSUME ~Reuses PROVE NetSpec => []FramesSound
    OBVIOUS
<1>1. IInv => FramesSound
    BY RxInvSound, TxInvTrue DEF IInv, FramesSound
<1> QED
    BY <1>1, NetInvariant, PTL

-----------------------------------------------------------------------------
(* virtio-blk *)

\* One member of a sequence without repetitions is taken out.
LEMMA RemoveAtFacts ==
    ASSUME NEW S, NEW s \in Seq(S), IsInjective(s), NEW k \in 1 .. Len(s)
    PROVE  /\ RemoveAt(s, k) \in Seq(S) /\ Len(RemoveAt(s, k)) = Len(s) - 1
           /\ IsInjective(RemoveAt(s, k))
           /\ s[k] \in S /\ s[k] \in Range(s)
           /\ Range(RemoveAt(s, k)) = Range(s) \ {s[k]}
           /\ k = 1 => RemoveAt(s, k) = Tail(s)
<1> DEFINE n == Len(s)
           r == RemoveAt(s, k)
<1>1. n \in Nat /\ s \in [1 .. n -> S]
    OBVIOUS
<1>2. r \in Seq(S) /\ Len(r) = n - 1 /\ \A i \in 1 .. n - 1 : r[i] = IF i < k THEN s[i] ELSE s[i + 1]
    <2>1. PICK a : a = SubSeq(s, 1, k - 1)
        OBVIOUS
    <2>2. PICK b : b = SubSeq(s, k + 1, n)
        OBVIOUS
    <2>3. a \in Seq(S) /\ Len(a) = k - 1 /\ \A i \in 1 .. k - 1 : a[i] = s[i]
        BY <1>1, <2>1
    <2>4. b \in Seq(S) /\ Len(b) = n - k /\ \A i \in 1 .. n - k : b[i] = s[k + i]
        <3>0. k \in 1 .. n /\ k + 1 \in 1 .. n + 1 /\ Len(s) = n
            BY <1>1
        <3> HIDE DEF n
        <3>1a. b \in Seq(S)
            BY <1>1, <2>2, <3>0
        <3>1b. Len(b) = n - k
            BY <1>1, <2>2, <3>0
        <3>1. b \in Seq(S) /\ Len(b) = n - k /\ \A i \in 1 .. n - k : b[i] = s[i + (k + 1) - 1]
            BY <1>1, <2>2, <3>0, <3>1a, <3>1b
        <3>2. \A i \in 1 .. n - k : i + (k + 1) - 1 = k + i
            BY <1>1
        <3> QED
            BY <3>1, <3>2
    <2>5. r = a \o b
        BY <2>1, <2>2 DEF RemoveAt
    <2>6. r \in Seq(S) /\ Len(r) = n - 1
        <3>2. k \in 1 .. n
            OBVIOUS
        <3>3. a \in Seq(S) /\ b \in Seq(S)
            BY <2>3, <2>4
        <3> HIDE DEF n, r
        <3>1. r \in Seq(S) /\ Len(r) = Len(a) + Len(b)
            BY <2>5, <3>3
        <3> QED
            BY <1>1, <2>3, <2>4, <3>1, <3>2
    <2>7. ASSUME NEW i \in 1 .. n - 1 PROVE r[i] = IF i < k THEN s[i] ELSE s[i + 1]
        <3>1. CASE i < k
            BY <1>1, <2>3, <2>4, <2>5, <3>1
        <3>2. CASE ~(i < k)
            <4>1. i - (k - 1) \in 1 .. n - k /\ k + (i - (k - 1)) = i + 1
                BY <1>1, <3>2
            <4>2. r[i] = b[i - (k - 1)]
                BY <1>1, <2>3, <2>4, <2>5, <3>2
            <4> QED
                BY <2>4, <3>2, <4>1, <4>2
        <3> QED
            BY <3>1, <3>2
    <2> QED
        BY <2>6, <2>7
<1> HIDE DEF n, r
<1>3. DOMAIN r = 1 .. n - 1 /\ DOMAIN s = 1 .. n
    BY <1>1, <1>2
<1>4. \A i \in 1 .. n - 1 : \E j \in 1 .. n : j # k /\ r[i] = s[j] /\ ((j = i /\ i < k) \/ (j = i + 1 /\ i >= k))
    <2> SUFFICES ASSUME NEW i \in 1 .. n - 1
                 PROVE  \E j \in 1 .. n : j # k /\ r[i] = s[j] /\ ((j = i /\ i < k) \/ (j = i + 1 /\ i >= k))
        OBVIOUS
    <2>1. k \in 1 .. n
        BY DEF n
    <2>2. CASE i < k
        <3>1. i \in 1 .. n /\ i # k /\ r[i] = s[i]
            BY <1>1, <1>2, <2>1, <2>2
        <3> QED
            BY <2>2, <3>1
    <2>3. CASE ~(i < k)
        <3>1. i + 1 \in 1 .. n /\ i + 1 # k /\ r[i] = s[i + 1] /\ i >= k
            BY <1>1, <1>2, <2>1, <2>3
        <3> QED
            BY <3>1
    <2> QED
        BY <2>2, <2>3
<1>5. \A j \in 1 .. n : j # k => \E i \in 1 .. n - 1 : r[i] = s[j]
    <2> SUFFICES ASSUME NEW j \in 1 .. n, j # k PROVE \E i \in 1 .. n - 1 : r[i] = s[j]
        OBVIOUS
    <2>1. CASE j < k
        <3>1. j \in 1 .. n - 1 /\ r[j] = s[j]
            BY <1>1, <1>2, <2>1 DEF n
        <3> QED
            BY <3>1
    <2>2. CASE j > k
        <3>1. j - 1 \in 1 .. n - 1 /\ r[j - 1] = s[j - 1 + 1] /\ j - 1 + 1 = j
            BY <1>1, <1>2, <2>2 DEF n
        <3> QED
            BY <3>1
    <2> QED
        BY <2>1, <2>2
<1>6. \A i, j \in 1 .. n : s[i] = s[j] => i = j
    BY <1>3 DEF IsInjective
<1>7. \A i, j \in 1 .. n - 1 : r[i] = r[j] => i = j
    BY <1>1, <1>4, <1>6
<1>8. Range(r) = Range(s) \ {s[k]}
    <2>1. \A x \in Range(r) : x \in Range(s) /\ x # s[k]
        BY <1>3, <1>4, <1>6 DEF Range, n
    <2>2. \A x \in Range(s) : x # s[k] => x \in Range(r)
        BY <1>3, <1>5 DEF Range
    <2> QED
        BY <2>1, <2>2
<1>9. k = 1 => r = Tail(s)
    <2> SUFFICES ASSUME k = 1 PROVE r = Tail(s)
        OBVIOUS
    <2>1. Tail(s) \in Seq(S) /\ Len(Tail(s)) = n - 1 /\ \A i \in 1 .. n - 1 : Tail(s)[i] = s[i + 1]
        BY DEF n
    <2>2. \A i \in 1 .. n - 1 : r[i] = Tail(s)[i]
        BY <1>1, <1>2, <2>1
    <2> QED
        BY <1>2, <2>1, <2>2
<1>10. s[k] \in S /\ s[k] \in Range(s)
    BY <1>1, <1>3 DEF Range, n
<1> QED
    BY <1>2, <1>3, <1>7, <1>8, <1>9, <1>10 DEF IsInjective, r, n

-----------------------------------------------------------------------------
(* Descriptors *)

RingTypes ==
    /\ next \in [Desc -> Desc] /\ free_head \in Desc /\ num_free \in Nat
    /\ avail \in Seq(Desc) /\ served \in Seq(Desc) /\ used \in Seq(Desc)

\* A request is with the device, served or reported, once.
Queues ==
    /\ IsInjective(avail) /\ IsInjective(served) /\ IsInjective(used)
    /\ Range(avail) \cap Range(served) = {}
    /\ Range(avail) \cap Range(used) = {}
    /\ Range(served) \cap Range(used) = {}

\* Chains are of three and share nothing; descriptor 0 is never the middle one,
\* where a walk that takes a link to it for the end would lose two.
Chains ==
    /\ \A h \in Heads : /\ next[h] # h /\ next[next[h]] # h /\ next[next[h]] # next[h]
                        /\ next[h] # 0
    /\ \A g, h \in Heads : g = h \/ Chain(g) \cap Chain(h) = {}

\* f is the way through the free list, which is taken and given back in threes:
\* descriptor 0 is the first or the last of its three.
FreePath(f) ==
    /\ f \in [0 .. num_free - 1 -> Desc]
    /\ \A i, j \in 0 .. num_free - 1 : f[i] = f[j] => i = j
    /\ num_free > 0 => f[0] = free_head
    /\ \A i \in 0 .. num_free - 2 : next[f[i]] = f[i + 1]
    /\ \A i \in 0 .. num_free - 1 : f[i] = 0 => \E k \in Nat : i = 3 * k \/ i = 3 * k + 2

Apart(f) == \A h \in Heads : \A i \in 0 .. num_free - 1 : f[i] \notin Chain(h)
Covered(f) ==
    \A d \in Desc : \/ d = 0 \/ \E i \in 0 .. num_free - 1 : f[i] = d
                    \/ \E h \in Heads : d \in Chain(h)

RingInv ==
    /\ RingTypes /\ Queues /\ Chains
    /\ \E f : FreePath(f) /\ Apart(f) /\ Covered(f)

LEMMA RingInit == BlkInit => RingInv
<1> SUFFICES ASSUME BlkInit PROVE RingInv
    OBVIOUS
<1>1. /\ use_num \in Nat /\ use_num > 0 /\ free_head = 0 /\ num_free = use_num
      /\ next = [d \in Desc |-> (d + 1) % use_num]
      /\ avail = << >> /\ served = << >> /\ used = << >>
    BY VirtioBlkAssumption DEF BlkInit
<1>2. \A d \in Desc : (d + 1) % use_num \in Desc /\ (d < use_num - 1 => (d + 1) % use_num = d + 1)
    <2> SUFFICES ASSUME NEW d \in Desc
                 PROVE  (d + 1) % use_num \in Desc /\ (d < use_num - 1 => (d + 1) % use_num = d + 1)
        OBVIOUS
    <2>1. d + 1 \in Int /\ d \in 0 .. use_num - 1 /\ use_num \in Nat \ {0}
        BY <1>1 DEF Desc
    <2>2. (d + 1) % use_num \in 0 .. use_num - 1
        BY <2>1
    <2>3. d < use_num - 1 => (d + 1) % use_num = d + 1
        BY <2>1
    <2> QED
        BY <2>2, <2>3 DEF Desc
<1>3. RingTypes
    BY <1>1, <1>2 DEF RingTypes, Desc
<1>4. Range(avail) = {} /\ Range(served) = {} /\ Range(used) = {} /\ Heads = {}
    BY <1>1 DEF Range, Heads
<1>5. Queues
    BY <1>1, <1>4 DEF Queues, IsInjective
<1>6. Chains
    BY <1>4 DEF Chains
<1>7. PICK f : f = [i \in 0 .. use_num - 1 |-> i]
    OBVIOUS
<1>8. f \in [0 .. num_free - 1 -> Desc] /\ \A i \in 0 .. num_free - 1 : f[i] = i /\ i \in Desc
    BY <1>1, <1>7 DEF Desc
<1>9. \A i \in 0 .. num_free - 2 : next[f[i]] = f[i + 1]
    <2> SUFFICES ASSUME NEW i \in 0 .. num_free - 2 PROVE next[f[i]] = f[i + 1]
        OBVIOUS
    <2>1. i \in 0 .. num_free - 1 /\ i + 1 \in 0 .. num_free - 1 /\ i < use_num - 1
        BY <1>1
    <2> QED
        BY <1>1, <1>2, <1>8, <2>1
<1>10. 0 \in Nat /\ 0 = 3 * 0
    OBVIOUS
<1>11. FreePath(f)
    <2>1. \A i \in 0 .. num_free - 1 : f[i] = 0 => i = 3 * 0
        BY <1>8
    <2>2. \A i \in 0 .. num_free - 1 : f[i] = 0 => \E k \in Nat : i = 3 * k \/ i = 3 * k + 2
        BY <1>10, <2>1
    <2>3. \A i, j \in 0 .. num_free - 1 : f[i] = f[j] => i = j
        BY <1>8
    <2>4. num_free > 0 => f[0] = free_head
        BY <1>1, <1>8
    <2> QED
        BY <1>8, <1>9, <2>2, <2>3, <2>4 DEF FreePath
<1>12. Apart(f) /\ Covered(f)
    BY <1>1, <1>4, <1>8 DEF Apart, Covered, Desc
<1> QED
    BY <1>3, <1>5, <1>6, <1>11, <1>12 DEF RingInv

\* A step of the device moves a request on, and nothing else of the ring.
LEMMA RingMoves ==
    ASSUME RingInv, next' = next, free_head' = free_head, num_free' = num_free,
           avail' \in Seq(Desc), served' \in Seq(Desc), used' \in Seq(Desc),
           Queues', Heads' = Heads
    PROVE  RingInv'
<1>1. RingTypes'
    BY DEF RingInv, RingTypes
<1>2. \A h : Chain(h)' = Chain(h)
    BY DEF Chain
<1>3. Chains'
    BY <1>2 DEF RingInv, Chains
<1>4. PICK f : FreePath(f) /\ Apart(f) /\ Covered(f)
    BY DEF RingInv
<1>5. FreePath(f)'
    BY <1>4 DEF FreePath
<1>6. Apart(f)' /\ Covered(f)'
    BY <1>2, <1>4 DEF Apart, Covered
<1> QED
    BY <1>1, <1>3, <1>5, <1>6 DEF RingInv

LEMMA RingStutters ==
    ASSUME RingInv, UNCHANGED <<next, free_head, num_free, avail, served, used>>
    PROVE  RingInv'
<1>1. Queues' /\ Heads' = Heads
    BY DEF RingInv, Queues, Heads
<1> QED
    BY <1>1, RingMoves DEF RingInv, RingTypes

\* Where the heads and their chains are.
LEMMA ChainTypes ==
    ASSUME RingTypes
    PROVE  \A h \in Heads : /\ h \in Desc /\ next[h] \in Desc /\ next[next[h]] \in Desc
                            /\ Chain(h) \subseteq Desc
<1>1. \A h \in Heads : h \in Desc
    BY DEF RingTypes, Heads, Range
<1> QED
    BY <1>1 DEF RingTypes, Chain

LEMMA ServeRing ==
    ASSUME RingInv, NEW k \in 1 .. Len(avail), NEW fails \in BOOLEAN, Serve(k, fails)
    PROVE  /\ RingInv'
           /\ avail[k] \in Range(avail)
           /\ Range(avail') = Range(avail) \ {avail[k]} /\ avail' \in Seq(Desc)
           /\ k = 1 => avail' = Tail(avail)
<1> DEFINE h == avail[k]
<1>1. /\ avail' = RemoveAt(avail, k) /\ served' = Append(served, h)
      /\ next' = next /\ free_head' = free_head /\ num_free' = num_free /\ used' = used
    BY DEF Serve, driver
<1>2. /\ avail \in Seq(Desc) /\ IsInjective(avail) /\ served \in Seq(Desc) /\ IsInjective(served)
      /\ used \in Seq(Desc) /\ IsInjective(used)
      /\ Range(avail) \cap Range(served) = {}
      /\ Range(avail) \cap Range(used) = {}
      /\ Range(served) \cap Range(used) = {}
    BY DEF RingInv, RingTypes, Queues
<1>3. /\ avail' \in Seq(Desc) /\ IsInjective(avail') /\ h \in Desc /\ h \in Range(avail)
      /\ Range(avail') = Range(avail) \ {h}
      /\ k = 1 => avail' = Tail(avail)
    BY <1>1, <1>2, RemoveAtFacts
<1> HIDE DEF h
<1>4. served' \in Seq(Desc) /\ IsInjective(served') /\ Range(served') = Range(served) \cup {h}
    BY <1>1, <1>2, <1>3, AppendFacts
<1>5. Queues'
    BY <1>1, <1>2, <1>3, <1>4 DEF Queues
<1>6. Heads' = Heads
    BY <1>1, <1>3, <1>4 DEF Heads
<1>7. RingInv'
    BY <1>1, <1>2, <1>3, <1>4, <1>5, <1>6, RingMoves
<1> QED
    BY <1>3, <1>7 DEF h

LEMMA ReportRing == ASSUME RingInv, Report PROVE RingInv'
<1> DEFINE h == Head(served)
<1>1. /\ served # << >> /\ served' = Tail(served) /\ used' = Append(used, h) /\ avail' = avail
      /\ next' = next /\ free_head' = free_head /\ num_free' = num_free
    BY DEF Report, driver
<1>2. /\ avail \in Seq(Desc) /\ IsInjective(avail) /\ served \in Seq(Desc) /\ IsInjective(served)
      /\ used \in Seq(Desc) /\ IsInjective(used)
      /\ Range(avail) \cap Range(served) = {}
      /\ Range(avail) \cap Range(used) = {}
      /\ Range(served) \cap Range(used) = {}
    BY DEF RingInv, RingTypes, Queues
<1>3. /\ served' \in Seq(Desc) /\ IsInjective(served') /\ h \in Desc /\ h \in Range(served)
      /\ Range(served) = Range(served') \cup {h} /\ h \notin Range(served')
    BY <1>1, <1>2, TailFacts
<1> HIDE DEF h
<1>4. used' \in Seq(Desc) /\ IsInjective(used') /\ Range(used') = Range(used) \cup {h}
    BY <1>1, <1>2, <1>3, AppendFacts
<1>5. Queues'
    BY <1>1, <1>2, <1>3, <1>4 DEF Queues
<1>6. Heads' = Heads
    BY <1>1, <1>3, <1>4 DEF Heads
<1> QED
    BY <1>1, <1>2, <1>3, <1>4, <1>5, <1>6, RingMoves

\* What the device will find in the chain d0, d1, d2.
Posted(d0, d1, d2) ==
    /\ op' = [op EXCEPT !.stage = "wait", !.chain = <<d0, d1, d2>>]
    /\ avail' = Append(avail, d0) /\ d0 \notin Range(avail)
    /\ hdr' = [hdr EXCEPT ![d0] = [type |-> op.call, sector |-> Here]]
    /\ content' = [content EXCEPT ![d1] = IF op.call = "write" THEN op.data[op.i] ELSE Zero]
    /\ status' = [status EXCEPT ![d2] = "unset"]
    /\ next'[d0] = d1 /\ next'[d1] = d2
    /\ \A h \in Heads : /\ d0 \notin Chain(h) /\ d1 \notin Chain(h) /\ d2 \notin Chain(h)
                        /\ next'[h] = next[h] /\ next'[next[h]] = next[next[h]]

\* The first three of the free list become a chain.
LEMMA PostRing ==
    ASSUME RingInv, Post
    PROVE  /\ RingInv'
           /\ \E d0, d1, d2 \in Desc : Posted(d0, d1, d2)
<1>1. PICK f : FreePath(f) /\ Apart(f) /\ Covered(f)
    BY DEF RingInv
<1>2. num_free >= 3 /\ num_free \in Nat /\ next \in [Desc -> Desc] /\ free_head = f[0]
    BY <1>1 DEF Post, RingInv, RingTypes, FreePath
<1>3. PICK d0, d1, d2 : d0 = f[0] /\ d1 = f[1] /\ d2 = f[2]
    OBVIOUS
<1>4. d0 \in Desc /\ d1 \in Desc /\ d2 \in Desc /\ d0 # d1 /\ d0 # d2 /\ d1 # d2
    BY <1>1, <1>2, <1>3 DEF FreePath
<1>5. next[d0] = d1 /\ next[d1] = d2 /\ free_head = d0
    BY <1>1, <1>2, <1>3 DEF FreePath
<1>6. d1 # 0
    <2> SUFFICES ASSUME d1 = 0 PROVE FALSE
        OBVIOUS
    <2>1. PICK k \in Nat : 1 = 3 * k \/ 1 = 3 * k + 2
        BY <1>1, <1>2, <1>3 DEF FreePath
    <2> QED
        BY <2>1
<1>7. \A h \in Heads : d0 \notin Chain(h) /\ d1 \notin Chain(h) /\ d2 \notin Chain(h)
    BY <1>1, <1>2, <1>3 DEF Apart
<1>8. /\ free_head' = next[d2] /\ num_free' = num_free - 3
      /\ next' = [next EXCEPT ![d2] = 0]
      /\ hdr' = [hdr EXCEPT ![d0] = [type |-> op.call, sector |-> Here]]
      /\ content' = [content EXCEPT ![d1] = IF op.call = "write" THEN op.data[op.i] ELSE Zero]
      /\ status' = [status EXCEPT ![d2] = "unset"]
      /\ avail' = Append(avail, d0)
      /\ op' = [op EXCEPT !.stage = "wait", !.chain = <<d0, d1, d2>>]
      /\ served' = served /\ used' = used
    BY <1>5 DEF Post, Sentinel
<1>9. 0 \in Desc
    BY VirtioBlkAssumption DEF Desc
<1>10. \A d \in Desc : next'[d] = IF d = d2 THEN 0 ELSE next[d]
    BY <1>2, <1>4, <1>8
<1>11. \A h \in Heads : h \in Desc /\ next[h] \in Desc /\ next[next[h]] \in Desc
    BY ChainTypes DEF RingInv
<1>12. \A h \in Heads : next'[h] = next[h] /\ next'[next[h]] = next[next[h]] /\ Chain(h)' = Chain(h)
    <2> SUFFICES ASSUME NEW h \in Heads
                 PROVE  next'[h] = next[h] /\ next'[next[h]] = next[next[h]] /\ Chain(h)' = Chain(h)
        OBVIOUS
    <2>1. h # d2 /\ next[h] # d2
        BY <1>7 DEF Chain
    <2>2. next'[h] = next[h] /\ next'[next[h]] = next[next[h]]
        BY <1>10, <1>11, <2>1
    <2> QED
        BY <2>2 DEF Chain
<1>13. next'[d0] = d1 /\ next'[d1] = d2 /\ Chain(d0)' = {d0, d1, d2}
    <2>1. next'[d0] = d1 /\ next'[d1] = d2
        BY <1>4, <1>5, <1>10
    <2> QED
        BY <2>1 DEF Chain
<1>14. d0 \notin Heads /\ d0 \notin Range(avail)
    BY <1>7 DEF Chain, Heads
<1>15. avail' \in Seq(Desc) /\ IsInjective(avail') /\ Range(avail') = Range(avail) \cup {d0}
    BY <1>4, <1>8, <1>14, AppendFacts DEF RingInv, RingTypes, Queues
<1>16. Heads' = Heads \cup {d0}
    BY <1>8, <1>15 DEF Heads
<1>17. RingTypes'
    <2>1. next' \in [Desc -> Desc] /\ free_head' \in Desc /\ num_free' \in Nat
        BY <1>2, <1>4, <1>8, <1>9
    <2> QED
        BY <1>8, <1>15, <2>1 DEF RingInv, RingTypes
<1>18. Queues'
    <2>1. d0 \notin Range(served) /\ d0 \notin Range(used)
        BY <1>14 DEF Heads
    <2> QED
        BY <1>8, <1>15, <2>1 DEF RingInv, Queues
<1>19. Chains'
    <2>1. ASSUME NEW h \in Heads'
          PROVE  next'[h] # h /\ next'[next'[h]] # h /\ next'[next'[h]] # next'[h] /\ next'[h] # 0
        <3>1. CASE h = d0
            BY <1>4, <1>6, <1>13, <3>1
        <3>2. CASE h \in Heads
            BY <1>12, <3>2 DEF RingInv, Chains
        <3> QED
            BY <1>16, <3>1, <3>2
    <2>2. \A h \in Heads : Chain(h)' \cap Chain(d0)' = {}
        BY <1>7, <1>12, <1>13
    <2>3. \A g, h \in Heads : g = h \/ Chain(g)' \cap Chain(h)' = {}
        BY <1>12 DEF RingInv, Chains
    <2>4. \A g, h \in Heads' : g = h \/ Chain(g)' \cap Chain(h)' = {}
        BY <1>16, <2>2, <2>3
    <2> QED
        BY <2>1, <2>4 DEF Chains
<1>20. PICK g : g = [i \in 0 .. num_free - 4 |-> f[i + 3]]
    OBVIOUS
<1>21. \A i \in 0 .. num_free - 4 : /\ i + 3 \in 0 .. num_free - 1 /\ g[i] = f[i + 3] /\ g[i] \in Desc
                                   /\ g[i] # d0 /\ g[i] # d1 /\ g[i] # d2
    BY <1>1, <1>2, <1>3, <1>20 DEF FreePath
<1>22. FreePath(g)'
    <2>0. num_free' - 1 = num_free - 4 /\ num_free' - 2 = num_free - 5
        BY <1>2, <1>8
    <2>1. g \in [0 .. num_free' - 1 -> Desc]
        BY <1>20, <1>21, <2>0
    <2>2. ASSUME NEW i \in 0 .. num_free' - 1, NEW j \in 0 .. num_free' - 1, g[i] = g[j] PROVE i = j
        <3>1. i + 3 = j + 3
            BY <1>1, <1>21, <2>0, <2>2 DEF FreePath
        <3> QED
            BY <3>1
    <2>3. num_free' > 0 => g[0] = free_head'
        <3> SUFFICES ASSUME num_free' > 0 PROVE g[0] = free_head'
            OBVIOUS
        <3>1. 0 \in 0 .. num_free - 4 /\ 2 \in 0 .. num_free - 2
            BY <1>2, <1>8
        <3>2. next[f[2]] = f[2 + 1]
            BY <1>1, <3>1 DEF FreePath
        <3>3. g[0] = f[0 + 3]
            BY <1>21, <3>1
        <3> QED
            BY <1>3, <1>8, <3>2, <3>3
    <2>4. ASSUME NEW i \in 0 .. num_free' - 2 PROVE next'[g[i]] = g[i + 1]
        <3>1. i \in 0 .. num_free - 4 /\ i + 1 \in 0 .. num_free - 4 /\ i + 3 \in 0 .. num_free - 2
              /\ i + 3 + 1 = i + 1 + 3
            BY <1>2, <2>0
        <3>2. next[f[i + 3]] = f[i + 3 + 1]
            BY <1>1, <3>1 DEF FreePath
        <3>3. next'[g[i]] = next[g[i]]
            BY <1>10, <1>21, <3>1
        <3> QED
            BY <1>21, <3>1, <3>2, <3>3
    <2>5. ASSUME NEW i \in 0 .. num_free' - 1, g[i] = 0
          PROVE  \E k \in Nat : i = 3 * k \/ i = 3 * k + 2
        <3>1. i \in 0 .. num_free - 4 /\ i + 3 \in 0 .. num_free - 1 /\ f[i + 3] = 0
            BY <1>21, <2>0, <2>5
        <3>2. PICK k \in Nat : i + 3 = 3 * k \/ i + 3 = 3 * k + 2
            BY <1>1, <3>1 DEF FreePath
        <3>3. k - 1 \in Nat /\ (i = 3 * (k - 1) \/ i = 3 * (k - 1) + 2)
            BY <3>1, <3>2
        <3> QED
            BY <3>3
    <2> QED
        BY <2>1, <2>2, <2>3, <2>4, <2>5 DEF FreePath
<1>23. Apart(g)'
    <2> SUFFICES ASSUME NEW h \in Heads', NEW i \in 0 .. num_free' - 1 PROVE g[i] \notin Chain(h)'
        BY DEF Apart
    <2>1. i \in 0 .. num_free - 4 /\ i + 3 \in 0 .. num_free - 1
        BY <1>2, <1>8
    <2>2. CASE h = d0
        BY <1>13, <1>21, <2>1, <2>2
    <2>3. CASE h \in Heads
        BY <1>1, <1>12, <1>21, <2>1, <2>3 DEF Apart
    <2> QED
        BY <1>16, <2>2, <2>3
<1>24. Covered(g)'
    <2> SUFFICES ASSUME NEW d \in Desc
                 PROVE  d = 0 \/ (\E i \in 0 .. num_free' - 1 : g[i] = d) \/ \E h \in Heads' : d \in Chain(h)'
        BY DEF Covered
    <2>1. CASE d = 0
        BY <2>1
    <2>2. ASSUME NEW i \in 0 .. num_free - 1, f[i] = d
          PROVE  (\E j \in 0 .. num_free' - 1 : g[j] = d) \/ \E h \in Heads' : d \in Chain(h)'
        <3>1. CASE i < 3
            <4>1. i = 0 \/ i = 1 \/ i = 2
                BY <3>1
            <4>2. d \in Chain(d0)' /\ d0 \in Heads'
                BY <1>3, <1>13, <1>16, <2>2, <4>1
            <4> QED
                BY <4>2
        <3>2. CASE i >= 3
            <4>1. i - 3 \in 0 .. num_free' - 1 /\ i - 3 \in 0 .. num_free - 4 /\ i - 3 + 3 = i
                BY <1>2, <1>8, <3>2
            <4>2. g[i - 3] = d
                BY <1>21, <2>2, <4>1
            <4> QED
                BY <4>1, <4>2
        <3> QED
            BY <3>1, <3>2
    <2>3. ASSUME NEW h \in Heads, d \in Chain(h) PROVE \E e \in Heads' : d \in Chain(e)'
        BY <1>12, <1>16, <2>3
    <2> QED
        BY <1>1, <2>1, <2>2, <2>3 DEF Covered
<1>25. RingInv'
    BY <1>17, <1>18, <1>19, <1>22, <1>23, <1>24 DEF RingInv
<1> QED
    <2>1. \A h \in Heads : /\ d0 \notin Chain(h) /\ d1 \notin Chain(h) /\ d2 \notin Chain(h)
                          /\ next'[h] = next[h] /\ next'[next[h]] = next[next[h]]
        BY <1>7, <1>12
    <2>2. Posted(d0, d1, d2)
        BY <1>8, <1>13, <1>14, <2>1 DEF Posted
    <2> QED
        BY <1>4, <1>25, <2>2

\* A walk of a chain finds two or three of it, the first of them on top of the
\* list before, and of what it does not find only descriptor 0 is lost.
LEMMA ReclaimRing ==
    ASSUME RingInv, Reclaim
    PROVE  /\ RingInv'
           /\ avail' = avail
           /\ \A h \in Range(avail) : next'[h] = next[h] /\ next'[next[h]] = next[next[h]]
<1>1. PICK f : FreePath(f) /\ Apart(f) /\ Covered(f)
    BY DEF RingInv
<1>2. PICK h : h = Head(used)
    OBVIOUS
<1>3. PICK a, b : a = next[h] /\ b = next[a]
    OBVIOUS
<1>4. PICK w : w = IF b = 0 THEN <<h, a>> ELSE <<h, a, b>>
    OBVIOUS
<1>5. used # << >> /\ used \in Seq(Desc) /\ IsInjective(used)
    BY DEF Reclaim, RingInv, RingTypes, Queues
<1>6. /\ Tail(used) \in Seq(Desc) /\ IsInjective(Tail(used)) /\ h \in Desc /\ h \in Range(used)
      /\ Range(used) = Range(Tail(used)) \cup {h} /\ h \notin Range(Tail(used))
    BY <1>2, <1>5, TailFacts
<1>7. h \in Heads
    BY <1>6 DEF Heads
<1>8. a \in Desc /\ b \in Desc /\ a # h /\ b # h /\ b # a /\ a # 0 /\ Chain(h) = {h, a, b}
    BY <1>3, <1>7, ChainTypes DEF RingInv, Chains, Chain
<1>9. Walk(h) = w
    BY <1>3, <1>4, <1>8 DEF Walk
<1>10. /\ avail' = avail /\ served' = served /\ used' = Tail(used)
       /\ num_free' = num_free + Len(w) /\ free_head' = w[Len(w)]
       /\ next' = [d \in Desc |->
               IF \E k \in 1 .. Len(w) : w[k] = d
               THEN LET k == CHOOSE k \in 1 .. Len(w) : w[k] = d
                    IN IF k = 1 THEN free_head ELSE w[k - 1]
               ELSE next[d]]
    BY <1>2, <1>9 DEF Reclaim, Reported, device
<1>11. PICK n \in {2, 3} : n = Len(w) /\ n = (IF b = 0 THEN 2 ELSE 3)
    BY <1>4
<1>12. w[1] = h /\ w[2] = a /\ (n = 3 => w[3] = b) /\ DOMAIN w = 1 .. n
    <2>1. CASE b = 0
        <3>1. w = <<h, a>> /\ n = 2
            BY <1>4, <1>11, <2>1
        <3> QED
            BY <3>1
    <2>2. CASE b # 0
        <3>1. w = <<h, a, b>> /\ n = 3
            BY <1>4, <1>11, <2>2
        <3> QED
            BY <3>1
    <2> QED
        BY <2>1, <2>2
<1>13. \A j, k \in 1 .. n : w[j] = w[k] => j = k
    BY <1>8, <1>11, <1>12
<1>14. \A k \in 1 .. n : w[k] \in Chain(h) /\ w[k] \in Desc
    <2>1. \A k \in 1 .. n : k = 1 \/ k = 2 \/ (n = 3 /\ k = 3)
        BY <1>11
    <2> QED
        BY <1>6, <1>8, <1>12, <2>1
<1>15. num_free \in Nat /\ next \in [Desc -> Desc] /\ free_head \in Desc
    BY DEF RingInv, RingTypes
<1>16. ASSUME NEW k \in 1 .. n PROVE next'[w[k]] = IF k = 1 THEN free_head ELSE w[k - 1]
    <2>1. \E j \in 1 .. Len(w) : w[j] = w[k]
        BY <1>11
    <2>2. (CHOOSE j \in 1 .. Len(w) : w[j] = w[k]) = k
        BY <1>11, <1>13
    <2> QED
        BY <1>10, <1>14, <2>1, <2>2
<1>17. \A d \in Desc : (\A k \in 1 .. n : w[k] # d) => next'[d] = next[d]
    BY <1>10, <1>11
<1> HIDE <1>4
<1>18. next' \in [Desc -> Desc]
    <2>1. ASSUME NEW d \in Desc PROVE next'[d] \in Desc
        <3>1. CASE \E k \in 1 .. n : w[k] = d
            <4>1. PICK k \in 1 .. n : w[k] = d
                BY <3>1
            <4>2. k = 1 \/ k - 1 \in 1 .. n
                BY <1>11
            <4> QED
                BY <1>14, <1>15, <1>16, <4>1, <4>2
        <3>2. CASE \A k \in 1 .. n : w[k] # d
            BY <1>15, <1>17, <3>2
        <3> QED
            BY <3>1, <3>2
    <2>2. next' = [d \in Desc |-> next'[d]]
        BY <1>10
    <2> QED
        BY <2>1, <2>2
<1>19. \A e \in Heads : e # h => /\ \A k \in 1 .. n : w[k] \notin Chain(e)
                                 /\ next'[e] = next[e] /\ next'[next[e]] = next[next[e]]
                                 /\ Chain(e)' = Chain(e)
    <2> SUFFICES ASSUME NEW e \in Heads, e # h
                 PROVE  /\ \A k \in 1 .. n : w[k] \notin Chain(e)
                        /\ next'[e] = next[e] /\ next'[next[e]] = next[next[e]]
                        /\ Chain(e)' = Chain(e)
        OBVIOUS
    <2>1. Chain(e) \cap Chain(h) = {}
        BY <1>7 DEF RingInv, Chains
    <2>2. \A k \in 1 .. n : w[k] \notin Chain(e)
        BY <1>14, <2>1
    <2>3. e \in Desc /\ next[e] \in Desc
        BY ChainTypes DEF RingInv
    <2>4. next'[e] = next[e] /\ next'[next[e]] = next[next[e]]
        BY <1>17, <2>2, <2>3 DEF Chain
    <2> QED
        BY <2>2, <2>4 DEF Chain
<1>20. h \notin Range(avail) /\ h \notin Range(served)
    BY <1>6 DEF RingInv, Queues
<1>21. Heads' = Heads \ {h}
    BY <1>6, <1>10, <1>20 DEF Heads
<1>22. /\ num_free' = num_free + n /\ free_head' = w[n]
       /\ 0 .. num_free' - 1 = 0 .. num_free + n - 1 /\ 0 .. num_free' - 2 = 0 .. num_free + n - 2
    <2>1. num_free' = num_free + n /\ free_head' = w[n]
        BY <1>10, <1>11
    <2>2. num_free' - 1 = num_free + n - 1 /\ num_free' - 2 = num_free + n - 2
        BY <1>11, <1>15, <2>1
    <2> QED
        BY <2>1, <2>2
<1>23. RingTypes'
    BY <1>6, <1>10, <1>11, <1>14, <1>15, <1>18, <1>22 DEF RingInv, RingTypes
<1>24. Queues'
    BY <1>6, <1>10 DEF RingInv, Queues
<1>25. Chains'
    BY <1>19, <1>21 DEF RingInv, Chains
<1>26. PICK g : g = [i \in 0 .. num_free + n - 1 |-> IF i < n THEN w[n - i] ELSE f[i - n]]
    OBVIOUS
<1>27. \A i \in 0 .. n - 1 : n - i \in 1 .. n /\ i \in 0 .. num_free + n - 1 /\ g[i] = w[n - i]
    BY <1>11, <1>15, <1>26
<1>28. \A i \in n .. num_free + n - 1 : /\ i - n \in 0 .. num_free - 1 /\ i \in 0 .. num_free + n - 1
                                       /\ g[i] = f[i - n]
    BY <1>11, <1>15, <1>26
<1>29. \A i \in 0 .. num_free + n - 1 : i \in 0 .. n - 1 \/ i \in n .. num_free + n - 1
    BY <1>11, <1>15
<1>30. \A i \in 0 .. num_free - 1 : f[i] \in Desc /\ f[i] \notin Chain(h) /\ next'[f[i]] = next[f[i]]
    <2> SUFFICES ASSUME NEW i \in 0 .. num_free - 1
                 PROVE  f[i] \in Desc /\ f[i] \notin Chain(h) /\ next'[f[i]] = next[f[i]]
        OBVIOUS
    <2>1. f[i] \in Desc
        BY <1>1 DEF FreePath
    <2>2. f[i] \notin Chain(h)
        BY <1>1, <1>7 DEF Apart
    <2> QED
        BY <1>14, <1>17, <2>1, <2>2
<1>31. FreePath(g)'
    <2>1. g \in [0 .. num_free' - 1 -> Desc]
        <3>1. \A i \in 0 .. num_free + n - 1 : g[i] \in Desc
            BY <1>14, <1>27, <1>28, <1>29, <1>30
        <3> QED
            BY <1>22, <1>26, <3>1
    <2>2. ASSUME NEW i \in 0 .. num_free' - 1, NEW j \in 0 .. num_free' - 1, g[i] = g[j] PROVE i = j
        <3>0. i \in 0 .. num_free + n - 1 /\ j \in 0 .. num_free + n - 1
            BY <1>22
        <3>1. CASE i \in 0 .. n - 1 /\ j \in 0 .. n - 1
            <4>1. n - i = n - j
                BY <1>13, <1>27, <2>2, <3>1
            <4> QED
                BY <1>11, <3>1, <4>1
        <3>2. CASE i \in n .. num_free + n - 1 /\ j \in n .. num_free + n - 1
            <4>1. i - n = j - n
                BY <1>1, <1>28, <2>2, <3>2 DEF FreePath
            <4> QED
                BY <1>11, <1>15, <3>2, <4>1
        <3>3. CASE i \in 0 .. n - 1 /\ j \in n .. num_free + n - 1
            BY <1>14, <1>27, <1>28, <1>30, <2>2, <3>3
        <3>4. CASE j \in 0 .. n - 1 /\ i \in n .. num_free + n - 1
            BY <1>14, <1>27, <1>28, <1>30, <2>2, <3>4
        <3> QED
            BY <1>29, <3>0, <3>1, <3>2, <3>3, <3>4
    <2>3. g[0] = free_head'
        BY <1>11, <1>22, <1>27
    <2>4. ASSUME NEW i \in 0 .. num_free' - 2 PROVE next'[g[i]] = g[i + 1]
        <3>1. CASE i < n - 1
            <4>1. i \in 0 .. n - 1 /\ i + 1 \in 0 .. n - 1 /\ n - i \in 1 .. n /\ n - i # 1
                  /\ n - i - 1 = n - (i + 1)
                BY <1>11, <3>1
            <4> QED
                BY <1>16, <1>27, <4>1
        <3>2. CASE i = n - 1
            <4>1. i \in 0 .. n - 1 /\ n - i = 1 /\ i + 1 \in n .. num_free + n - 1 /\ i + 1 - n = 0 /\ 1 \in 1 .. n
                  /\ num_free > 0
                BY <1>11, <1>15, <1>22, <3>2
            <4>2. next'[w[1]] = free_head
                BY <1>16, <4>1
            <4>3. g[i] = w[1] /\ g[i + 1] = f[0]
                BY <1>27, <1>28, <4>1
            <4> QED
                BY <1>1, <4>1, <4>2, <4>3 DEF FreePath
        <3>3. CASE i > n - 1
            <4>1. /\ i \in n .. num_free + n - 1 /\ i + 1 \in n .. num_free + n - 1
                  /\ i - n \in 0 .. num_free - 2 /\ i - n \in 0 .. num_free - 1 /\ i + 1 - n = i - n + 1
                BY <1>11, <1>15, <1>22, <3>3
            <4>2. next[f[i - n]] = f[i - n + 1]
                BY <1>1, <4>1 DEF FreePath
            <4> QED
                BY <1>28, <1>30, <4>1, <4>2
        <3> QED
            BY <1>11, <1>15, <1>22, <3>1, <3>2, <3>3
    <2>5. ASSUME NEW i \in 0 .. num_free' - 1, g[i] = 0
          PROVE  \E k \in Nat : i = 3 * k \/ i = 3 * k + 2
        <3>0. i \in 0 .. num_free + n - 1
            BY <1>22
        <3>1. CASE i \in 0 .. n - 1
            <4>1. n - i \in 1 .. n /\ w[n - i] = 0
                BY <1>27, <2>5, <3>1
            <4>2. n = 3 /\ n - i = 1
                <5>1. n - i = 1 \/ n - i = 2 \/ (n - i = 3 /\ n = 3)
                    BY <1>11, <4>1
                <5>2. n - i # 2
                    BY <1>8, <1>12, <4>1
                <5>3. ~(n - i = 3 /\ n = 3)
                    BY <1>11, <1>12, <4>1
                <5>4. n # 2
                    <6> SUFFICES ASSUME n = 2 PROVE FALSE
                        OBVIOUS
                    <6>1. b = 0 /\ h = 0
                        BY <1>11, <1>12, <4>1, <5>1, <5>2, <5>3
                    <6> QED
                        BY <1>8, <6>1
                <5> QED
                    BY <1>11, <5>1, <5>2, <5>3, <5>4
            <4>3. i = 3 * 0 + 2
                BY <3>1, <4>2
            <4> QED
                BY <4>3
        <3>2. CASE i \in n .. num_free + n - 1
            <4>1. i - n \in 0 .. num_free - 1 /\ f[i - n] = 0 /\ f[i - n] \notin Chain(h)
                BY <1>28, <1>30, <2>5, <3>2
            <4>2. n = 3
                BY <1>8, <1>11, <4>1
            <4>3. PICK k \in Nat : i - n = 3 * k \/ i - n = 3 * k + 2
                BY <1>1, <4>1 DEF FreePath
            <4>4. k + 1 \in Nat /\ (i = 3 * (k + 1) \/ i = 3 * (k + 1) + 2)
                BY <3>2, <4>2, <4>3
            <4> QED
                BY <4>4
        <3> QED
            BY <1>29, <3>0, <3>1, <3>2
    <2> QED
        BY <2>1, <2>2, <2>3, <2>4, <2>5 DEF FreePath
<1>32. Apart(g)'
    <2> SUFFICES ASSUME NEW e \in Heads', NEW i \in 0 .. num_free' - 1 PROVE g[i] \notin Chain(e)'
        BY DEF Apart
    <2>0. i \in 0 .. num_free + n - 1 /\ e \in Heads /\ e # h
        BY <1>21, <1>22
    <2>1. CASE i \in 0 .. n - 1
        BY <1>19, <1>27, <2>0, <2>1
    <2>2. CASE i \in n .. num_free + n - 1
        BY <1>1, <1>19, <1>28, <2>0, <2>2 DEF Apart
    <2> QED
        BY <1>29, <2>0, <2>1, <2>2
<1>33. Covered(g)'
    <2> SUFFICES ASSUME NEW d \in Desc, d # 0
                 PROVE  (\E i \in 0 .. num_free' - 1 : g[i] = d) \/ \E e \in Heads' : d \in Chain(e)'
        BY DEF Covered
    <2>1. ASSUME NEW i \in 0 .. num_free - 1, f[i] = d PROVE \E j \in 0 .. num_free' - 1 : g[j] = d
        <3>1. i + n \in n .. num_free + n - 1 /\ i + n - n = i /\ i + n \in 0 .. num_free' - 1
            BY <1>11, <1>15, <1>22
        <3> QED
            BY <1>28, <2>1, <3>1
    <2>2. CASE d \in Chain(h)
        <3>1. \E k \in 1 .. n : d = w[k]
            BY <1>8, <1>11, <1>12, <2>2
        <3>2. PICK k \in 1 .. n : d = w[k]
            BY <3>1
        <3>3. n - k \in 0 .. n - 1 /\ n - (n - k) = k /\ n - k \in 0 .. num_free' - 1
            BY <1>11, <1>15, <1>22
        <3> QED
            BY <1>27, <3>2, <3>3
    <2>3. ASSUME NEW e \in Heads, d \in Chain(e), d \notin Chain(h) PROVE \E c \in Heads' : d \in Chain(c)'
        <3>1. e \in Heads' /\ Chain(e)' = Chain(e)
            BY <1>19, <1>21, <2>3
        <3> QED
            BY <2>3, <3>1
    <2> QED
        BY <1>1, <2>1, <2>2, <2>3 DEF Covered
<1>34. RingInv'
    BY <1>23, <1>24, <1>25, <1>31, <1>32, <1>33 DEF RingInv
<1>35. \A e \in Range(avail) : e \in Heads /\ e # h
    BY <1>20 DEF Heads
<1> QED
    BY <1>10, <1>19, <1>34, <1>35

\* The links from free_head on are the way through the free list.
LEMMA FreeAtIs ==
    ASSUME RingTypes, NEW f, FreePath(f)
    PROVE  \A n \in 0 .. num_free - 1 : FreeAt[n] = f[n]
<1>1. next \in [Desc -> Desc] /\ free_head \in Desc /\ num_free \in Nat
    BY DEF RingTypes
<1>2. \E g \in [Nat -> Desc] : g = [n \in Nat |-> IF n = 0 THEN free_head ELSE next[g[n - 1]]]
    BY <1>1, IterationExists
<1>3. FreeAt = [n \in Nat |-> IF n = 0 THEN free_head ELSE next[FreeAt[n - 1]]]
    BY <1>2 DEF FreeAt
<1>4. \A n \in Nat : FreeAt[n] = IF n = 0 THEN free_head ELSE next[FreeAt[n - 1]]
    BY <1>3
<1> DEFINE Off == {n \in 0 .. num_free - 1 : FreeAt[n] # f[n]}
<1> SUFFICES ASSUME Off # {} PROVE FALSE
    OBVIOUS
<1>5. Off \subseteq Nat
    BY <1>1
<1>6. PICK n \in Off : \A k \in Off : n <= k
    BY <1>5, NatMin
<1>7. n # 0
    BY <1>1, <1>4, <1>6 DEF FreePath
<1>8. n \in Nat /\ n - 1 \in 0 .. num_free - 2 /\ n - 1 \in 0 .. num_free - 1 /\ n - 1 + 1 = n /\ ~(n <= n - 1)
    BY <1>1, <1>6, <1>7
<1>9. FreeAt[n - 1] = f[n - 1]
    BY <1>6, <1>8
<1>10. next[f[n - 1]] = f[n - 1 + 1]
    BY <1>8 DEF FreePath
<1>11. FreeAt[n] = f[n]
    BY <1>4, <1>7, <1>8, <1>9, <1>10
<1> QED
    BY <1>6, <1>11

LEMMA RingSound == RingInv => DescriptorsSound
<1> SUFFICES ASSUME RingInv PROVE DescriptorsSound
    OBVIOUS
<1>1. PICK f : FreePath(f) /\ Apart(f) /\ Covered(f)
    BY DEF RingInv
<1>2. num_free \in Nat /\ RingTypes
    BY DEF RingInv, RingTypes
<1>3. FreeList = {f[n] : n \in 0 .. num_free - 1}
    BY <1>1, <1>2, FreeAtIs DEF FreeList
<1>4. f \in Bijection(0 .. num_free - 1, FreeList)
    <2>1. f \in [0 .. num_free - 1 -> FreeList] /\ \A x \in FreeList : \E n \in 0 .. num_free - 1 : f[n] = x
        BY <1>1, <1>3 DEF FreePath
    <2>2. IsInjective(f)
        BY <1>1, <2>1 DEF FreePath, IsInjective
    <2> QED
        BY <2>1, <2>2 DEF Bijection, Injection, Surjection
<1>5. Cardinality(FreeList) = num_free
    <2>1. IsFiniteSet(0 .. num_free - 1) /\ Cardinality(0 .. num_free - 1) = num_free
        BY <1>2, FS_Interval
    <2> QED
        BY <1>4, <2>1, FS_Bijection DEF ExistsBijection
<1>6. ASSUME NEW h \in Heads PROVE Cardinality(Chain(h)) = 3 /\ Chain(h) \cap FreeList = {}
    <2>1. PICK a, b : a = next[h] /\ b = next[a]
        OBVIOUS
    <2>2. h # a /\ h # b /\ a # b /\ Chain(h) = ({h} \cup {a}) \cup {b}
        BY <2>1 DEF RingInv, Chains, Chain
    <2>3. IsFiniteSet({h}) /\ Cardinality({h}) = 1
        BY FS_Singleton
    <2>4. IsFiniteSet({h} \cup {a}) /\ Cardinality({h} \cup {a}) = 2
        BY <2>2, <2>3, FS_AddElement
    <2>5. Cardinality(Chain(h)) = 3
        BY <2>2, <2>4, FS_AddElement
    <2> QED
        BY <1>1, <1>3, <2>5 DEF Apart
<1>7. \A g, h \in Heads : g = h \/ Chain(g) \cap Chain(h) = {}
    BY DEF RingInv, Chains
<1>8. Len(avail \o served \o used) = Cardinality(Heads)
    <2>1. avail \in Seq(Desc) /\ served \in Seq(Desc) /\ used \in Seq(Desc)
        BY DEF RingInv, RingTypes
    <2>2. Len(avail \o served \o used) = Len(avail) + Len(served) + Len(used)
        BY <2>1
    <2>3. /\ IsFiniteSet(Range(avail)) /\ Cardinality(Range(avail)) = Len(avail)
          /\ IsFiniteSet(Range(served)) /\ Cardinality(Range(served)) = Len(served)
          /\ IsFiniteSet(Range(used)) /\ Cardinality(Range(used)) = Len(used)
        BY <2>1, RangeCardinality DEF RingInv, Queues
    <2>5. PICK m : m = Range(avail) \cup Range(served)
        OBVIOUS
    <2>6. IsFiniteSet(m) /\ Cardinality(m) = Len(avail) + Len(served)
        <3>1. PICK a, b : a = Range(avail) /\ b = Range(served)
            OBVIOUS
        <3>2. a \cap b = {}
            BY <3>1 DEF RingInv, Queues
        <3>3. IsFiniteSet(a) /\ IsFiniteSet(b) /\ m = a \cup b
            BY <2>3, <2>5, <3>1
        <3>4. IsFiniteSet(a \cup b) /\ Cardinality(a \cup b) = Cardinality(a) + Cardinality(b)
            BY ONLY <3>2, <3>3, DisjointUnion
        <3> QED
            BY <2>3, <3>1, <3>3, <3>4
    <2>7. m \cap Range(used) = {} /\ Heads = m \cup Range(used)
        BY <2>5 DEF RingInv, Queues, Heads
    <2>8. PICK u : u = Range(used)
        OBVIOUS
    <2>9. Cardinality(m \cup u) = Cardinality(m) + Cardinality(u)
        BY <2>3, <2>6, <2>7, <2>8, DisjointUnion
    <2>10. Cardinality(Heads) = Cardinality(m) + Len(used)
        BY <2>3, <2>7, <2>8, <2>9
    <2>11. Cardinality(Heads) = (Len(avail) + Len(served)) + Len(used)
        BY <2>6, <2>10
    <2> QED
        BY <2>2, <2>11
<1>9. Desc \subseteq FreeList \cup (UNION {Chain(h) : h \in Heads}) \cup {0}
    BY <1>1, <1>3 DEF Covered
<1> QED
    BY <1>5, <1>6, <1>7, <1>8, <1>9 DEF DescriptorsSound

LEMMA RingNext == RingInv /\ [BlkNext]_bvars => RingInv'
<1> SUFFICES ASSUME RingInv, [BlkNext]_bvars PROVE RingInv'
    OBVIOUS
<1> USE DEF driver, device
<1>1. ASSUME NEW c, NEW lba, NEW data, Call(c, lba, data) PROVE RingInv'
    BY <1>1, RingStutters DEF Call
<1>2. CASE Again
    BY <1>2, RingStutters DEF Again
<1>3. CASE Post
    BY <1>3, PostRing
<1>4. CASE Reclaim
    BY <1>4, ReclaimRing
<1>5. CASE TimeOut
    BY <1>5, RingStutters DEF TimeOut
<1>6. CASE Finish
    BY <1>6, RingStutters DEF Finish
<1>7. ASSUME NEW k \in 1 .. Len(avail), NEW fails \in BOOLEAN, Serve(k, fails) PROVE RingInv'
    BY <1>7, ServeRing
<1>8. CASE Report
    BY <1>8, ReportRing
<1>9. CASE UNCHANGED bvars
    BY <1>9, RingStutters DEF bvars
<1> QED
    BY <1>1, <1>2, <1>3, <1>4, <1>5, <1>6, <1>7, <1>8, <1>9 DEF BlkNext

\* Whatever is given up, answered late or out of order, every descriptor is free
\* or in one chain of the device, but for descriptor 0, and the free list is as
\* long as num_free says: RingInv, by induction over the steps.
THEOREM DescriptorsKept == BlkSpec => []DescriptorsSound
<1>1. BlkSpec => []RingInv
    BY RingInit, RingNext, PTL DEF BlkSpec
<1> QED
    BY <1>1, RingSound, PTL

-----------------------------------------------------------------------------
(* Contents *)

Values == Contents \cup {Zero}
Operations ==
    [call : Calls, lba : Sectors, data : Seq(Values), i : Nat,
     stage : {"post", "wait", "check"}, chain : Seq(Desc)]
Active == op.call # "none"

OpType ==
    \/ op = None
    \/ /\ op \in Operations
       /\ op.i \in 1 .. Len(op.data) /\ op.lba + Len(op.data) <= total_sectors
       /\ op.stage # "post" => Len(op.chain) = 3

DataTypes ==
    /\ OpType
    /\ hdr \in [Desc -> [type : Calls, sector : Sectors]]
    /\ content \in [Desc -> Values] /\ disk \in [Sectors -> Values]
    /\ status \in [Desc -> {"ok", "ioerr", "unset"}]
    /\ written \in [Sectors -> SUBSET Values]

\* The sector of the j-th unit of the call.
At(j) == op.lba + j - 1

\* What the device has yet to write may be written.
PendingTrue ==
    \A h \in Range(avail) : hdr[h].type = "write" => content[next[h]] \in written[hdr[h].sector]

\* The request of the call in progress is the last that the device has.
OwnPending ==
    /\ avail # << >> /\ avail[Len(avail)] = op.chain[1]
    /\ op.chain[2] = next[op.chain[1]] /\ op.chain[3] = next[op.chain[2]]
    /\ status[op.chain[3]] = "unset"
    /\ hdr[op.chain[1]] = [type |-> op.call, sector |-> Here]
    /\ op.call = "write" => content[op.chain[2]] = op.data[op.i]

\* Sectors that are done, the request on its way, and what its status says.
OwnWrites ==
    op.call = "write" =>
        \A j \in 1 .. Len(op.data) : /\ op.data[j] \in written[At(j)]
                                     /\ j < op.i => disk[At(j)] = op.data[j]
OwnReads == op.call = "read" => \A j \in 1 .. Len(op.data) : j < op.i => op.data[j] \in written[At(j)]
OwnAlone == op.i > 1 => IF op.stage = "post" THEN avail = << >> ELSE Range(avail) \subseteq {op.chain[1]}
OwnStatus ==
    op.stage # "post" =>
        /\ avail = << >> \/ OwnPending
        /\ status[op.chain[3]] = "ok" =>
             /\ avail = << >>
             /\ op.call = "write" => disk[Here] = op.data[op.i]
             /\ op.call = "read" => content[op.chain[2]] \in written[Here]

DiskInv ==
    /\ DataTypes /\ AckedStays /\ PendingTrue /\ AnswersTrue
    /\ Active => OwnWrites /\ OwnReads /\ OwnAlone /\ OwnStatus

\* What is done of the call, with e for its data: on the disk, or as it may be read.
OwnPart(e) ==
    \A j \in 1 .. Len(op.data) : j <= op.i =>
        /\ op.call = "write" => disk[At(j)] = e[j]
        /\ op.call = "read" => e[j] \in written[At(j)]

LEMMA DiskInit == BlkInit => DiskInv
<1> SUFFICES ASSUME BlkInit PROVE DiskInv
    OBVIOUS
<1>1. 0 \in Desc /\ 0 \in Sectors /\ total_sectors \in Nat
    BY VirtioBlkAssumption DEF Desc, Sectors
<1>2. op = None /\ answer = None /\ avail = << >>
    BY DEF BlkInit
<1>3. DataTypes
    BY <1>1 DEF BlkInit, DataTypes, OpType, Values, Calls
<1>4. AckedStays
    BY DEF BlkInit, AckedStays
<1>5. PendingTrue
    BY <1>2 DEF PendingTrue, Range
<1>6. AnswersTrue /\ ~Active
    BY <1>2 DEF AnswersTrue, Active, None
<1> QED
    BY <1>3, <1>4, <1>5, <1>6 DEF DiskInv

LEMMA OpFacts ==
    ASSUME DataTypes, Active
    PROVE  /\ op \in Operations /\ op.i \in 1 .. Len(op.data) /\ Len(op.data) \in Nat
           /\ op.stage # "post" => Len(op.chain) = 3 /\ \A k \in 1 .. 3 : op.chain[k] \in Desc
           /\ op.lba \in Nat /\ op.lba + Len(op.data) <= total_sectors
           /\ \A j \in 1 .. Len(op.data) : At(j) \in Sectors /\ op.data[j] \in Values
           /\ Here = At(op.i) /\ Here \in Sectors
<1>1. op \in Operations /\ op.i \in 1 .. Len(op.data) /\ op.lba + Len(op.data) <= total_sectors
      /\ (op.stage # "post" => Len(op.chain) = 3)
    BY DEF DataTypes, OpType, Active, None
<1>2. op.lba \in Sectors /\ op.data \in Seq(Values) /\ op.chain \in Seq(Desc)
    BY <1>1 DEF Operations
<1>3. op.lba \in Nat /\ Len(op.data) \in Nat /\ total_sectors \in Nat
    BY <1>2, VirtioBlkAssumption DEF Sectors
<1>4. \A j \in 1 .. Len(op.data) : At(j) \in Sectors
    BY <1>1, <1>3 DEF At, Sectors
<1>5. \A j \in 1 .. Len(op.data) : op.data[j] \in Values
    BY <1>2
<1>6. op.stage # "post" => \A k \in 1 .. 3 : op.chain[k] \in Desc
    BY <1>1, <1>2
<1> QED
    BY <1>1, <1>3, <1>4, <1>5, <1>6 DEF Here, At

\* A step after which no call is in progress.
LEMMA CallEnds ==
    ASSUME DiskInv, op' = None, UNCHANGED <<hdr, content, disk, status, written, avail, next>>,
           answer'.stage # "OK"
    PROVE  DiskInv'
<1>1. DataTypes'
    BY DEF DiskInv, DataTypes, OpType
<1>2. AckedStays' /\ PendingTrue'
    BY DEF DiskInv, AckedStays, PendingTrue
<1>3. AnswersTrue'
    BY DEF AnswersTrue
<1>4. ~Active'
    BY DEF Active, None
<1> QED
    BY <1>1, <1>2, <1>3, <1>4 DEF DiskInv

LEMMA ReturnKeeps ==
    ASSUME DiskInv, Active, NEW rc \in {"EAGAIN", "EIO"}, Return(rc),
           UNCHANGED <<hdr, content, disk, status, avail, next>>
    PROVE  DiskInv'
<1>1. op \in Operations
    BY OpFacts DEF DiskInv
<1>2. op' = None /\ answer' = [op EXCEPT !.stage = rc]
    BY DEF Return
<1>3. answer'.stage = rc
    BY <1>1, <1>2 DEF Operations
<1>4. written' = written
    BY DEF Return, DiskInv, DataTypes
<1> QED
    BY <1>2, <1>3, <1>4, CallEnds

LEMMA DiskStutters ==
    ASSUME DiskInv, UNCHANGED <<op, answer, hdr, content, disk, status, written, avail, next>>
    PROVE  DiskInv'
<1>1. DataTypes'
    BY DEF DiskInv, DataTypes, OpType
<1>2. AckedStays' /\ PendingTrue' /\ AnswersTrue'
    BY DEF DiskInv, AckedStays, PendingTrue, AnswersTrue, Span
<1>3. Active' => OwnWrites' /\ OwnReads' /\ OwnAlone' /\ OwnStatus'
    BY DEF DiskInv, Active, OwnWrites, OwnReads, OwnAlone, OwnStatus, OwnPending, At, Here
<1> QED
    BY <1>1, <1>2, <1>3 DEF DiskInv

LEMMA AvailTypes ==
    ASSUME RingInv, DataTypes
    PROVE  \A h \in Range(avail) : h \in Desc /\ h \in Heads /\ hdr[h].sector \in Sectors /\ hdr[h].type \in Calls
                                 /\ next[h] \in Desc /\ next[next[h]] \in Desc
<1>1. \A h \in Range(avail) : h \in Heads
    BY DEF Heads
<1>2. \A h \in Heads : h \in Desc /\ next[h] \in Desc /\ next[next[h]] \in Desc
    BY ChainTypes DEF RingInv
<1>3. \A h \in Desc : hdr[h] \in [type : Calls, sector : Sectors]
    BY DEF DataTypes
<1> QED
    BY <1>1, <1>2, <1>3

LEMMA CallKeeps ==
    ASSUME DiskInv, RingInv, NEW call \in Calls, NEW lba \in Sectors, NEW data \in Seq(Values), Len(data) \in Nat \ {0},
           Call(call, lba, data)
    PROVE  DiskInv'
<1>1. op = None /\ UNCHANGED <<hdr, content, disk, status, avail, next>>
    BY DEF Call, driver, device
<1>2. CASE lba + Len(data) > total_sectors
    <2>1. op' = None /\ written' = written /\ answer' = Request(call, lba, data, "EINVAL")
        BY <1>1, <1>2 DEF Call
    <2>2. answer'.stage # "OK"
        BY <2>1 DEF Request
    <2> QED
        BY <1>1, <2>1, <2>2, CallEnds
<1>3. CASE ~(lba + Len(data) > total_sectors)
    <2>1. /\ op' = Request(call, lba, data, "post") /\ answer' = None
          /\ written' = [s \in Sectors |->
                 IF call = "write" /\ s \in Span(op')
                 THEN written[s] \union {data[s - lba + 1]} ELSE written[s]]
        BY <1>3 DEF Call
    <2>2. /\ op'.call = call /\ op'.lba = lba /\ op'.data = data /\ op'.i = 1 /\ op'.stage = "post"
          /\ op'.chain = << >> /\ op' \in Operations
        BY <2>1 DEF Request, Operations
    <2>3. lba \in Nat /\ total_sectors \in Nat /\ lba + Len(data) <= total_sectors
        BY <1>3, VirtioBlkAssumption DEF Sectors
    <2>4. \A s \in Sectors : s \in Span(op') <=> s - lba + 1 \in 1 .. Len(data)
        BY <2>2, <2>3 DEF Span, Sectors
    <2>14. PICK w : w = written'
        OBVIOUS
    <2>5. w = [s \in Sectors |-> w[s]]
        BY <2>1, <2>14
    <2>12. ASSUME NEW s \in Sectors
           PROVE  written[s] \subseteq w[s] /\ w[s] \subseteq Values
        <3>1. written[s] \subseteq Values
            BY DEF DiskInv, DataTypes
        <3>2. s - lba + 1 \in 1 .. Len(data) => data[s - lba + 1] \in Values
            OBVIOUS
        <3>3. w[s] = IF call = "write" /\ s \in Span(op') THEN written[s] \union {data[s - lba + 1]} ELSE written[s]
            BY <2>1, <2>14
        <3> QED
            BY <2>4, <3>1, <3>2, <3>3
    <2>13. ASSUME call = "write", NEW j \in 1 .. Len(data), NEW s \in Sectors, s = lba + j - 1
           PROVE  data[j] \in w[s]
        <3>1. s - lba + 1 = j
            BY <2>3, <2>13
        <3>2. w[s] = IF call = "write" /\ s \in Span(op') THEN written[s] \union {data[s - lba + 1]} ELSE written[s]
            BY <2>1, <2>14
        <3> QED
            BY <2>4, <2>13, <3>1, <3>2
    <2>6. DataTypes'
        <3>1. OpType'
            BY <2>2, <2>3 DEF OpType
        <3>2. w \in [Sectors -> SUBSET Values]
            BY <2>5, <2>12
        <3>3. /\ hdr' \in [Desc -> [type : Calls, sector : Sectors]]
              /\ content' \in [Desc -> Values] /\ disk' \in [Sectors -> Values]
              /\ status' \in [Desc -> {"ok", "ioerr", "unset"}]
            BY <1>1 DEF DiskInv, DataTypes
        <3> QED
            BY <2>14, <3>1, <3>2, <3>3 DEF DataTypes
    <2>7. AckedStays'
        <3>1. \A s \in Sectors : disk[s] \in w[s]
            BY <2>12 DEF DiskInv, AckedStays
        <3> QED
            BY <1>1, <2>14, <3>1 DEF AckedStays
    <2>8. PendingTrue'
        <3> SUFFICES ASSUME NEW h \in Range(avail), hdr[h].type = "write"
                     PROVE  content[next[h]] \in w[hdr[h].sector]
            BY <1>1, <2>14 DEF PendingTrue
        <3>1. content[next[h]] \in written[hdr[h].sector]
            BY DEF DiskInv, PendingTrue
        <3>2. hdr[h].sector \in Sectors
            BY AvailTypes DEF DiskInv
        <3> QED
            BY <2>12, <3>1, <3>2
    <2>9. AnswersTrue'
        BY <2>1 DEF AnswersTrue, None
    <2>10. OwnWrites'
        <3>1. ASSUME call = "write", NEW j \in 1 .. Len(data)
              PROVE  data[j] \in w[lba + j - 1] /\ ~(j < 1)
            <4>1. lba + j - 1 \in Sectors
                BY <2>3 DEF Sectors
            <4> QED
                BY <2>13, <3>1, <4>1
        <3> QED
            BY <2>2, <2>14, <3>1 DEF OwnWrites, At
    <2>11. OwnReads' /\ OwnAlone' /\ OwnStatus'
        BY <2>2 DEF OwnReads, OwnAlone, OwnStatus
    <2> QED
        BY <2>6, <2>7, <2>8, <2>9, <2>10, <2>11 DEF DiskInv
<1> QED
    BY <1>2, <1>3

LEMMA PostKeeps ==
    ASSUME DiskInv, RingInv, Post
    PROVE  DiskInv'
<1>1. PICK d0, d1, d2 \in Desc : Posted(d0, d1, d2)
    BY PostRing
<1>2. Active /\ op.stage = "post" /\ UNCHANGED <<disk, answer, written>>
    BY DEF Post, Active
<1>3. /\ op \in Operations /\ op.i \in 1 .. Len(op.data) /\ Len(op.data) \in Nat
      /\ op.lba + Len(op.data) <= total_sectors
      /\ op.data[op.i] \in Values /\ Here = At(op.i) /\ Here \in Sectors
    BY <1>2, OpFacts DEF DiskInv
<1>4. /\ op'.call = op.call /\ op'.lba = op.lba /\ op'.data = op.data /\ op'.i = op.i
      /\ op'.stage = "wait" /\ op'.chain = <<d0, d1, d2>> /\ op' \in Operations
    <2>1. PICK c : c = <<d0, d1, d2>>
        OBVIOUS
    <2>2. c \in Seq(Desc)
        BY <2>1
    <2>3. op' = [op EXCEPT !.stage = "wait", !.chain = c]
        BY <1>1, <2>1 DEF Posted
    <2> QED
        BY <1>3, <2>1, <2>2, <2>3 DEF Operations
<1>5. op.call \in Calls /\ op.call # "none"
    BY <1>2, <1>3 DEF Operations, Active
<1>6. op'.chain[1] = d0 /\ op'.chain[2] = d1 /\ op'.chain[3] = d2 /\ Len(op'.chain) = 3
    BY <1>4
<1>7. PICK x : x = IF op.call = "write" THEN op.data[op.i] ELSE Zero
    OBVIOUS
<1>8. x \in Values /\ content' = [content EXCEPT ![d1] = x]
    BY <1>1, <1>3, <1>7 DEF Posted, Values
<1>9. PICK q : q = [type |-> op.call, sector |-> Here]
    OBVIOUS
<1>10. /\ q \in [type : Calls, sector : Sectors] /\ q.type = op.call /\ q.sector = Here
       /\ hdr' = [hdr EXCEPT ![d0] = q]
    BY <1>1, <1>3, <1>5, <1>9 DEF Posted
<1>11. /\ content \in [Desc -> Values] /\ hdr \in [Desc -> [type : Calls, sector : Sectors]]
       /\ status \in [Desc -> {"ok", "ioerr", "unset"}] /\ disk \in [Sectors -> Values]
       /\ written \in [Sectors -> SUBSET Values] /\ avail \in Seq(Desc)
    BY DEF DiskInv, DataTypes, RingInv, RingTypes
<1>12. /\ content'[d1] = x /\ \A d \in Desc : d # d1 => content'[d] = content[d]
       /\ hdr'[d0] = q /\ \A d \in Desc : d # d0 => hdr'[d] = hdr[d]
       /\ status'[d2] = "unset"
    BY <1>1, <1>8, <1>10, <1>11 DEF Posted
<1>13. DataTypes'
    <2>1. OpType'
        BY <1>3, <1>4, <1>6 DEF OpType
    <2>2. hdr' \in [Desc -> [type : Calls, sector : Sectors]] /\ content' \in [Desc -> Values]
        BY <1>8, <1>10, <1>11
    <2>3. status' \in [Desc -> {"ok", "ioerr", "unset"}]
        BY <1>1, <1>11 DEF Posted
    <2> QED
        BY <1>2, <1>11, <2>1, <2>2, <2>3 DEF DataTypes
<1>14. AckedStays' /\ AnswersTrue'
    BY <1>2 DEF DiskInv, AckedStays, AnswersTrue, Span
<1>15. /\ Range(avail') = Range(avail) \cup {d0} /\ avail' # << >> /\ avail'[Len(avail')] = d0
       /\ avail = << >> => Range(avail') = {d0}
    <2>1. Len(avail) \in Nat /\ avail' = Append(avail, d0) /\ Len(avail') = Len(avail) + 1
        BY <1>1, <1>11 DEF Posted
    <2>2. Range(avail') = Range(avail) \cup {d0}
        BY <1>11, <2>1, AppendFacts
    <2>3. avail = << >> => Range(avail) = {}
        BY DEF Range
    <2> QED
        BY <1>11, <2>1, <2>2, <2>3
<1>16. PendingTrue'
    <2>1. ASSUME NEW h \in Range(avail), hdr'[h].type = "write"
          PROVE  content'[next'[h]] \in written[hdr'[h].sector]
        <3>1. h \in Desc /\ h \in Heads /\ next[h] \in Desc
            BY AvailTypes DEF DiskInv
        <3>2. h # d0 /\ next[h] # d1 /\ next'[h] = next[h]
            BY <1>1, <3>1 DEF Posted, Chain
        <3>3. hdr'[h] = hdr[h] /\ content'[next'[h]] = content[next[h]]
            BY <1>12, <3>1, <3>2
        <3> QED
            BY <2>1, <3>3 DEF DiskInv, PendingTrue
    <2>2. hdr'[d0].type = "write" => content'[next'[d0]] \in written[hdr'[d0].sector]
        <3>1. op.call = "write" => op.data[op.i] \in written[Here]
            <4>2. OwnWrites
                BY <1>2 DEF DiskInv
            <4>1. op.call = "write" => \A j \in 1 .. Len(op.data) : op.data[j] \in written[At(j)]
                BY ONLY <4>2 DEF OwnWrites
            <4> QED
                BY <1>3, <4>1
        <3>2. next'[d0] = d1
            BY <1>1 DEF Posted
        <3> QED
            BY <1>7, <1>10, <1>12, <3>1, <3>2
    <2> QED
        BY <1>2, <1>15, <2>1, <2>2 DEF PendingTrue
<1>17. Here' = Here /\ \A j : At(j)' = At(j)
    BY <1>4 DEF Here, At
<1>18. OwnWrites' /\ OwnReads'
    BY <1>2, <1>4, <1>17 DEF DiskInv, OwnWrites, OwnReads
<1>19. OwnAlone'
    <2>1. op.i > 1 => avail = << >>
        BY <1>2 DEF DiskInv, OwnAlone
    <2> QED
        BY <1>4, <1>6, <1>15, <2>1 DEF OwnAlone
<1>20. OwnStatus'
    <2>1. next'[d0] = d1 /\ next'[d1] = d2
        BY <1>1 DEF Posted
    <2>2. hdr'[d0] = [type |-> op'.call, sector |-> Here']
        BY <1>4, <1>9, <1>12, <1>17
    <2>3. op'.call = "write" => content'[d1] = op'.data[op'.i]
        BY <1>4, <1>7, <1>12
    <2>4. OwnPending'
        BY <1>6, <1>12, <1>15, <2>1, <2>2, <2>3 DEF OwnPending
    <2>5. status'[op'.chain[3]] # "ok"
        BY <1>6, <1>12
    <2> QED
        BY <2>4, <2>5 DEF OwnStatus
<1> QED
    BY <1>13, <1>14, <1>16, <1>18, <1>19, <1>20 DEF DiskInv

\* The chain that is freed is not one the device has yet to serve.
LEMMA ReclaimKeeps ==
    ASSUME DiskInv, RingInv, Reclaim
    PROVE  DiskInv'
<1>1. /\ avail' = avail /\ UNCHANGED <<hdr, content, status, disk, answer, written>>
      /\ \A h \in Range(avail) : next'[h] = next[h] /\ next'[next[h]] = next[next[h]]
    BY ReclaimRing DEF Reclaim, device
<1>2. Active /\ op.stage = "wait" /\ op' = [op EXCEPT !.stage = "check"]
    BY DEF Reclaim, Active
<1>3. op \in Operations /\ op.i \in 1 .. Len(op.data) /\ op.lba + Len(op.data) <= total_sectors /\ Len(op.chain) = 3
    BY <1>2, OpFacts DEF DiskInv
<1>4. /\ op'.call = op.call /\ op'.lba = op.lba /\ op'.data = op.data /\ op'.i = op.i
      /\ op'.stage = "check" /\ op'.chain = op.chain /\ op' \in Operations
    BY <1>2, <1>3 DEF Operations
<1>5. DataTypes'
    <2>1. OpType'
        BY <1>3, <1>4 DEF OpType
    <2> QED
        BY <1>1, <2>1 DEF DiskInv, DataTypes
<1>6. AckedStays' /\ AnswersTrue' /\ PendingTrue'
    BY <1>1 DEF DiskInv, AckedStays, AnswersTrue, Span, PendingTrue
<1>7. Here' = Here /\ \A j : At(j)' = At(j)
    BY <1>4 DEF Here, At
<1>8. OwnWrites' /\ OwnReads' /\ OwnAlone'
    BY <1>1, <1>2, <1>4, <1>7 DEF DiskInv, OwnWrites, OwnReads, OwnAlone
<1>9. OwnStatus'
    <2>1. ASSUME OwnPending PROVE OwnPending'
        <3>1. avail \in Seq(Desc) /\ avail # << >> /\ avail[Len(avail)] = op.chain[1]
            BY <2>1 DEF OwnPending, RingInv, RingTypes
        <3>2. op.chain[1] \in Range(avail)
            <4>1. Len(avail) \in 1 .. Len(avail)
                BY <3>1
            <4> QED
                BY <3>1, <4>1 DEF Range
        <3>3. op.chain[2] = next'[op.chain[1]] /\ op.chain[3] = next'[op.chain[2]]
            BY <1>1, <2>1, <3>2 DEF OwnPending
        <3> QED
            BY <1>1, <1>4, <1>7, <2>1, <3>3 DEF OwnPending
    <2>2. avail = << >> \/ OwnPending
        BY <1>2 DEF DiskInv, OwnStatus
    <2>3. status[op.chain[3]] = "ok" =>
             /\ avail = << >>
             /\ op.call = "write" => disk[Here] = op.data[op.i]
             /\ op.call = "read" => content[op.chain[2]] \in written[Here]
        BY <1>2 DEF DiskInv, OwnStatus
    <2> QED
        BY <1>1, <1>4, <1>7, <2>1, <2>2, <2>3 DEF OwnStatus
<1> QED
    BY <1>5, <1>6, <1>8, <1>9 DEF DiskInv

\* One sector is done; the last one ends the call, and nothing of a write is pending then.
LEMMA FinishKeeps ==
    ASSUME DiskInv, RingInv, Finish
    PROVE  DiskInv'
<1>1. Active /\ op.stage = "check" /\ UNCHANGED <<hdr, content, disk, status, avail, next>>
    BY DEF Finish, Active, driver, device
<1>2. /\ op \in Operations /\ op.i \in 1 .. Len(op.data) /\ Len(op.data) \in Nat /\ op.lba \in Nat
      /\ op.lba + Len(op.data) <= total_sectors
      /\ Len(op.chain) = 3 /\ Here = At(op.i) /\ Here \in Sectors /\ op.chain[2] \in Desc
      /\ \A j \in 1 .. Len(op.data) : At(j) \in Sectors
    BY <1>1, OpFacts DEF DiskInv
<1>3. OwnWrites /\ OwnReads /\ OwnAlone /\ OwnStatus
    BY <1>1 DEF DiskInv
<1>4. CASE ~Succeeded
    <2>1. Return("EIO")
        BY <1>4 DEF Finish
    <2> QED
        BY <1>1, <2>1, ReturnKeeps
<1>5. CASE Succeeded
    <2>1. status[op.chain[3]] = "ok"
        BY <1>5 DEF Succeeded
    <2>2. /\ avail = << >>
          /\ op.call = "write" => disk[Here] = op.data[op.i]
          /\ op.call = "read" => content[op.chain[2]] \in written[Here]
        BY <1>1, <1>3, <2>1 DEF OwnStatus
    <2>3. PICK x : x = content[op.chain[2]]
        OBVIOUS
    <2>4. PICK got : got = IF op.call = "read" THEN [op EXCEPT !.data[op.i] = x] ELSE op
        OBVIOUS
    <2>5. x \in Values
        BY <1>2, <2>3 DEF DiskInv, DataTypes
    <2>6. op.data \in Seq(Values) /\ op.call \in Calls /\ op.i \in Nat
        BY <1>2 DEF Operations
    <2>7. PICK e : e = IF op.call = "read" THEN [op.data EXCEPT ![op.i] = x] ELSE op.data
        OBVIOUS
    <2>8. /\ e \in Seq(Values) /\ Len(e) = Len(op.data)
          /\ \A j \in 1 .. Len(op.data) : j # op.i \/ op.call # "read" => e[j] = op.data[j]
          /\ op.call = "read" => e[op.i] = x
        BY <1>2, <2>5, <2>6, <2>7
    <2>9. /\ got.call = op.call /\ got.lba = op.lba /\ got.data = e /\ got.i = op.i
          /\ got.stage = op.stage /\ got.chain = op.chain /\ got \in Operations
        BY <1>2, <2>4, <2>7, <2>8 DEF Operations
    <2>10. OwnPart(e)
        <3>1. ASSUME op.call = "write", NEW j \in 1 .. Len(op.data), j <= op.i PROVE disk[At(j)] = e[j]
            BY <1>2, <1>3, <2>2, <2>8, <3>1 DEF OwnWrites
        <3>2. ASSUME op.call = "read", NEW j \in 1 .. Len(op.data), j <= op.i PROVE e[j] \in written[At(j)]
            BY <1>2, <1>3, <2>2, <2>3, <2>8, <3>2 DEF OwnReads
        <3> QED
            BY <3>1, <3>2 DEF OwnPart
    <2>11. PendingTrue'
        BY <1>1, <2>2 DEF PendingTrue, Range
    <2>12. CASE op.i < Len(op.data)
        <3>1. op' = [got EXCEPT !.i = @ + 1, !.stage = "post"] /\ UNCHANGED <<answer, written>>
            BY <1>5, <2>3, <2>4, <2>12 DEF Finish
        <3>2. /\ op'.call = op.call /\ op'.lba = op.lba /\ op'.data = e /\ op'.i = op.i + 1
              /\ op'.stage = "post" /\ op' \in Operations
            <4>1. PICK m : m = op.i + 1
                OBVIOUS
            <4>2. m \in Nat
                BY <2>6, <4>1
            <4>3. op' = [got EXCEPT !.i = m, !.stage = "post"]
                BY <2>9, <3>1, <4>1
            <4> QED
                BY <2>9, <4>1, <4>2, <4>3 DEF Operations
        <3>3. DataTypes'
            <4>1. OpType'
                BY <1>2, <2>8, <2>12, <3>2 DEF OpType
            <4> QED
                BY <1>1, <3>1, <4>1 DEF DiskInv, DataTypes
        <3>4. AckedStays' /\ AnswersTrue'
            BY <1>1, <3>1 DEF DiskInv, AckedStays, AnswersTrue, Span
        <3>5. \A j : At(j)' = At(j)
            BY <3>2 DEF At
        <3>6. \A j \in 1 .. Len(op.data) : j < op'.i => j <= op.i
            BY <1>2, <3>2
        <3>7. OwnWrites'
            <4>1. op.call = "write" => e = op.data
                BY <2>7
            <4>2. op.call = "write" => \A j \in 1 .. Len(op.data) : e[j] \in written[At(j)]
                BY <1>3, <4>1 DEF OwnWrites
            <4> QED
                BY <1>1, <2>8, <2>10, <3>1, <3>2, <3>5, <3>6, <4>2 DEF OwnWrites, OwnPart
        <3>8. OwnReads'
            BY <1>1, <2>8, <2>10, <3>1, <3>2, <3>5, <3>6 DEF OwnReads, OwnPart
        <3>9. OwnAlone' /\ OwnStatus'
            BY <1>1, <2>2, <3>2 DEF OwnAlone, OwnStatus
        <3> QED
            BY <2>11, <3>3, <3>4, <3>7, <3>8, <3>9 DEF DiskInv
    <2>13. CASE ~(op.i < Len(op.data))
        <3>1. /\ answer' = [got EXCEPT !.stage = "OK"] /\ op' = None
              /\ written' = [s \in Sectors |->
                    IF op.call = "write" /\ s \in Span(op) THEN {op.data[s - op.lba + 1]} ELSE written[s]]
            BY <1>5, <2>3, <2>4, <2>13 DEF Finish
        <3>2. op.i = Len(op.data)
            BY <1>2, <2>13
        <3>3. PICK w : w = written'
            OBVIOUS
        <3>4. w = [s \in Sectors |-> w[s]]
            BY <3>1, <3>3
        <3>5. ASSUME NEW s \in Sectors PROVE w[s] \subseteq Values /\ disk[s] \in w[s]
            <4>1. w[s] = IF op.call = "write" /\ s \in Span(op) THEN {op.data[s - op.lba + 1]} ELSE written[s]
                BY <3>1, <3>3
            <4>2. written[s] \subseteq Values /\ disk[s] \in written[s]
                BY DEF DiskInv, DataTypes, AckedStays
            <4>3. ASSUME op.call = "write", s \in Span(op)
                  PROVE  op.data[s - op.lba + 1] \in Values /\ disk[s] = op.data[s - op.lba + 1]
                <5>1. s \in Nat /\ s \in op.lba .. op.lba + Len(op.data) - 1
                    BY <4>3 DEF Sectors, Span
                <5>2. PICK j : j = s - op.lba + 1
                    OBVIOUS
                <5>3. j \in 1 .. Len(op.data) /\ j <= op.i /\ op.lba + j - 1 = s
                    <6>1. PICK a, n : a = op.lba /\ n = Len(op.data)
                        OBVIOUS
                    <6>2. a \in Nat /\ n \in Nat
                        BY <1>2, <6>1
                    <6>3. s \in Nat /\ s \in a .. a + n - 1 /\ j = s - a + 1
                        BY <5>1, <5>2, <6>1
                    <6>4. j \in 1 .. n /\ j <= n /\ a + j - 1 = s
                        BY ONLY <6>2, <6>3
                    <6> QED
                        BY <3>2, <6>1, <6>4
                <5>4. op.data[j] \in Values
                    BY <2>6, <5>3
                <5>5. disk[s] = e[j] /\ e[j] = op.data[j]
                    BY <2>7, <2>10, <4>3, <5>3 DEF OwnPart, At
                <5> QED
                    BY <5>2, <5>4, <5>5
            <4> QED
                BY <4>1, <4>2, <4>3
        <3>6. DataTypes'
            <4>1. w \in [Sectors -> SUBSET Values]
                BY <3>4, <3>5
            <4> QED
                BY <1>1, <3>1, <3>3, <4>1 DEF DiskInv, DataTypes, OpType
        <3>7. AckedStays'
            BY <1>1, <3>3, <3>5 DEF AckedStays
        <3>8. AnswersTrue'
            <4>1. answer'.call = op.call /\ answer'.lba = op.lba /\ answer'.data = e
                BY <2>9, <3>1 DEF Operations
            <4>2. ASSUME op.call = "read", NEW s \in op.lba .. op.lba + Len(op.data) - 1
                  PROVE  e[s - op.lba + 1] \in w[s]
                <5>2. PICK j : j = s - op.lba + 1
                    OBVIOUS
                <5>3. j \in 1 .. Len(op.data) /\ j <= op.i /\ op.lba + j - 1 = s
                    BY <1>2, <3>2, <5>2
                <5>4. e[j] \in written[s] /\ s \in Sectors
                    BY <1>2, <2>10, <4>2, <5>3 DEF OwnPart, At
                <5>5. w[s] = written[s]
                    BY <3>1, <3>3, <4>2, <5>4
                <5> QED
                    BY <5>2, <5>4, <5>5
            <4> QED
                BY <2>8, <3>3, <4>1, <4>2 DEF AnswersTrue, Span
        <3>9. ~Active'
            BY <3>1 DEF Active, None
        <3> QED
            BY <2>11, <3>6, <3>7, <3>8, <3>9 DEF DiskInv
    <2> QED
        BY <2>12, <2>13
<1> QED
    BY <1>4, <1>5

\* The device carries out the request it has had longest: it writes what may be
\* written, and reads what may be read; the request of the call comes last.
LEMMA ServeKeeps ==
    ASSUME DiskInv, RingInv, InOrder, NEW k \in 1 .. Len(avail), NEW fails \in BOOLEAN, Serve(k, fails)
    PROVE  DiskInv'
<1>1. PICK h : h = avail[1]
    OBVIOUS
<1>2. k = 1 /\ UNCHANGED <<next, hdr, op, answer, written>>
    BY DEF Serve, driver
<1>3. h \in Range(avail) /\ Range(avail') = Range(avail) \ {h} /\ avail' \in Seq(Desc) /\ avail' = Tail(avail)
    BY <1>1, <1>2, ServeRing
<1>4. PICK d, t, r : d = next[h] /\ t = next[d] /\ r = hdr[h]
    OBVIOUS
<1>5. /\ status' = [status EXCEPT ![t] = IF fails THEN "ioerr" ELSE "ok"]
      /\ disk' = IF ~fails /\ r.type = "write" THEN [disk EXCEPT ![r.sector] = content[d]] ELSE disk
      /\ content' = IF ~fails /\ r.type = "read" THEN [content EXCEPT ![d] = disk[r.sector]] ELSE content
    BY <1>1, <1>2, <1>4 DEF Serve
<1>6. h \in Desc /\ h \in Heads /\ d \in Desc /\ t \in Desc /\ r.sector \in Sectors /\ r.type \in Calls
    BY <1>3, <1>4, AvailTypes DEF DiskInv
<1>7. /\ content \in [Desc -> Values] /\ disk \in [Sectors -> Values]
      /\ status \in [Desc -> {"ok", "ioerr", "unset"}] /\ written \in [Sectors -> SUBSET Values]
      /\ hdr \in [Desc -> [type : Calls, sector : Sectors]]
    BY DEF DiskInv, DataTypes
<1>8. /\ \A s \in Sectors : disk[s] \in written[s]
      /\ r.type = "write" => content[d] \in written[r.sector]
    BY <1>3, <1>4 DEF DiskInv, AckedStays, PendingTrue
<1>9. content[d] \in Values /\ disk[r.sector] \in Values
    BY <1>6, <1>7
<1>10. content' \in [Desc -> Values] /\ disk' \in [Sectors -> Values] /\ status' \in [Desc -> {"ok", "ioerr", "unset"}]
    BY <1>5, <1>6, <1>7, <1>9
<1>11. DataTypes'
    BY <1>2, <1>7, <1>10 DEF DiskInv, DataTypes, OpType
<1>12. /\ \A s \in Sectors : s # r.sector => disk'[s] = disk[s]
       /\ disk'[r.sector] = IF ~fails /\ r.type = "write" THEN content[d] ELSE disk[r.sector]
       /\ \A x \in Desc : x # d => content'[x] = content[x]
       /\ content'[d] = IF ~fails /\ r.type = "read" THEN disk[r.sector] ELSE content[d]
       /\ \A x \in Desc : x # t => status'[x] = status[x]
       /\ status'[t] = IF fails THEN "ioerr" ELSE "ok"
    BY <1>5, <1>6, <1>7
<1>13. AckedStays' /\ AnswersTrue'
    <2>1. \A s \in Sectors : disk'[s] \in written[s]
        BY <1>8, <1>12
    <2> QED
        BY <1>2, <2>1 DEF AckedStays, DiskInv, AnswersTrue, Span
<1>14. \A g \in Range(avail') : g \in Range(avail) /\ g # h /\ g \in Desc /\ g \in Heads
    BY <1>3, AvailTypes DEF DiskInv
<1>15. ASSUME NEW g \in Range(avail') PROVE next[g] # d /\ next[g] \in Desc /\ next[next[g]] # t /\ next[next[g]] \in Desc
    <2>1. Chain(g) \cap Chain(h) = {}
        BY <1>6, <1>14 DEF RingInv, Chains
    <2> QED
        BY <1>4, <1>14, <2>1, AvailTypes DEF Chain, DiskInv
<1>16. PendingTrue'
    <2> SUFFICES ASSUME NEW g \in Range(avail'), hdr[g].type = "write"
                 PROVE  content'[next[g]] \in written[hdr[g].sector]
        BY <1>2 DEF PendingTrue
    <2>1. content'[next[g]] = content[next[g]]
        BY <1>12, <1>15
    <2> QED
        BY <1>14, <2>1 DEF DiskInv, PendingTrue
<1>17. SUFFICES ASSUME Active PROVE OwnWrites' /\ OwnReads' /\ OwnAlone' /\ OwnStatus'
    BY <1>2, <1>11, <1>13, <1>16 DEF DiskInv, Active
<1>18. OwnWrites /\ OwnReads /\ OwnAlone /\ OwnStatus
    BY <1>17 DEF DiskInv
<1>19. /\ op.i \in 1 .. Len(op.data) /\ Here = At(op.i) /\ op.lba \in Nat /\ Len(op.data) \in Nat
       /\ op.stage # "post" => Len(op.chain) = 3 /\ op.chain[2] \in Desc /\ op.chain[3] \in Desc
       /\ \A j \in 1 .. Len(op.data) : At(j) \in Sectors
       /\ Here \in Sectors
    BY <1>17, OpFacts DEF DiskInv
<1>20. Here' = Here /\ \A j : At(j)' = At(j)
    BY <1>2 DEF Here, At
<1>21. avail \in Seq(Desc) /\ avail # << >>
    BY <1>3 DEF RingInv, RingTypes, Range
\* A request already in the ring when a later sector's turn comes can only be the call's own.
<1>22. op.i > 1 => op.stage # "post" /\ h = op.chain[1] /\ OwnPending
    BY <1>3, <1>18, <1>21 DEF OwnAlone, OwnStatus
<1>23. OwnPending /\ h = op.chain[1] => d = op.chain[2] /\ t = op.chain[3] /\ r = [type |-> op.call, sector |-> Here]
    BY <1>4 DEF OwnPending
<1>24. OwnWrites'
    <2> SUFFICES ASSUME op.call = "write", NEW j \in 1 .. Len(op.data)
                 PROVE  op.data[j] \in written[At(j)] /\ (j < op.i => disk'[At(j)] = op.data[j])
        BY <1>2, <1>20 DEF OwnWrites
    <2>1. op.data[j] \in written[At(j)] /\ (j < op.i => disk[At(j)] = op.data[j])
        BY <1>18 DEF OwnWrites
    <2>2. ASSUME j < op.i PROVE At(j) # r.sector
        <3>1. op.i > 1 /\ At(j) # Here
            BY <1>19, <2>2 DEF At
        <3> QED
            BY <1>22, <1>23, <3>1
    <2> QED
        BY <1>12, <1>19, <2>1, <2>2
<1>25. OwnReads'
    BY <1>2, <1>18, <1>20 DEF OwnReads
<1>26. OwnAlone'
    BY <1>2, <1>3, <1>18, <1>21 DEF OwnAlone
<1>27. OwnStatus'
    <2> SUFFICES ASSUME op.stage # "post" PROVE OwnStatus'
        BY <1>2 DEF OwnStatus
    <2>1. OwnPending
        BY <1>18, <1>21 DEF OwnStatus
    <2>2. PICK own : own = op.chain[1]
        OBVIOUS
    <2>3. CASE h = own
        <3>1. d = op.chain[2] /\ t = op.chain[3] /\ r.type = op.call /\ r.sector = Here
            BY <1>23, <2>1, <2>2, <2>3
        <3>2. avail' = << >>
            <4>1. IsInjective(avail) /\ Len(avail) \in Nat /\ Len(avail) >= 1 /\ avail[Len(avail)] = avail[1]
                BY <1>1, <1>21, <2>1, <2>2, <2>3 DEF OwnPending, RingInv, Queues
            <4>3. 1 \in DOMAIN avail /\ Len(avail) \in DOMAIN avail
                BY <1>21, <4>1
            <4>2. Len(avail) = 1
                BY <4>1, <4>3 DEF IsInjective
            <4> QED
                BY <1>3, <1>21, <4>2
        <3>3. status'[op.chain[3]] = "ok" => ~fails
            BY <1>12, <3>1
        <3>4. op.call = "write" => op.data[op.i] = content[d]
            BY <2>1, <3>1 DEF OwnPending
        <3>5. ~fails /\ op.call = "write" => disk'[Here] = op.data[op.i]
            BY <1>12, <3>1, <3>4
        <3>6. ~fails /\ op.call = "read" => content'[d] \in written[Here]
            BY <1>8, <1>12, <1>19, <3>1
        <3> QED
            BY <1>2, <1>20, <3>1, <3>2, <3>3, <3>5, <3>6 DEF OwnStatus
    <2>4. CASE h # own
        <3>1. Len(avail) \in Nat /\ Len(avail) >= 1 /\ avail[Len(avail)] = own /\ Len(avail) # 1
            BY <1>1, <1>21, <2>1, <2>2, <2>4 DEF OwnPending
        <3>2. avail' # << >> /\ avail'[Len(avail')] = own /\ Len(avail') \in DOMAIN avail'
            <4>1. PICK n : n = Len(avail) - 1
                OBVIOUS
            <4>2. n \in Nat /\ n >= 1 /\ n + 1 = Len(avail)
                BY <3>1, <4>1
            <4>3. Len(avail') = n /\ avail'[n] = avail[n + 1]
                BY <1>3, <1>21, <4>2
            <4> QED
                BY <1>3, <3>1, <4>2, <4>3
        <3>3. own \in Range(avail')
            BY <3>2 DEF Range
        <3>4. op.chain[2] # d /\ op.chain[3] # t
            BY <1>15, <2>1, <2>2, <3>3 DEF OwnPending
        <3>5. status'[op.chain[3]] = "unset" /\ content'[op.chain[2]] = content[op.chain[2]]
            BY <1>12, <1>19, <2>1, <3>4 DEF OwnPending
        <3>6. OwnPending'
            BY <1>2, <1>20, <2>1, <2>2, <3>2, <3>5 DEF OwnPending
        <3> QED
            BY <1>2, <3>5, <3>6 DEF OwnStatus
    <2> QED
        BY <2>3, <2>4
<1> QED
    BY <1>24, <1>25, <1>26, <1>27

LEMMA DiskNext == InOrder /\ RingInv /\ DiskInv /\ [BlkNext]_bvars => DiskInv'
<1> SUFFICES ASSUME InOrder, RingInv, DiskInv, [BlkNext]_bvars PROVE DiskInv'
    OBVIOUS
<1> USE DEF driver, device
<1>1. ASSUME NEW lba \in Sectors, NEW n \in 1 .. MaxCount, NEW data \in [1 .. n -> Contents], Call("write", lba, data)
      PROVE  DiskInv'
    <2>1. data \in Seq(Values) /\ Len(data) \in Nat \ {0}
        BY DEF Values
    <2> QED
        BY <1>1, <2>1, CallKeeps DEF Calls
<1>2. ASSUME NEW lba \in Sectors, NEW n \in 1 .. MaxCount, Call("read", lba, [i \in 1 .. n |-> Zero])
      PROVE  DiskInv'
    <2>1. PICK data : data = [i \in 1 .. n |-> Zero]
        OBVIOUS
    <2>2. data \in Seq(Values) /\ Len(data) \in Nat \ {0}
        BY <2>1 DEF Values
    <2>3. Call("read", lba, data)
        BY <1>2, <2>1
    <2> QED
        BY <2>2, <2>3, CallKeeps DEF Calls
<1>3. CASE Again
    BY <1>3, ReturnKeeps DEF Again, Active
<1>4. CASE Post
    BY <1>4, PostKeeps
<1>5. CASE Reclaim
    BY <1>5, ReclaimKeeps
<1>6. CASE TimeOut
    BY <1>6, ReturnKeeps DEF TimeOut, Active
<1>7. CASE Finish
    BY <1>7, FinishKeeps
<1>8. ASSUME NEW k \in 1 .. Len(avail), NEW fails \in BOOLEAN, Serve(k, fails) PROVE DiskInv'
    BY <1>8, ServeKeeps
<1>9. CASE Report
    BY <1>9, DiskStutters DEF Report
<1>10. CASE UNCHANGED bvars
    BY <1>10, DiskStutters DEF bvars
<1> QED
    BY <1>1, <1>2, <1>3, <1>4, <1>5, <1>6, <1>7, <1>8, <1>9, <1>10 DEF BlkNext

\* With a device that serves in order, what a write has been acknowledged for is
\* on the disk and in what reads return, whichever answer the driver took for whose.
THEOREM BlocksTrue == InOrder => (BlkSpec => []DiskTrue)
<1> SUFFICES ASSUME InOrder PROVE BlkSpec => []DiskTrue
    OBVIOUS
<1>1. RingInv /\ DiskInv /\ [BlkNext]_bvars => RingInv' /\ DiskInv'
    BY RingNext, DiskNext
<1>2. DiskInv => DiskTrue
    BY DEF DiskInv, DiskTrue
<1> QED
    BY <1>1, <1>2, RingInit, DiskInit, PTL DEF BlkSpec

-----------------------------------------------------------------------------
(* The address of the interface *)

Gateways == {0, StaticGateway, TestGateway} \cup Servers
Routes == Seq([net : {"near", "ten", "all"}, gw : Gateways])
Clients == [state : {"INIT", "DISCOVER", "REQUEST", "BOUND"}, xid : Xids \cup {0}, done : BOOLEAN,
            bound : BOOLEAN, yiaddr : Nat, server_id : Nat, requested_ip : Nat, gw : {0} \cup Servers]
Starts == [at : {"idle", "reset", "xid", "send", "wait", "test"}, round : Nat, boot : BOOLEAN,
           ret : {"none", "ok", "timeout"}]

IsOffer(m) == m.kind = "offer" /\ m.server \in Servers /\ m.ip \in Pool[m.server] /\ m.gw = m.server
IsAck(m) == m.kind = "ack" /\ m.server \in Servers /\ m.ip \in Pool[m.server] /\ m.gw \in {0, m.server}

\* What was sent: answers name a server and an address of its pool, and so do requests.
Said(ms) ==
    \A m \in ms : /\ m.kind \in {"discover", "request", "offer", "ack"}
                  /\ m.kind = "request" => m.server \in Servers /\ m.ip \in Pool[m.server]
                  /\ m.kind = "offer" => IsOffer(m)
                  /\ m.kind = "ack" => IsAck(m)

\* Datagrams to the network of the interface go out directly, others to gw or the loopback.
NearDirect(rs) == \A i \in DOMAIN rs : rs[i].net = "near" => rs[i].gw = 0
Leads(rs, gw) ==
    /\ \E i \in DOMAIN rs : rs[i].net = "near"
    /\ \E i \in DOMAIN rs : /\ rs[i].net = "all" /\ rs[i].gw \in {gw, TestGateway}
                            /\ \A j \in DOMAIN rs : rs[j].net = "all" => i <= j

Leased == eth.ip \notin {0, StaticIp}

DhcpInv ==
    /\ client \in Clients /\ start \in Starts /\ routes \in Routes
    /\ Said(msgs)
    /\ running = NoMsg \/ IsOffer(running) \/ IsAck(running)
    /\ client.state = "REQUEST" \/ running.kind = "ack" => client.gw # 0
    /\ start.boot => running = NoMsg /\ (start.at \in {"reset", "xid"} => ~client.done)
    /\ client.done \/ start.ret = "ok" => Leased
    /\ Leased => eth.gateway \in Servers
    /\ NearDirect(routes)
    /\ eth.ip # 0 => Leads(routes, eth.gateway)

\* With one server: what it acknowledged is leased, for good.
OneServer == \A s, t \in Servers : s = t

Held(m) == m.kind = "ack" => lease[m.server] = m.ip

LeaseInv ==
    /\ lease \in [Servers -> Nat]
    /\ \A m \in msgs : Held(m)
    /\ Held(running)
    /\ Leased => lease[eth.gateway] = eth.ip

-----------------------------------------------------------------------------
LEMMA LeastIndex ==
    ASSUME NEW T, T \subseteq Nat, T # {}
    PROVE  Min(T) \in T /\ \A y \in T : Min(T) <= y
<1>1. \E x \in T : \A y \in T : x <= y
    BY NatMin
<1> QED
    BY <1>1 DEF Min

LEMMA LookupLeads ==
    ASSUME NEW rs \in Routes, NEW gw, NearDirect(rs), Leads(rs, gw)
    PROVE  /\ route_lookup(rs, "far").gw \in {gw, TestGateway}
           /\ route_lookup(rs, "near").gw = 0
<1>1. Len(rs) \in Nat /\ DOMAIN rs = 1..Len(rs)
    BY DEF Routes
<1>2. ASSUME NEW net PROVE Into(rs, net) \subseteq Nat
    BY <1>1 DEF Into
<1>3. route_lookup(rs, "far").gw \in {gw, TestGateway}
    <2>1. PICK i \in DOMAIN rs : /\ rs[i].net = "all" /\ rs[i].gw \in {gw, TestGateway}
                                 /\ \A j \in DOMAIN rs : rs[j].net = "all" => i <= j
        BY DEF Leads
    <2>2. i \in Into(rs, "all") /\ \A j \in Into(rs, "all") : i <= j
        BY <2>1 DEF Into
    <2>3. Min(Into(rs, "all")) = i
        <3>1. Min(Into(rs, "all")) \in Into(rs, "all") /\ Min(Into(rs, "all")) <= i
            BY <1>2, <2>2, LeastIndex
        <3>2. i \in Nat /\ Min(Into(rs, "all")) \in Nat /\ i <= Min(Into(rs, "all"))
            BY <1>2, <2>2, <3>1
        <3> QED
            BY <3>1, <3>2
    <2>4. Longest(rs, "far") = "all"
        <3>1. Fits("far") = <<"all">>
            BY DEF Fits
        <3>2. {k \in DOMAIN Fits("far") : Into(rs, Fits("far")[k]) # {}} = {1}
            BY <2>2, <3>1
        <3>3. Min({1}) \in {1}
            BY LeastIndex
        <3> QED
            BY <3>1, <3>2, <3>3 DEF Longest
    <2> QED
        BY <2>1, <2>3, <2>4 DEF route_lookup
<1>4. route_lookup(rs, "near").gw = 0
    <2>1. Into(rs, "near") # {}
        BY DEF Leads, Into
    <2>2. Min(Into(rs, "near")) \in Into(rs, "near")
        BY <1>2, <2>1, LeastIndex
    <2>3. Longest(rs, "near") = "near"
        <3>1. Fits("near") = <<"near", "ten", "all">>
            BY DEF Fits
        <3> DEFINE K == {k \in DOMAIN Fits("near") : Into(rs, Fits("near")[k]) # {}}
        <3>5. DOMAIN Fits("near") = 1..3 /\ Fits("near")[1] = "near"
            BY <3>1
        <3>2. 1 \in K /\ K \subseteq 1..3 /\ K # {} /\ K \subseteq Nat
            BY <2>1, <3>5
        <3> HIDE DEF K
        <3>3. Min(K) \in K /\ \A y \in K : Min(K) <= y
            BY <3>2, LeastIndex
        <3>4. Min(K) = 1
            <4>1. PICK x : x = Min(K)
                OBVIOUS
            <4>2. x \in 1..3 /\ x <= 1
                BY <3>2, <3>3, <4>1
            <4> QED
                BY <4>1, <4>2
        <3> QED
            BY <3>4, <3>5 DEF Longest, K
    <2> QED
        BY <2>2, <2>3 DEF route_lookup, Into, NearDirect
<1> QED
    BY <1>3, <1>4

\* Routes of a new address come first.
LEMMA AddLeads ==
    ASSUME NEW rs \in Routes, NearDirect(rs), NEW net \in {"near", "ten", "all"}, NEW gw \in Gateways
    PROVE  LET new == route_add(rs, net, gw)
           IN /\ new \in Routes /\ Len(new) = Len(rs) + 1
              /\ new[1] = [net |-> net, gw |-> gw]
              /\ \A i \in 1..Len(rs) : new[i + 1] = rs[i]
              /\ (net = "near" => gw = 0) => NearDirect(new)
<1> DEFINE T == [net : {"near", "ten", "all"}, gw : Gateways]
           r == [net |-> net, gw |-> gw]
           new == <<r>> \o rs
<1>1. r \in T /\ rs \in Seq(T)
    BY DEF Routes
<1>2. r.net = net /\ r.gw = gw
    OBVIOUS
<1> HIDE DEF T, r
<1>3. new \in Seq(T) /\ Len(new) = Len(rs) + 1 /\ new[1] = r /\ \A i \in 1..Len(rs) : new[i + 1] = rs[i]
    BY <1>1
<1>4. ASSUME net = "near" => gw = 0 PROVE NearDirect(new)
    <2>1. ASSUME NEW i \in DOMAIN new, new[i].net = "near" PROVE new[i].gw = 0
        <3>1. Len(rs) \in Nat /\ DOMAIN rs = 1..Len(rs) /\ DOMAIN new = 1..Len(rs) + 1
            BY <1>1, <1>3
        <3> HIDE DEF new
        <3>2. CASE i = 1
            BY <1>2, <1>3, <1>4, <2>1, <3>2
        <3>3. CASE i # 1
            <4>1. i - 1 \in 1..Len(rs) /\ new[i] = rs[i - 1]
                BY <1>3, <3>1, <3>3
            <4> QED
                BY <2>1, <3>1, <4>1 DEF NearDirect
        <3> QED
            BY <3>2, <3>3
    <2> QED
        BY <2>1 DEF NearDirect
<1>5. route_add(rs, net, gw) = new
    BY DEF route_add, r
<1> HIDE DEF new
<1> QED
    BY <1>3, <1>4, <1>5 DEF T, r, Routes

LEMMA RoutedLeads ==
    ASSUME NEW rs \in Routes, NearDirect(rs), NEW gw \in Gateways \ {0}
    PROVE  Routed(rs, gw) \in Routes /\ NearDirect(Routed(rs, gw)) /\ Leads(Routed(rs, gw), gw)
<1> DEFINE a == route_add(rs, "near", 0)
           b == route_add(a, "all", gw)
<1>0. 0 \in Gateways /\ gw \in Gateways
    BY DEF Gateways
<1>1. a \in Routes /\ NearDirect(a) /\ a[1] = [net |-> "near", gw |-> 0] /\ Len(a) = Len(rs) + 1
    BY <1>0, AddLeads
<1> HIDE DEF a
<1>2. /\ b \in Routes /\ NearDirect(b) /\ b[1] = [net |-> "all", gw |-> gw] /\ Len(b) = Len(a) + 1
      /\ \A i \in 1..Len(a) : b[i + 1] = a[i]
    BY <1>0, <1>1, AddLeads
<1> HIDE DEF b
<1>3. Len(rs) \in Nat /\ DOMAIN b = 1..Len(b)
    BY <1>2 DEF Routes
<1>4. 1 \in DOMAIN b /\ 2 \in DOMAIN b /\ b[2] = a[1]
    BY <1>1, <1>2, <1>3
<1>5. Leads(b, gw)
    <2>1. b[1].net = "all" /\ b[1].gw = gw /\ b[2].net = "near"
        BY <1>1, <1>2, <1>4
    <2>2. \A j \in DOMAIN b : 1 <= j
        BY <1>2, <1>3 DEF Routes
    <2> QED
        BY <1>4, <2>1, <2>2 DEF Leads
<1> QED
    BY <1>2, <1>5 DEF Routed, a, b

\* The self-test's routes leave the network of the interface alone and lead elsewhere to the loopback.
LEMMA TestLeads ==
    ASSUME NEW rs \in Routes, NearDirect(rs), NEW gw
    PROVE  LET new == route_add(route_add(rs, "ten", TestGateway), "all", TestGateway)
           IN new \in Routes /\ NearDirect(new) /\ (Leads(rs, gw) => Leads(new, gw))
<1> DEFINE a == route_add(rs, "ten", TestGateway)
           b == route_add(a, "all", TestGateway)
<1>0. TestGateway \in Gateways
    BY DEF Gateways
<1>1. a \in Routes /\ NearDirect(a) /\ Len(a) = Len(rs) + 1 /\ \A i \in 1..Len(rs) : a[i + 1] = rs[i]
    BY <1>0, AddLeads
<1> HIDE DEF a
<1>2. /\ b \in Routes /\ NearDirect(b) /\ b[1] = [net |-> "all", gw |-> TestGateway] /\ Len(b) = Len(a) + 1
      /\ \A i \in 1..Len(a) : b[i + 1] = a[i]
    BY <1>0, <1>1, AddLeads
<1> HIDE DEF b
<1>3. Len(rs) \in Nat /\ DOMAIN rs = 1..Len(rs) /\ DOMAIN b = 1..Len(b)
    BY <1>2 DEF Routes
<1>4. ASSUME Leads(rs, gw) PROVE Leads(b, gw)
    <2>1. PICK i \in 1..Len(rs) : rs[i].net = "near"
        BY <1>3, <1>4 DEF Leads
    <2>2. i + 1 \in 1..Len(a) /\ i + 1 + 1 \in DOMAIN b /\ b[i + 1 + 1] = rs[i]
        BY <1>1, <1>2, <1>3
    <2>3. 1 \in DOMAIN b /\ b[1].net = "all" /\ b[1].gw = TestGateway /\ \A j \in DOMAIN b : 1 <= j
        BY <1>1, <1>2, <1>3
    <2> QED
        BY <2>1, <2>2, <2>3 DEF Leads
<1> QED
    BY <1>2, <1>4 DEF a, b

-----------------------------------------------------------------------------
\* A callback of port 68, by whomever it is run and however late.
LEMMA CallbackKeeps ==
    ASSUME DhcpInv, NEW m, IsOffer(m) \/ IsAck(m), m.kind = "ack" => client.gw # 0,
           dhcp_udp_cb(m), UNCHANGED start, running' \in {running, NoMsg},
           start.boot => start.at = "wait"
    PROVE  DhcpInv'
<1> USE DhcpAssumption
<1>1. /\ client \in Clients /\ start \in Starts /\ routes \in Routes /\ Said(msgs)
      /\ running = NoMsg \/ IsOffer(running) \/ IsAck(running)
      /\ client.state = "REQUEST" \/ running.kind = "ack" => client.gw # 0
      /\ start.boot => running = NoMsg
      /\ client.done \/ start.ret = "ok" => Leased
      /\ Leased => eth.gateway \in Servers
      /\ NearDirect(routes) /\ (eth.ip # 0 => Leads(routes, eth.gateway))
    BY DEF DhcpInv
<1>2. m.server \in Servers /\ m.ip \in Pool[m.server] /\ m.ip \in Nat /\ m.server \in Nat /\ m.ip \notin {0, StaticIp}
    BY DEF IsOffer, IsAck
<1>3. NoMsg.kind = "none"
    BY DEF NoMsg
<1>4. CASE m.kind = "offer"
    <2>1. m.gw = m.server /\ Offered(m)
        BY <1>4 DEF IsOffer, IsAck, dhcp_udp_cb
    <2>2. /\ client' = [client EXCEPT !.yiaddr = m.ip, !.server_id = m.server, !.requested_ip = m.ip,
                                      !.gw = m.gw, !.state = "REQUEST"]
          /\ eth' = eth /\ routes' = routes
          /\ msgs' = msgs \cup {Query("request", client.xid, m.server, m.ip)}
        BY <2>1 DEF Offered
    <2>3. client' \in Clients /\ client'.gw = m.gw /\ client'.done = client.done
        BY <1>1, <1>2, <2>1, <2>2 DEF Clients
    <2>4. Said(msgs')
        BY <1>1, <1>2, <2>2 DEF Said, Query
    <2>5. m.gw # 0
        BY <1>2, <2>1
    <2>6. running' = NoMsg \/ IsOffer(running') \/ IsAck(running')
        BY <1>1
    <2>7. start.boot => running' = NoMsg /\ start.at = "wait"
        BY <1>1
    <2>8. Leased' <=> Leased
        BY <2>2 DEF Leased
    <2> QED
        BY <1>1, <2>2, <2>3, <2>4, <2>5, <2>6, <2>7, <2>8 DEF DhcpInv
<1>5. CASE m.kind = "ack"
    <2>1. m.gw \in {0, m.server} /\ Acked(m)
        BY <1>5 DEF IsOffer, IsAck, dhcp_udp_cb
    <2> DEFINE gw == IF m.gw # 0 THEN m.gw ELSE client.gw
    <2>2. gw \in Servers /\ gw # 0
        BY <1>1, <1>2, <1>5, <2>1 DEF Clients
    <2>3. /\ client' = [client EXCEPT !.yiaddr = m.ip, !.gw = gw, !.done = TRUE, !.state = "BOUND"]
          /\ eth' = [ip |-> m.ip, gateway |-> gw]
          /\ routes' = Routed(routes, gw) /\ msgs' = msgs
        BY <2>1 DEF Acked
    <2> HIDE DEF gw
    <2>4. client' \in Clients /\ client'.gw = gw
        BY <1>1, <1>2, <2>2, <2>3 DEF Clients
    <2>5. eth'.ip = m.ip /\ eth'.gateway = gw
        BY <2>3
    <2>6. routes' \in Routes /\ NearDirect(routes') /\ Leads(routes', gw)
        BY <1>1, <2>2, <2>3, RoutedLeads DEF Gateways
    <2>7. running' = NoMsg \/ IsOffer(running') \/ IsAck(running')
        BY <1>1
    <2>8. start.boot => running' = NoMsg /\ start.at = "wait"
        BY <1>1
    <2>9. Leased'
        BY <1>2, <2>5 DEF Leased
    <2> QED
        BY <1>1, <2>2, <2>3, <2>4, <2>5, <2>6, <2>7, <2>8, <2>9 DEF DhcpInv
<1> QED
    BY <1>4, <1>5 DEF IsOffer, IsAck

\* Fixed addresses, at boot, when no server gave one in time.
LEMMA ReturnsKeeps ==
    ASSUME DhcpInv, NEW ret \in {"ok", "timeout"}, Returns(ret), ret = "ok" => client.done,
           ret = "timeout" /\ start.boot => ~client.done,
           client' \in Clients, client'.state = client.state, client'.done = client.done, client'.gw = client.gw,
           UNCHANGED <<running, msgs>>
    PROVE  DhcpInv'
<1> USE DhcpAssumption
<1>1. /\ client \in Clients /\ start \in Starts /\ routes \in Routes /\ Said(msgs)
      /\ running = NoMsg \/ IsOffer(running) \/ IsAck(running)
      /\ client.state = "REQUEST" \/ running.kind = "ack" => client.gw # 0
      /\ start.boot => running = NoMsg
      /\ client.done \/ start.ret = "ok" => Leased
      /\ Leased => eth.gateway \in Servers
      /\ NearDirect(routes) /\ (eth.ip # 0 => Leads(routes, eth.gateway))
    BY DEF DhcpInv
<1> DEFINE at == IF start.boot THEN "test" ELSE "idle"
<1>2. start' = [start EXCEPT !.at = at, !.ret = ret] /\ at \in {"test", "idle"}
    BY DEF Returns
<1> HIDE DEF at
<1>3. start' \in Starts /\ start'.at = at /\ start'.ret = ret /\ start'.boot = start.boot
    BY <1>1, <1>2 DEF Starts
<1>4. CASE start.boot /\ ret = "timeout"
    <2>1. eth' = [ip |-> StaticIp, gateway |-> StaticGateway] /\ routes' = Routed(routes, StaticGateway)
        BY <1>4 DEF Returns
    <2>2. eth'.ip = StaticIp /\ eth'.gateway = StaticGateway
        BY <2>1
    <2>3. routes' \in Routes /\ NearDirect(routes') /\ Leads(routes', StaticGateway)
        <3>1. StaticGateway \in Gateways \ {0}
            BY DEF Gateways
        <3> QED
            BY <1>1, <2>1, <3>1, RoutedLeads
    <2>4. ~Leased' /\ ~client'.done
        BY <1>4, <2>2 DEF Leased
    <2> QED
        BY <1>1, <1>2, <1>3, <1>4, <2>2, <2>3, <2>4 DEF DhcpInv
<1>5. CASE ~ (start.boot /\ ret = "timeout")
    <2>1. eth' = eth /\ routes' = routes
        BY <1>5 DEF Returns
    <2>2. Leased' <=> Leased
        BY <2>1 DEF Leased
    <2> QED
        BY <1>1, <1>2, <1>3, <2>1, <2>2 DEF DhcpInv
<1> QED
    BY <1>4, <1>5

LEMMA DhcpStartsWell == DhcpInit => DhcpInv
<1> SUFFICES ASSUME DhcpInit PROVE DhcpInv
    OBVIOUS
<1> USE DhcpAssumption
<1>1. client \in Clients /\ ~client.done /\ client.state = "INIT"
    BY DEF DhcpInit, Clients
<1>2. start \in Starts /\ start.at = "idle" /\ start.ret = "none"
    BY DEF DhcpInit, Starts
<1>3. routes \in Routes /\ NearDirect(routes)
    BY DEF DhcpInit, Routes, NearDirect
<1>4. running = NoMsg /\ running.kind = "none" /\ msgs = {} /\ eth.ip = 0
    BY DEF DhcpInit, NoMsg
<1> QED
    BY <1>1, <1>2, <1>3, <1>4 DEF DhcpInv, Said, Leased

\* What was sent is true of an answer that is polled, and an acknowledgement is of a request.
LEMMA AcceptedIs ==
    ASSUME DhcpInv, NEW m \in Answers, Accepts(m)
    PROVE  (IsOffer(m) \/ IsAck(m)) /\ (m.kind = "ack" => client.gw # 0) /\ m \in msgs
<1>1. m \in msgs /\ m.kind \in {"offer", "ack"}
    BY DEF Answers
<1>2. m.kind = "ack" => client.state = "REQUEST"
    BY DEF Accepts
<1> QED
    BY <1>1, <1>2 DEF DhcpInv, Said

LEMMA DhcpKept == DhcpInv /\ [DhcpNext]_dhcp_vars => DhcpInv'
<1> SUFFICES ASSUME DhcpInv, [DhcpNext]_dhcp_vars PROVE DhcpInv'
    OBVIOUS
<1> USE DhcpAssumption
<1>1. /\ client \in Clients /\ start \in Starts /\ routes \in Routes /\ Said(msgs)
      /\ running = NoMsg \/ IsOffer(running) \/ IsAck(running)
      /\ client.state = "REQUEST" \/ running.kind = "ack" => client.gw # 0
      /\ start.boot => running = NoMsg /\ (start.at \in {"reset", "xid"} => ~client.done)
      /\ client.done \/ start.ret = "ok" => Leased
      /\ Leased => eth.gateway \in Servers
      /\ NearDirect(routes) /\ (eth.ip # 0 => Leads(routes, eth.gateway))
    BY DEF DhcpInv
<1>2. NoMsg.kind = "none"
    BY DEF NoMsg
<1>3. CASE net_tick
    <2>1. PICK m \in Answers : Accepts(m) /\ dhcp_udp_cb(m)
        BY <1>3 DEF net_tick
    <2>2. ~start.boot /\ UNCHANGED <<start, running>>
        BY <1>3 DEF net_tick
    <2> QED
        BY <2>1, <2>2, AcceptedIs, CallbackKeeps
<1>4. CASE DhcpStarts
    <2>1. /\ client' = [client EXCEPT !.done = FALSE]
          /\ start' = [start EXCEPT !.at = "reset", !.round = 0, !.ret = "none"]
          /\ UNCHANGED <<eth, routes, running, msgs>>
        BY <1>4 DEF DhcpStarts
    <2>2. client' \in Clients /\ client'.state = client.state /\ client'.gw = client.gw /\ ~client'.done
        BY <1>1, <2>1 DEF Clients
    <2>3. start' \in Starts /\ start'.at = "reset" /\ start'.ret = "none" /\ start'.boot = start.boot
        BY <1>1, <2>1 DEF Starts
    <2> QED
        BY <1>1, <2>1, <2>2, <2>3 DEF DhcpInv, Leased
<1>5. CASE DhcpResets
    <2>1. /\ client' = [client EXCEPT !.state = "INIT", !.server_id = 0, !.requested_ip = 0]
          /\ start' = [start EXCEPT !.at = "xid"] /\ start.at = "reset"
          /\ UNCHANGED <<eth, routes, running, msgs>>
        BY <1>5 DEF DhcpResets
    <2>2. client' \in Clients /\ client'.state = "INIT" /\ client'.gw = client.gw /\ client'.done = client.done
        BY <1>1, <2>1 DEF Clients
    <2>3. start' \in Starts /\ start'.at = "xid" /\ start'.ret = start.ret /\ start'.boot = start.boot
        BY <1>1, <2>1 DEF Starts
    <2> QED
        BY <1>1, <2>1, <2>2, <2>3 DEF DhcpInv, Leased
<1>6. CASE DhcpBinds
    <2>1. PICK x \in Xids \ xids, room \in BOOLEAN :
              /\ client' = [client EXCEPT !.xid = x, !.bound = @ \/ room]
              /\ IF client.bound \/ room
                 THEN start' = [start EXCEPT !.at = "send"] /\ UNCHANGED <<eth, routes>>
                 ELSE Returns("timeout")
        BY <1>6 DEF DhcpBinds
    <2>2. start.at = "xid" /\ UNCHANGED <<running, msgs>>
        BY <1>6 DEF DhcpBinds
    <2>3. /\ client' \in Clients /\ client'.state = client.state
          /\ client'.gw = client.gw /\ client'.done = client.done
        <3>1. client.bound \in BOOLEAN
            BY <1>1 DEF Clients
        <3>2. PICK b \in BOOLEAN : client' = [client EXCEPT !.xid = x, !.bound = b]
            BY <2>1, <3>1
        <3> QED
            BY <1>1, <3>2 DEF Clients
    <2>4. CASE client.bound \/ room
        <3>1. start' = [start EXCEPT !.at = "send"] /\ UNCHANGED <<eth, routes>>
            BY <2>1, <2>4
        <3>2. start' \in Starts /\ start'.at = "send" /\ start'.ret = start.ret /\ start'.boot = start.boot
            BY <1>1, <3>1 DEF Starts
        <3> QED
            BY <1>1, <2>2, <2>3, <3>1, <3>2 DEF DhcpInv, Leased
    <2>5. CASE ~ (client.bound \/ room)
        <3>1. Returns("timeout")
            BY <2>1, <2>5
        <3>2. start.boot => ~client.done
            BY <1>1, <2>2
        <3> QED
            BY <2>2, <2>3, <3>1, <3>2, ReturnsKeeps
    <2> QED
        BY <2>4, <2>5
<1>7. CASE dhcp_send_discover
    <2>1. /\ start' = [start EXCEPT !.at = "wait"]
          /\ UNCHANGED <<eth, routes, running>>
          /\ \/ /\ client' = [client EXCEPT !.state = "DISCOVER"]
                /\ msgs' = msgs \cup {Query("discover", client.xid, 0, 0)}
             \/ UNCHANGED <<client, msgs>>
        BY <1>7 DEF dhcp_send_discover
    <2>2. /\ client' \in Clients /\ client'.gw = client.gw /\ client'.done = client.done
          /\ client'.state = "REQUEST" => client.state = "REQUEST"
        BY <1>1, <2>1 DEF Clients
    <2>3. start' \in Starts /\ start'.at = "wait" /\ start'.ret = start.ret /\ start'.boot = start.boot
        BY <1>1, <2>1 DEF Starts
    <2>4. Said(msgs')
        BY <1>1, <2>1 DEF Said, Query
    <2> QED
        BY <1>1, <2>1, <2>2, <2>3, <2>4 DEF DhcpInv, Leased
<1>8. CASE Polls
    <2>1. PICK m \in Answers : /\ Accepts(m)
                               /\ IF start.boot
                                  THEN dhcp_udp_cb(m) /\ UNCHANGED running
                                  ELSE running' = m /\ UNCHANGED <<client, msgs, eth, routes>>
        BY <1>8 DEF Polls
    <2>2. start.at = "wait" /\ UNCHANGED start
        BY <1>8 DEF Polls
    <2>3. (IsOffer(m) \/ IsAck(m)) /\ (m.kind = "ack" => client.gw # 0)
        BY <2>1, AcceptedIs
    <2>4. CASE start.boot
        BY <2>1, <2>2, <2>3, <2>4, CallbackKeeps
    <2>5. CASE ~start.boot
        BY <1>1, <2>1, <2>2, <2>3, <2>5 DEF DhcpInv, Leased
    <2> QED
        BY <2>4, <2>5
<1>9. CASE CallbackGoesOn
    <2>1. running # NoMsg /\ dhcp_udp_cb(running) /\ running' = NoMsg /\ UNCHANGED start
        BY <1>9 DEF CallbackGoesOn
    <2> QED
        BY <1>1, <2>1, CallbackKeeps
<1>10. CASE RoundEnds
    <2>1. UNCHANGED <<client, running, msgs>>
        BY <1>10 DEF RoundEnds
    <2>2. CASE client.done
        <3>1. Returns("ok")
            BY <1>10, <2>2 DEF RoundEnds
        <3> QED
            BY <1>1, <2>1, <2>2, <3>1, ReturnsKeeps
    <2>3. CASE ~client.done /\ start.round + 1 < DHCP_ROUNDS
        <3>1. start' = [start EXCEPT !.at = "send", !.round = @ + 1] /\ UNCHANGED <<eth, routes>>
            BY <1>10, <2>3 DEF RoundEnds
        <3>2. PICK n \in Nat : n = start.round + 1
            BY <1>1 DEF Starts
        <3>3. start' = [start EXCEPT !.at = "send", !.round = n]
            BY <3>1, <3>2
        <3>4. start' \in Starts /\ start'.at = "send" /\ start'.ret = start.ret /\ start'.boot = start.boot
            BY <1>1, <3>3 DEF Starts
        <3> QED
            BY <1>1, <2>1, <3>1, <3>4 DEF DhcpInv, Leased
    <2>4. CASE ~client.done /\ ~ (start.round + 1 < DHCP_ROUNDS)
        <3>1. Returns("timeout")
            BY <1>10, <2>4 DEF RoundEnds
        <3> QED
            BY <1>1, <2>1, <2>4, <3>1, ReturnsKeeps
    <2> QED
        BY <2>2, <2>3, <2>4
<1>11. CASE test_route
    <2>1. /\ routes' = route_add(route_add(routes, "ten", TestGateway), "all", TestGateway)
          /\ start' = [start EXCEPT !.at = "idle", !.boot = FALSE]
          /\ UNCHANGED <<client, eth, running, msgs>>
        BY <1>11 DEF test_route
    <2>2. /\ routes' \in Routes /\ NearDirect(routes')
          /\ Leads(routes, eth.gateway) => Leads(routes', eth.gateway)
        BY <1>1, <2>1, TestLeads
    <2>3. start' \in Starts /\ start'.ret = start.ret /\ ~start'.boot
        BY <1>1, <2>1 DEF Starts
    <2> QED
        BY <1>1, <2>1, <2>2, <2>3 DEF DhcpInv, Leased
<1>12. ASSUME NEW s \in Servers, Offer(s) PROVE DhcpInv'
    <2>1. PICK q \in msgs, ip \in Pool[s] :
              /\ msgs' = msgs \cup {Answer("offer", q.xid, s, ip, s)}
              /\ UNCHANGED <<client, eth, routes, start, running>>
        BY <1>12 DEF Offer
    <2>2. Said(msgs')
        BY <1>1, <2>1 DEF Said, Answer, IsOffer
    <2> QED
        BY <1>1, <2>1, <2>2 DEF DhcpInv, Leased
<1>13. ASSUME NEW s \in Servers, Acknowledge(s) PROVE DhcpInv'
    <2>1. PICK q \in msgs, gw \in {0, s} :
              /\ q.kind = "request"
              /\ \/ q.server = s /\ msgs' = msgs \cup {Answer("ack", q.xid, s, q.ip, gw)}
                 \/ msgs' = msgs
              /\ UNCHANGED <<client, eth, routes, start, running>>
        BY <1>13 DEF Acknowledge
    <2>2. Said(msgs')
        <3>1. q.server \in Servers /\ q.ip \in Pool[q.server]
            BY <1>1, <2>1 DEF Said
        <3>2. CASE q.server = s /\ msgs' = msgs \cup {Answer("ack", q.xid, s, q.ip, gw)}
            <4>1. IsAck(Answer("ack", q.xid, s, q.ip, gw)) /\ Answer("ack", q.xid, s, q.ip, gw).kind = "ack"
                BY <3>1, <3>2 DEF Answer, IsAck
            <4> QED
                BY <1>1, <3>2, <4>1 DEF Said
        <3> QED
            BY <1>1, <2>1, <3>2
    <2> QED
        BY <1>1, <2>1, <2>2 DEF DhcpInv, Leased
<1>14. CASE UNCHANGED dhcp_vars
    BY <1>1, <1>14 DEF dhcp_vars, DhcpInv, Leased
<1> QED
    BY <1>3, <1>4, <1>5, <1>6, <1>7, <1>8, <1>9, <1>10, <1>11, <1>12, <1>13, <1>14 DEF DhcpNext

\* Whatever servers say: what dhcp_start reported is so, and the routes lead where they should.
THEOREM RoutesKept == DhcpSpec => []RoutesLead
<1>1. DhcpInv => RoutesLead
    <2> SUFFICES ASSUME DhcpInv PROVE RoutesLead
        OBVIOUS
    <2>1. eth.ip # 0 => /\ route_lookup(routes, "far").gw \in {eth.gateway, TestGateway}
                        /\ route_lookup(routes, "near").gw = 0
        BY LookupLeads DEF DhcpInv
    <2> QED
        BY <2>1 DEF RoutesLead, DhcpInv, Leased
<1> QED
    BY <1>1, DhcpStartsWell, DhcpKept, PTL DEF DhcpSpec

-----------------------------------------------------------------------------
\* With one server no request ever names another, so no lease is given up and each stays with its first address.
LEMMA CallbackHolds ==
    ASSUME OneServer, DhcpInv, LeaseInv, NEW m, IsOffer(m) \/ IsAck(m), Held(m), m.kind = "ack" => client.gw # 0,
           dhcp_udp_cb(m), running' \in {running, NoMsg}, lease' = lease
    PROVE  LeaseInv'
<1> USE DhcpAssumption
<1>1. lease \in [Servers -> Nat] /\ (\A x \in msgs : Held(x)) /\ Held(running) /\ (Leased => lease[eth.gateway] = eth.ip)
    BY DEF LeaseInv
<1>2. Held(running')
    BY <1>1 DEF Held, NoMsg
<1>3. \A x \in msgs : Held(x)'
    BY <1>1 DEF Held
<1>4. CASE m.kind = "offer"
    <2>1. eth' = eth /\ msgs' = msgs \cup {Query("request", client.xid, m.server, m.ip)}
        BY <1>4 DEF dhcp_udp_cb, Offered, IsOffer, IsAck
    <2>2. \A x \in msgs' : Held(x)'
        BY <1>3, <2>1 DEF Held, Query
    <2>3. Held(running)'
        BY <1>2 DEF Held
    <2> QED
        BY <1>1, <2>1, <2>2, <2>3 DEF LeaseInv, Leased
<1>5. CASE m.kind = "ack"
    <2> DEFINE gw == IF m.gw # 0 THEN m.gw ELSE client.gw
    <2>1. eth' = [ip |-> m.ip, gateway |-> gw] /\ msgs' = msgs
        BY <1>5 DEF dhcp_udp_cb, Acked, IsOffer, IsAck
    <2>2. gw \in Servers
        BY <1>5 DEF DhcpInv, Clients, IsOffer, IsAck
    <2>3. m.server \in Servers /\ lease[m.server] = m.ip
        BY <1>5 DEF Held, IsOffer, IsAck
    <2>4. lease[gw] = m.ip
        BY <2>2, <2>3 DEF OneServer
    <2> HIDE DEF gw
    <2>5. eth'.ip = m.ip /\ eth'.gateway = gw
        BY <2>1
    <2>6. \A x \in msgs' : Held(x)'
        BY <1>3, <2>1
    <2>7. Held(running)'
        BY <1>2 DEF Held
    <2> QED
        BY <1>1, <2>4, <2>5, <2>6, <2>7 DEF LeaseInv, Leased
<1> QED
    BY <1>4, <1>5 DEF IsOffer, IsAck

\* Steps that neither answer nor give an address.
LEMMA QuietHolds ==
    ASSUME LeaseInv, UNCHANGED lease, running' = running \/ Held(running'),
           \A m \in msgs' : m \in msgs \/ m.kind # "ack", eth' = eth \/ eth'.ip = StaticIp
    PROVE  LeaseInv'
<1>1. lease \in [Servers -> Nat] /\ (\A x \in msgs : Held(x)) /\ Held(running) /\ (Leased => lease[eth.gateway] = eth.ip)
    BY DEF LeaseInv
<1>2. \A x \in msgs' : Held(x)'
    BY <1>1 DEF Held
<1>3. Held(running)'
    BY <1>1 DEF Held
<1>4. Leased' => eth' = eth
    BY DEF Leased
<1> QED
    BY <1>1, <1>2, <1>3, <1>4 DEF LeaseInv, Leased

LEMMA ReturnsHolds ==
    ASSUME LeaseInv, NEW ret, Returns(ret), UNCHANGED <<running, msgs, lease>>
    PROVE  LeaseInv'
<1>1. eth' = eth \/ eth' = [ip |-> StaticIp, gateway |-> StaticGateway]
    BY DEF Returns
<1>2. eth' = eth \/ eth'.ip = StaticIp
    BY <1>1
<1> QED
    BY <1>2, QuietHolds

LEMMA LeaseKept == OneServer /\ DhcpInv /\ LeaseInv /\ [DhcpNext]_dhcp_vars => LeaseInv'
<1> SUFFICES ASSUME OneServer, DhcpInv, LeaseInv, [DhcpNext]_dhcp_vars PROVE LeaseInv'
    OBVIOUS
<1> USE DhcpAssumption
<1>1. lease \in [Servers -> Nat] /\ (\A x \in msgs : Held(x)) /\ Held(running) /\ (Leased => lease[eth.gateway] = eth.ip)
    BY DEF LeaseInv
<1>2. CASE net_tick
    <2>1. PICK m \in Answers : Accepts(m) /\ dhcp_udp_cb(m)
        BY <1>2 DEF net_tick
    <2>2. UNCHANGED <<running, lease>>
        BY <1>2 DEF net_tick
    <2>3. (IsOffer(m) \/ IsAck(m)) /\ (m.kind = "ack" => client.gw # 0) /\ Held(m)
        BY <1>1, <2>1, AcceptedIs
    <2> QED
        BY <2>1, <2>2, <2>3, CallbackHolds
<1>3. CASE DhcpStarts \/ DhcpResets \/ test_route \/ UNCHANGED dhcp_vars
    <2>1. UNCHANGED <<lease, running, msgs, eth>>
        BY <1>3 DEF DhcpStarts, DhcpResets, test_route, dhcp_vars
    <2> QED
        BY <2>1, QuietHolds
<1>4. CASE DhcpBinds
    <2>1. UNCHANGED <<running, msgs, lease>> /\ (eth' = eth \/ Returns("timeout"))
        BY <1>4 DEF DhcpBinds
    <2> QED
        BY <2>1, QuietHolds, ReturnsHolds
<1>5. CASE dhcp_send_discover
    <2>1. /\ UNCHANGED <<eth, running, lease>>
          /\ msgs' = msgs \/ msgs' = msgs \cup {Query("discover", client.xid, 0, 0)}
        BY <1>5 DEF dhcp_send_discover
    <2>2. \A m \in msgs' : m \in msgs \/ m.kind # "ack"
        BY <2>1 DEF Query
    <2> QED
        BY <2>1, <2>2, QuietHolds
<1>6. CASE Polls
    <2>1. PICK m \in Answers : /\ Accepts(m)
                               /\ IF start.boot
                                  THEN dhcp_udp_cb(m) /\ UNCHANGED running
                                  ELSE running' = m /\ UNCHANGED <<client, msgs, eth, routes>>
        BY <1>6 DEF Polls
    <2>2. UNCHANGED lease
        BY <1>6 DEF Polls
    <2>3. (IsOffer(m) \/ IsAck(m)) /\ (m.kind = "ack" => client.gw # 0) /\ Held(m)
        BY <1>1, <2>1, AcceptedIs
    <2>4. CASE start.boot
        BY <2>1, <2>2, <2>3, <2>4, CallbackHolds
    <2>5. CASE ~start.boot
        <3>1. Held(running') /\ UNCHANGED <<msgs, eth>>
            BY <2>1, <2>3, <2>5
        <3> QED
            BY <2>2, <3>1, QuietHolds
    <2> QED
        BY <2>4, <2>5
<1>7. CASE CallbackGoesOn
    <2>1. running # NoMsg /\ dhcp_udp_cb(running) /\ running' = NoMsg /\ UNCHANGED lease
        BY <1>7 DEF CallbackGoesOn
    <2>2. (IsOffer(running) \/ IsAck(running)) /\ (running.kind = "ack" => client.gw # 0)
        BY <2>1 DEF DhcpInv
    <2> QED
        BY <1>1, <2>1, <2>2, CallbackHolds
<1>8. CASE RoundEnds
    <2>1. UNCHANGED <<running, msgs, lease>> /\ (eth' = eth \/ Returns("ok") \/ Returns("timeout"))
        BY <1>8 DEF RoundEnds
    <2> QED
        BY <2>1, QuietHolds, ReturnsHolds
<1>9. ASSUME NEW s \in Servers, Offer(s) PROVE LeaseInv'
    <2>1. PICK q \in msgs, ip \in Pool[s] :
              /\ msgs' = msgs \cup {Answer("offer", q.xid, s, ip, s)}
              /\ UNCHANGED <<eth, running, lease>>
        BY <1>9 DEF Offer
    <2>2. \A m \in msgs' : m \in msgs \/ m.kind # "ack"
        BY <2>1 DEF Answer
    <2> QED
        BY <2>1, <2>2, QuietHolds
<1>10. ASSUME NEW s \in Servers, Acknowledge(s) PROVE LeaseInv'
    <2>1. PICK q \in msgs, gw \in {0, s} :
              /\ q.kind = "request"
              /\ IF q.server = s
                 THEN /\ lease[s] \in {0, q.ip}
                      /\ lease' = [lease EXCEPT ![s] = q.ip]
                      /\ msgs' = msgs \cup {Answer("ack", q.xid, s, q.ip, gw)}
                 ELSE lease' = [lease EXCEPT ![s] = 0] /\ UNCHANGED msgs
              /\ UNCHANGED <<eth, running>>
        BY <1>10 DEF Acknowledge
    <2>2. q.server \in Servers /\ q.ip \in Pool[q.server]
        BY <2>1 DEF DhcpInv, Said
    <2>3. q.server = s /\ q.ip \in Nat
        BY <2>2 DEF OneServer
    <2>4. /\ lease[s] \in {0, q.ip} /\ lease' = [lease EXCEPT ![s] = q.ip]
          /\ msgs' = msgs \cup {Answer("ack", q.xid, s, q.ip, gw)}
        BY <2>1, <2>3
    <2>5. lease' \in [Servers -> Nat] /\ lease'[s] = q.ip
        BY <1>1, <2>3, <2>4
    <2>6. ASSUME NEW t \in Servers, lease[t] # 0 PROVE lease'[t] = lease[t]
        BY <1>1, <2>4, <2>5, <2>6 DEF OneServer
    <2>7. ASSUME NEW m, m.kind = "ack" => IsAck(m), Held(m) PROVE Held(m)'
        <3>1. CASE m.kind = "ack"
            <4>1. m.server \in Servers /\ m.ip \in Pool[m.server] /\ lease[m.server] = m.ip
                BY <2>7, <3>1 DEF IsAck, Held
            <4>2. m.ip # 0
                BY <4>1
            <4> QED
                BY <2>6, <4>1, <4>2 DEF Held
        <3> QED
            BY <3>1 DEF Held
    <2>8. ASSUME NEW m \in msgs' PROVE Held(m)'
        <3>1. CASE m \in msgs
            BY <1>1, <2>7, <3>1 DEF DhcpInv, Said
        <3>2. CASE m = Answer("ack", q.xid, s, q.ip, gw)
            BY <2>5, <3>2 DEF Answer, Held
        <3> QED
            BY <2>4, <3>1, <3>2
    <2>9. Held(running)'
        <3>1. running.kind = "ack" => IsAck(running)
            BY DEF DhcpInv, NoMsg, IsOffer
        <3>2. Held(running)
            BY <1>1
        <3>3. PICK m : m = running /\ m = running'
            BY <2>1
        <3>4. Held(m)'
            BY <2>7, <3>1, <3>2, <3>3
        <3> QED
            BY <3>3, <3>4 DEF Held
    <2>10. Leased' => lease'[eth'.gateway] = eth'.ip
        <3>1. Leased' => Leased /\ eth' = eth
            BY <2>1 DEF Leased
        <3>2. Leased => eth.gateway \in Servers /\ eth.ip # 0 /\ lease[eth.gateway] = eth.ip
            BY <1>1 DEF DhcpInv, Leased
        <3> QED
            BY <2>6, <3>1, <3>2
    <2> QED
        BY <2>5, <2>8, <2>9, <2>10 DEF LeaseInv
<1> QED
    BY <1>2, <1>3, <1>4, <1>5, <1>6, <1>7, <1>8, <1>9, <1>10 DEF DhcpNext

\* With one server the address is the fixed one or the one it holds for this machine, whoever took the
\* acknowledgement and however late; and the routes lead where they should.
THEOREM AddressKept == OneServer => (DhcpSpec => []AddressHeld)
<1> SUFFICES ASSUME OneServer PROVE DhcpSpec => []AddressHeld
    OBVIOUS
<1>1. DhcpInit => LeaseInv
    BY DhcpAssumption DEF DhcpInit, LeaseInv, Held, Leased, NoMsg
<1>2. DhcpInv /\ LeaseInv /\ [DhcpNext]_dhcp_vars => LeaseInv'
    BY LeaseKept
<1>3. DhcpInv /\ LeaseInv /\ RoutesLead => AddressHeld
    BY DEF DhcpInv, LeaseInv, Leased, AddressHeld
<1> QED
    BY <1>1, <1>2, <1>3, DhcpStartsWell, DhcpKept, RoutesKept, PTL DEF DhcpSpec

-----------------------------------------------------------------------------
(* The network stack *)

(* What a step computes *)

Addresses == {ME, LO} \cup Hosts
Answered0 == {0} \cup UNION {AddrOf[n] : n \in Names}
Kinds == {"arp_req", "arp_rep", "echo", "echo_rep", "echo6", "echo6_rep", "query", "answer"}
Frames == [kind : Kinds, from : Addresses, to : Addresses, id : NetIds \cup {0}, port : Nat,
           name : Names \cup {""}, ip : Answered0]
Entries == [op : {"rx"}, nif : {"eth", "lo"}, f : Frames, buf : Bufs] \cup [op : {"free"}, buf : Bufs]
BufStates == {"none", "pool", "held"}
Arps == [1..ARP_CACHE_MAX -> [ip : {0} \cup Addresses, age : Nat]]
Steps == [bufs : [Bufs -> BufStates], arp : Arps, out : SUBSET Frames, push : Seq(Entries),
          buf : {0} \cup Bufs, rc : {0, -1}]

Holders(s) == {s[i].buf : i \in DOMAIN s}
Distinct(s) == \A i, j \in DOMAIN s : s[i].buf = s[j].buf => i = j

\* A step in progress: K is what others hold, X what it has yet to pass on; C are the frames, with their
\* interface, that it may leave to calls and O those that it may send.
InStep(K, C, O, m, X) ==
    /\ m \in Steps /\ Distinct(m.push) /\ X \subseteq Bufs
    /\ Holders(m.push) \cap X = {} /\ Holders(m.push) \cap K = {} /\ X \cap K = {}
    /\ \A b \in Bufs : m.bufs[b] = "held" <=> b \in K \cup X \cup Holders(m.push)
    /\ \A i \in DOMAIN m.push : m.push[i].op = "rx" => <<m.push[i].nif, m.push[i].f>> \in C
    /\ out \subseteq m.out /\ m.out \subseteq out \cup O

\* Requests of ARP may go with any frame.
Sends(nif, f, C, O) ==
    /\ nif \in {"eth", "lo"} /\ f \in Frames
    /\ IF nif = "lo" THEN <<"lo", f>> \in C ELSE f \in O
Sendable(nif, C, O) == \A g \in Frames : g.kind = "arp_req" => Sends(nif, g, C, O)

LEMMA AppendHolds ==
    ASSUME NEW s \in Seq(Entries), NEW c \in Entries, Distinct(s), c.buf \notin Holders(s)
    PROVE  /\ Append(s, c) \in Seq(Entries) /\ Distinct(Append(s, c))
           /\ Holders(Append(s, c)) = Holders(s) \cup {c.buf}
           /\ \A i \in DOMAIN Append(s, c) : Append(s, c)[i] = c \/ \E j \in DOMAIN s : Append(s, c)[i] = s[j]
<1> DEFINE a == Append(s, c)
<1>1. /\ a \in Seq(Entries) /\ Len(a) = Len(s) + 1 /\ Len(s) \in Nat
      /\ DOMAIN a = 1..Len(s) + 1 /\ DOMAIN s = 1..Len(s)
      /\ a[Len(s) + 1] = c /\ \A i \in 1..Len(s) : a[i] = s[i]
    OBVIOUS
<1> HIDE DEF a
<1>2. Distinct(a)
    BY <1>1 DEF Distinct, Holders
<1>3. \A i \in DOMAIN a : (i = Len(s) + 1 /\ a[i] = c) \/ (i \in DOMAIN s /\ a[i] = s[i])
    BY <1>1
<1>4. Holders(a) = Holders(s) \cup {c.buf}
    <2>1. Len(s) + 1 \in DOMAIN a /\ \A i \in DOMAIN s : i \in DOMAIN a
        BY <1>1
    <2> QED
        BY <1>1, <1>3, <2>1 DEF Holders
<1> QED
    BY <1>1, <1>2, <1>3, <1>4 DEF a

LEMMA AllocIs ==
    ASSUME NEW K, NEW C, NEW O, NEW X, NEW m, InStep(K, C, O, m, X), NEW short, NEW n, n = netbuf_alloc(m, short)
    PROVE  /\ n.push = m.push
           /\ \/ n.buf = 0 /\ InStep(K, C, O, n, X)
              \/ n.buf \in Bufs \ X /\ InStep(K, C, O, n, X \cup {n.buf})
<1> USE NetAssumption
<1> DEFINE from == IF InState(m, "pool") # {} THEN InState(m, "pool")
                   ELSE IF short THEN {} ELSE InState(m, "none")
<1>1. from \subseteq {b \in Bufs : m.bufs[b] # "held"}
    BY DEF InState
<1>2. n = IF from = {} THEN [m EXCEPT !.buf = 0] ELSE [m EXCEPT !.buf = Min(from), !.bufs[Min(from)] = "held"]
    BY DEF netbuf_alloc
<1> HIDE DEF from
<1>3. CASE from = {}
    <2>1. n = [m EXCEPT !.buf = 0]
        BY <1>2, <1>3
    <2>2. n \in Steps /\ n.buf = 0 /\ n.bufs = m.bufs /\ n.push = m.push /\ n.out = m.out
        BY <2>1 DEF InStep, Steps
    <2> QED
        BY <2>2 DEF InStep
<1>4. CASE from # {}
    <2>1. Min(from) \in from
        BY <1>1, <1>4, LeastIndex
    <2>2. PICK b \in Bufs : b = Min(from) /\ m.bufs[b] # "held"
        BY <1>1, <2>1
    <2>3. PICK bs : bs = [m.bufs EXCEPT ![b] = "held"]
        OBVIOUS
    <2>4. n = [m EXCEPT !.buf = b, !.bufs = bs]
        BY <1>2, <1>4, <2>2, <2>3
    <2>5. m.bufs \in [Bufs -> BufStates] /\ bs \in [Bufs -> BufStates]
        BY <2>3 DEF InStep, Steps, BufStates
    <2>6. n \in Steps /\ n.buf = b /\ n.bufs = bs /\ n.push = m.push /\ n.out = m.out
        BY <2>4, <2>5 DEF InStep, Steps
    <2>7. \A x \in Bufs : bs[x] = "held" <=> x = b \/ m.bufs[x] = "held"
        BY <2>3, <2>5
    <2>8. b \notin K \cup X \cup Holders(m.push)
        BY <2>2 DEF InStep
    <2>9. InStep(K, C, O, n, X \cup {b})
        BY <2>2, <2>6, <2>7, <2>8 DEF InStep
    <2> QED
        BY <2>2, <2>6, <2>8, <2>9
<1> QED
    BY <1>3, <1>4

LEMMA FreeIs ==
    ASSUME NEW K, NEW C, NEW O, NEW X, NEW m, InStep(K, C, O, m, X), NEW b \in X, NEW n, n = netbuf_free(m, b)
    PROVE  InStep(K, C, O, n, X \ {b})
<1>1. n = [m EXCEPT !.bufs[b] = "pool"] /\ b \in Bufs
    BY DEF netbuf_free, InStep
<1>2. PICK bs : bs = [m.bufs EXCEPT ![b] = "pool"]
    OBVIOUS
<1>3. m.bufs \in [Bufs -> BufStates] /\ bs \in [Bufs -> BufStates]
    BY <1>2 DEF InStep, Steps, BufStates
<1>4. n \in Steps /\ n.bufs = bs /\ n.push = m.push /\ n.out = m.out
    BY <1>1, <1>2, <1>3 DEF InStep, Steps
<1>5. \A x \in Bufs : bs[x] = "held" <=> x # b /\ m.bufs[x] = "held"
    BY <1>1, <1>2, <1>3
<1> QED
    BY <1>1, <1>4, <1>5 DEF InStep

\* A buffer that is passed to a call.
LEMMA PushIs ==
    ASSUME NEW K, NEW C, NEW O, NEW X, NEW m, InStep(K, C, O, m, X), NEW b \in X,
           NEW c \in Entries, c.buf = b, c.op = "rx" => <<c.nif, c.f>> \in C,
           NEW n \in Steps, n.bufs = m.bufs, n.out = m.out, n.push = Append(m.push, c)
    PROVE  InStep(K, C, O, n, X \ {b})
<1>1. m.push \in Seq(Entries) /\ Distinct(m.push) /\ c.buf \notin Holders(m.push) /\ b \in Bufs
    BY DEF InStep, Steps
<1>2. /\ n.push \in Seq(Entries) /\ Distinct(n.push) /\ Holders(n.push) = Holders(m.push) \cup {b}
      /\ \A i \in DOMAIN n.push : n.push[i] = c \/ \E j \in DOMAIN m.push : n.push[i] = m.push[j]
    BY <1>1, AppendHolds
<1>3. \A i \in DOMAIN n.push : n.push[i].op = "rx" => <<n.push[i].nif, n.push[i].f>> \in C
    BY <1>2 DEF InStep
<1> QED
    BY <1>1, <1>2, <1>3 DEF InStep

LEMMA FreeLaterIs ==
    ASSUME NEW K, NEW C, NEW O, NEW X, NEW m, InStep(K, C, O, m, X), NEW b \in X, NEW rc \in {0, -1},
           NEW n, n = [m EXCEPT !.push = Append(@, Free(b)), !.rc = rc]
    PROVE  InStep(K, C, O, n, X \ {b})
<1>1. Free(b) \in Entries /\ Free(b).buf = b /\ Free(b).op = "free"
    BY DEF InStep, Entries, Free
<1>2. Append(m.push, Free(b)) \in Seq(Entries)
    BY <1>1 DEF InStep, Steps
<1>3. n \in Steps /\ n.bufs = m.bufs /\ n.out = m.out /\ n.push = Append(m.push, Free(b))
    BY <1>2 DEF InStep, Steps
<1> QED
    BY <1>1, <1>3, PushIs

LEMMA SendIs ==
    ASSUME NEW K, NEW C, NEW O, NEW X, NEW m, InStep(K, C, O, m, X), NEW b \in X, NEW f, NEW nif,
           Sends(nif, f, C, O), NEW short, NEW n, n = ethernet_send(m, nif, f, b, short)
    PROVE  InStep(K, C, O, n, X \ {b})
<1>0. f \in Frames /\ b \in Bufs
    BY DEF Sends, InStep
<1>1. CASE nif = "lo"
    <2>1. /\ Rx("lo", f, b) \in Entries /\ Rx("lo", f, b).buf = b
          /\ <<Rx("lo", f, b).nif, Rx("lo", f, b).f>> \in C
        BY <1>0, <1>1 DEF Entries, Rx, Sends
    <2>2. n = [m EXCEPT !.push = Append(@, Rx("lo", f, b)), !.rc = 0]
        BY <1>1 DEF ethernet_send
    <2>3. Append(m.push, Rx("lo", f, b)) \in Seq(Entries)
        BY <2>1 DEF InStep, Steps
    <2>4. n \in Steps /\ n.bufs = m.bufs /\ n.out = m.out /\ n.push = Append(m.push, Rx("lo", f, b))
        BY <2>2, <2>3 DEF InStep, Steps
    <2> QED
        BY <2>1, <2>4, PushIs
<1>2. CASE nif # "lo"
    <2>1. PICK l : l = netbuf_free(m, b)
        OBVIOUS
    <2>2. InStep(K, C, O, l, X \ {b})
        BY <2>1, FreeIs
    <2>3. PICK o \in {l.out, l.out \cup {f}}, rc \in {0, -1} : n = [l EXCEPT !.out = o, !.rc = rc]
        <3>1. n = [l EXCEPT !.out = IF short THEN l.out ELSE l.out \cup {f}, !.rc = IF short THEN -1 ELSE 0]
            BY <1>2, <2>1 DEF ethernet_send
        <3>2. CASE short
            <4>1. n = [l EXCEPT !.out = l.out, !.rc = -1]
                BY <3>1, <3>2
            <4> QED
                BY <4>1
        <3>3. CASE ~short
            <4>1. n = [l EXCEPT !.out = l.out \cup {f}, !.rc = 0]
                BY <3>1, <3>3
            <4> QED
                BY <4>1
        <3> QED
            BY <3>2, <3>3
    <2>5. l \in Steps /\ o \in SUBSET Frames
        BY <1>0, <2>2, <2>3 DEF InStep, Steps
    <2>4. n \in Steps /\ n.bufs = l.bufs /\ n.push = l.push /\ n.out = o
        BY <2>3, <2>5 DEF Steps
    <2>6. f \in O
        BY <1>2 DEF Sends
    <2> QED
        BY <2>2, <2>3, <2>4, <2>6 DEF InStep
<1> QED
    BY <1>1, <1>2

LEMMA LearnIs ==
    ASSUME NEW K, NEW C, NEW O, NEW X, NEW m, InStep(K, C, O, m, X), NEW ip \in Addresses, NEW n, n = arp_learn(m, ip)
    PROVE  InStep(K, C, O, n, X)
<1> DEFINE aged(slot) == [i \in DOMAIN m.arp |->
               IF i = slot THEN [ip |-> ip, age |-> 0]
               ELSE Aged(m.arp[i])]
<1>1. PICK slot : n = [m EXCEPT !.arp = aged(slot)]
    BY DEF arp_learn
<1>2. PICK a : a = aged(slot)
    OBVIOUS
<1>3. n = [m EXCEPT !.arp = a]
    BY <1>1, <1>2
<1>4. a \in Arps
    <2>1. m.arp \in Arps
        BY DEF InStep, Steps
    <2>2. \A e \in [ip : {0} \cup Addresses, age : Nat] :
              Aged(e) \in [ip : {0} \cup Addresses, age : Nat]
        BY DEF Aged
    <2>3. [ip |-> ip, age |-> 0] \in [ip : {0} \cup Addresses, age : Nat]
        OBVIOUS
    <2> QED
        BY <1>2, <2>1, <2>2, <2>3 DEF Arps
<1>5. n \in Steps /\ n.bufs = m.bufs /\ n.out = m.out /\ n.push = m.push
    BY <1>3, <1>4 DEF InStep, Steps
<1> QED
    BY <1>5 DEF InStep

LEMMA LookupIs ==
    ASSUME NEW K, NEW C, NEW O, NEW X, NEW m, InStep(K, C, O, m, X), NEW ip, NEW n, n = arp_lookup(m, ip)
    PROVE  InStep(K, C, O, n, X)
<1>1. m.arp \in Arps /\ Empty \in [ip : {0} \cup Addresses, age : Nat]
    BY DEF InStep, Steps, Empty
<1>2. \/ \E rc \in {0, -1} : n = [m EXCEPT !.rc = rc]
      \/ \E i \in DOMAIN m.arp : n = [m EXCEPT !.arp[i] = Empty, !.rc = -1]
    <2> DEFINE i == CHOOSE j \in DOMAIN m.arp : m.arp[j].ip = ip
               known == \E j \in DOMAIN m.arp : m.arp[j].ip = ip
    <2>1. known => i \in DOMAIN m.arp
        OBVIOUS
    <2>2. n = IF known /\ m.arp[i].age <= ARP_TIMEOUT_TICKS THEN [m EXCEPT !.rc = 0]
              ELSE IF known THEN [m EXCEPT !.arp[i] = Empty, !.rc = -1] ELSE [m EXCEPT !.rc = -1]
        BY DEF arp_lookup
    <2> HIDE DEF i, known
    <2> QED
        BY <2>1, <2>2
<1>3. PICK a \in Arps, rc \in {0, -1} : n = [m EXCEPT !.arp = a, !.rc = rc]
    <2>1. \A i \in DOMAIN m.arp : [m.arp EXCEPT ![i] = Empty] \in Arps
        BY <1>1 DEF Arps
    <2>2. ASSUME NEW i \in DOMAIN m.arp, n = [m EXCEPT !.arp[i] = Empty, !.rc = -1]
          PROVE  n = [m EXCEPT !.arp = [m.arp EXCEPT ![i] = Empty], !.rc = -1]
        BY <2>2
    <2>3. ASSUME NEW rc \in {0, -1}, n = [m EXCEPT !.rc = rc]
          PROVE  n = [m EXCEPT !.arp = m.arp, !.rc = rc]
        BY <2>3 DEF InStep, Steps
    <2> QED
        BY <1>1, <1>2, <2>1, <2>2, <2>3
<1>4. n \in Steps /\ n.bufs = m.bufs /\ n.out = m.out /\ n.push = m.push
    BY <1>3 DEF InStep, Steps
<1> QED
    BY <1>4 DEF InStep

LEMMA RequestIs ==
    ASSUME NEW K, NEW C, NEW O, NEW X, NEW m, InStep(K, C, O, m, X), NEW nif, Sendable(nif, C, O),
           NEW ip \in Addresses, NEW short, NEW n, n = arp_send_req(m, nif, ip, short)
    PROVE  InStep(K, C, O, n, X)
<1>1. PICK a : a = netbuf_alloc(m, short)
    OBVIOUS
<1>2. n = IF a.buf = 0 THEN a ELSE ethernet_send(a, nif, Frame("arp_req", AddressOn(nif), ip, 0), a.buf, short)
    BY <1>1 DEF arp_send_req
<1>3. CASE a.buf = 0 /\ InStep(K, C, O, a, X)
    BY <1>2, <1>3
<1>4. CASE a.buf \in Bufs \ X /\ InStep(K, C, O, a, X \cup {a.buf})
    <2>1. a.buf # 0
        BY <1>4, NetAssumption
    <2>2. Frame("arp_req", AddressOn(nif), ip, 0) \in Frames /\ Frame("arp_req", AddressOn(nif), ip, 0).kind = "arp_req"
        BY DEF Frame, AddressOn, Frames, Addresses, Kinds, Answered0
    <2>3. PICK f : f = Frame("arp_req", AddressOn(nif), ip, 0) /\ Sends(nif, f, C, O)
        BY <2>2 DEF Sendable
    <2>4. n = ethernet_send(a, nif, f, a.buf, short)
        BY <1>2, <2>1, <2>3
    <2>5. PICK b, Y : b = a.buf /\ Y = X \cup {b}
        OBVIOUS
    <2>6. b \in Y /\ InStep(K, C, O, a, Y) /\ n = ethernet_send(a, nif, f, b, short)
        BY <1>4, <2>4, <2>5
    <2>7. InStep(K, C, O, n, Y \ {b})
        BY ONLY <2>3, <2>6, SendIs
    <2>8. Y \ {b} = X
        BY <1>4, <2>5
    <2> QED
        BY <2>7, <2>8
<1>5. \/ a.buf = 0 /\ InStep(K, C, O, a, X)
      \/ a.buf \in Bufs \ X /\ InStep(K, C, O, a, X \cup {a.buf})
    BY <1>1, AllocIs
<1> QED
    BY <1>3, <1>4, <1>5

LEMMA Ipv4Is ==
    ASSUME NEW K, NEW C, NEW O, NEW X, NEW m, InStep(K, C, O, m, X), NEW b \in X, NEW f, NEW nif,
           Sends(nif, f, C, O), Sendable(nif, C, O), NEW short, NEW n, n = ipv4_send(m, nif, f, b, short)
    PROVE  InStep(K, C, O, n, X \ {b})
<1>0. f.to \in Addresses
    BY DEF Sends, Frames
<1>1. PICK looked : looked = arp_lookup(m, f.to)
    OBVIOUS
<1>2. InStep(K, C, O, looked, X)
    BY <1>1, LookupIs
<1>3. n = IF looked.rc = 0 THEN ethernet_send(looked, nif, f, b, short)
          ELSE [arp_send_req(looked, nif, f.to, short) EXCEPT !.push = Append(@, Free(b)), !.rc = -1]
    BY <1>1 DEF ipv4_send
<1>4. CASE looked.rc = 0
    <2>1. n = ethernet_send(looked, nif, f, b, short)
        BY <1>3, <1>4
    <2> QED
        BY <1>2, <2>1, SendIs
<1>5. CASE looked.rc # 0
    <2>1. PICK asked : asked = arp_send_req(looked, nif, f.to, short)
        OBVIOUS
    <2>2. InStep(K, C, O, asked, X)
        BY <1>0, <1>2, <2>1, RequestIs
    <2>3. n = [asked EXCEPT !.push = Append(@, Free(b)), !.rc = -1]
        BY <1>3, <1>5, <2>1
    <2> QED
        BY <2>2, <2>3, FreeLaterIs
<1> QED
    BY <1>4, <1>5

-----------------------------------------------------------------------------
(* Whose buffer it is *)

Others(t) == UNION {Holders(stacks[u]) : u \in Threads \ {t}}
Rest(t) == IF stacks[t] = <<>> THEN <<>> ELSE Tail(stacks[t])
Kept(t) == Others(t) \cup Holders(Rest(t))
Own(t) == IF stacks[t] = <<>> THEN {} ELSE {Head(stacks[t]).buf}

StackOwned ==
    /\ bufs \in [Bufs -> BufStates] /\ arp \in Arps /\ out \in SUBSET Frames
    /\ stacks \in [Threads -> Seq(Entries)]
    /\ \A t \in Threads : Distinct(stacks[t])
    /\ \A t, u \in Threads : t # u => Holders(stacks[t]) \cap Holders(stacks[u]) = {}
    /\ \A b \in Bufs : bufs[b] = "held" <=> \E t \in Threads : b \in Holders(stacks[t])

LEMMA RestHolds ==
    ASSUME StackOwned, NEW t \in Threads
    PROVE  /\ Rest(t) \in Seq(Entries) /\ Distinct(Rest(t))
           /\ Own(t) \subseteq Bufs /\ Own(t) \cap Holders(Rest(t)) = {}
           /\ Holders(stacks[t]) = Own(t) \cup Holders(Rest(t))
           /\ \A i \in DOMAIN Rest(t) : \E j \in DOMAIN stacks[t] : Rest(t)[i] = stacks[t][j]
<1>0. PICK s \in Seq(Entries) : s = stacks[t] /\ Distinct(s)
    BY DEF StackOwned
<1>1. CASE s = <<>>
    BY <1>0, <1>1 DEF Rest, Own, Holders, Distinct
<1>2. CASE s # <<>>
    <2>1. PICK r : r = Tail(s)
        OBVIOUS
    <2>2. /\ r \in Seq(Entries) /\ Len(s) \in Nat /\ Len(s) >= 1 /\ Len(r) = Len(s) - 1
          /\ DOMAIN r = 1..Len(s) - 1 /\ DOMAIN s = 1..Len(s)
          /\ Head(s) = s[1] /\ \A i \in 1..Len(s) - 1 : r[i] = s[i + 1]
        BY <1>2, <2>1
    <2>3. Rest(t) = r /\ Own(t) = {s[1].buf} /\ 1 \in DOMAIN s /\ s[1] \in Entries
        BY <1>0, <1>2, <2>1, <2>2 DEF Rest, Own
    <2>4. \A i \in DOMAIN r : i + 1 \in DOMAIN s /\ i + 1 # 1 /\ r[i] = s[i + 1]
        BY <2>2
    <2>5. \A i \in DOMAIN s : i = 1 \/ (i - 1 \in DOMAIN r /\ r[i - 1] = s[i])
        BY <2>2
    <2>6. Distinct(r)
        <3>1. \A i, j \in DOMAIN r : i + 1 = j + 1 => i = j
            BY <2>2
        <3> QED
            BY <1>0, <2>4, <3>1 DEF Distinct
    <2>7. s[1].buf \notin Holders(r)
        BY <1>0, <2>3, <2>4 DEF Distinct, Holders
    <2>8. Holders(s) = {s[1].buf} \cup Holders(r)
        BY <2>3, <2>4, <2>5 DEF Holders
    <2>9. s[1].buf \in Bufs
        BY <2>3 DEF Entries
    <2> QED
        BY <1>0, <2>2, <2>3, <2>4, <2>6, <2>7, <2>8, <2>9
<1> QED
    BY <1>1, <1>2

LEMMA NowIs ==
    ASSUME StackOwned, NEW t \in Threads, NEW C, NEW O
    PROVE  InStep(Kept(t), C, O, Now, Own(t)) /\ Now.buf = 0 /\ Now.push = <<>>
<1>1. /\ Now \in Steps /\ Now.bufs = bufs /\ Now.push = <<>> /\ Now.out = out /\ Now.buf = 0
    BY DEF Now, Steps, StackOwned
<1>2. Holders(<<>>) = {} /\ Distinct(<<>>) /\ DOMAIN <<>> = {}
    BY DEF Holders, Distinct
<1>3. Own(t) \subseteq Bufs /\ Own(t) \cap Holders(Rest(t)) = {} /\ Holders(stacks[t]) = Own(t) \cup Holders(Rest(t))
    BY RestHolds
<1>4. Own(t) \cap Others(t) = {}
    BY <1>3 DEF Others, StackOwned
<1>5. ASSUME NEW b \in Bufs PROVE bufs[b] = "held" <=> b \in Kept(t) \cup Own(t)
    BY <1>3 DEF Kept, Others, StackOwned
<1> QED
    BY <1>1, <1>2, <1>3, <1>4, <1>5 DEF InStep, Kept

LEMMA JoinHolds ==
    ASSUME NEW p \in Seq(Entries), NEW r \in Seq(Entries), Distinct(p), Distinct(r), Holders(p) \cap Holders(r) = {}
    PROVE  /\ p \o r \in Seq(Entries) /\ Distinct(p \o r) /\ Holders(p \o r) = Holders(p) \cup Holders(r)
           /\ \A i \in DOMAIN (p \o r) : \/ \E j \in DOMAIN p : (p \o r)[i] = p[j]
                                         \/ \E j \in DOMAIN r : (p \o r)[i] = r[j]
<1>1. PICK a : a = p \o r
    OBVIOUS
<1>2. /\ a \in Seq(Entries) /\ Len(a) = Len(p) + Len(r) /\ Len(p) \in Nat /\ Len(r) \in Nat
      /\ DOMAIN a = 1..Len(p) + Len(r) /\ DOMAIN p = 1..Len(p) /\ DOMAIN r = 1..Len(r)
      /\ \A i \in 1..Len(p) : a[i] = p[i]
      /\ \A i \in 1..Len(r) : a[Len(p) + i] = r[i]
    BY <1>1
<1>8. PICK n \in Nat, k \in Nat : n = Len(p) /\ k = Len(r)
    BY <1>2
<1>3. \A i \in DOMAIN a : (i \in DOMAIN p /\ a[i] = p[i]) \/ (i - n \in DOMAIN r /\ a[i] = r[i - n])
    <2>2. ASSUME NEW i \in 1..n + k PROVE i \in 1..n \/ (i - n \in 1..k /\ n + (i - n) = i)
        OBVIOUS
    <2>3. /\ DOMAIN a = 1..n + k /\ DOMAIN p = 1..n /\ DOMAIN r = 1..k
          /\ \A i \in 1..n : a[i] = p[i]
          /\ \A i \in 1..k : a[n + i] = r[i]
        BY <1>2, <1>8
    <2>4. ASSUME NEW i \in DOMAIN a
          PROVE (i \in DOMAIN p /\ a[i] = p[i]) \/ (i - n \in DOMAIN r /\ a[i] = r[i - n])
        <3>1. CASE i \in 1..n
            BY <2>3, <3>1
        <3>2. CASE i - n \in 1..k /\ n + (i - n) = i
            <4>1. a[n + (i - n)] = r[i - n]
                BY <2>3, <3>2
            <4> QED
                BY <2>3, <3>2, <4>1
        <3> QED
            BY <2>2, <2>3, <2>4, <3>1, <3>2
    <2> QED
        BY <2>4
<1>4. \A i \in DOMAIN p : i \in DOMAIN a /\ a[i] = p[i]
    BY <1>2
<1>5. \A i \in DOMAIN r : n + i \in DOMAIN a /\ a[n + i] = r[i]
    <2>1. \A i \in 1..k : n + i \in 1..n + k
        OBVIOUS
    <2>2. DOMAIN a = 1..n + k /\ DOMAIN r = 1..k /\ \A i \in 1..k : a[n + i] = r[i]
        BY <1>2, <1>8
    <2> QED
        BY <2>1, <2>2
<1>6. Holders(a) = Holders(p) \cup Holders(r)
    BY <1>3, <1>4, <1>5 DEF Holders
<1>7. Distinct(a)
    <2>1. ASSUME NEW i \in DOMAIN a, NEW j \in DOMAIN a, a[i].buf = a[j].buf PROVE i = j
        <3>1. CASE i \in DOMAIN p /\ a[i] = p[i] /\ j \in DOMAIN p /\ a[j] = p[j]
            BY <2>1, <3>1 DEF Distinct
        <3>2. CASE i \in DOMAIN p /\ a[i] = p[i] /\ j - n \in DOMAIN r /\ a[j] = r[j - n]
            BY <2>1, <3>2 DEF Holders
        <3>3. CASE i - n \in DOMAIN r /\ a[i] = r[i - n] /\ j \in DOMAIN p /\ a[j] = p[j]
            BY <2>1, <3>3 DEF Holders
        <3>4. CASE i - n \in DOMAIN r /\ a[i] = r[i - n] /\ j - n \in DOMAIN r /\ a[j] = r[j - n]
            <4>1. i - n = j - n
                BY <2>1, <3>4 DEF Distinct
            <4> QED
                BY <1>8, <1>2, <4>1
        <3> QED
            BY <1>3, <3>1, <3>2, <3>3, <3>4
    <2> QED
        BY <2>1 DEF Distinct
<1> QED
    BY <1>1, <1>2, <1>3, <1>6, <1>7

\* A step that has passed on everything leaves each buffer with one call.
LEMMA DoesKeeps ==
    ASSUME StackOwned, NEW t \in Threads, NEW C, NEW O, NEW m, InStep(Kept(t), C, O, m, {}), Does(t, m, Rest(t))
    PROVE  /\ StackOwned'
           /\ out \subseteq out' /\ out' \subseteq out \cup O
           /\ \A u \in Threads : \A i \in DOMAIN stacks'[u] :
                  \/ \E j \in DOMAIN stacks[u] : stacks'[u][i] = stacks[u][j]
                  \/ stacks'[u][i].op = "rx" => <<stacks'[u][i].nif, stacks'[u][i].f>> \in C
<1>1. /\ Rest(t) \in Seq(Entries) /\ Distinct(Rest(t)) /\ Holders(stacks[t]) = Own(t) \cup Holders(Rest(t))
      /\ \A i \in DOMAIN Rest(t) : \E j \in DOMAIN stacks[t] : Rest(t)[i] = stacks[t][j]
    BY RestHolds
<1>2. /\ m \in Steps /\ m.push \in Seq(Entries) /\ Distinct(m.push) /\ Holders(m.push) \cap Kept(t) = {}
      /\ \A b \in Bufs : m.bufs[b] = "held" <=> b \in Kept(t) \cup Holders(m.push)
      /\ \A i \in DOMAIN m.push : m.push[i].op = "rx" => <<m.push[i].nif, m.push[i].f>> \in C
    BY DEF InStep, Steps
<1>3. PICK s : s = m.push \o Rest(t)
    OBVIOUS
<1>4. /\ s \in Seq(Entries) /\ Distinct(s) /\ Holders(s) = Holders(m.push) \cup Holders(Rest(t))
      /\ \A i \in DOMAIN s : \/ \E j \in DOMAIN m.push : s[i] = m.push[j]
                             \/ \E j \in DOMAIN Rest(t) : s[i] = Rest(t)[j]
    <2>1. PICK p \in Seq(Entries), r \in Seq(Entries) : p = m.push /\ r = Rest(t)
        BY <1>1, <1>2
    <2>2. Holders(p) \cap Holders(r) = {} /\ Distinct(p) /\ Distinct(r)
        BY <1>1, <1>2, <2>1 DEF Kept
    <2>3. s = p \o r
        BY <1>3, <2>1
    <2>4. /\ s \in Seq(Entries) /\ Distinct(s) /\ Holders(s) = Holders(p) \cup Holders(r)
          /\ \A i \in DOMAIN s : \/ \E j \in DOMAIN p : s[i] = p[j]
                                 \/ \E j \in DOMAIN r : s[i] = r[j]
        BY <2>2, <2>3, JoinHolds
    <2> QED
        BY <2>1, <2>4
<1>5. /\ bufs' = m.bufs /\ arp' = m.arp /\ out' = m.out
      /\ stacks' \in [Threads -> Seq(Entries)] /\ stacks'[t] = s
      /\ \A u \in Threads \ {t} : stacks'[u] = stacks[u]
    BY <1>3, <1>4 DEF Does, StackOwned
<1>6. ASSUME NEW u \in Threads \ {t} PROVE Holders(s) \cap Holders(stacks[u]) = {}
    <2>1. Holders(stacks[u]) \subseteq Kept(t) /\ Holders(Rest(t)) \cap Holders(stacks[u]) = {}
        BY <1>1 DEF Kept, Others, StackOwned
    <2> QED
        BY <1>2, <1>4, <2>1
<1>7. ASSUME NEW b \in Bufs PROVE bufs'[b] = "held" <=> \E u \in Threads : b \in Holders(stacks'[u])
    BY <1>2, <1>4, <1>5 DEF Kept, Others
<1>8. ASSUME NEW u \in Threads, NEW i \in DOMAIN stacks'[u]
      PROVE  \/ \E j \in DOMAIN stacks[u] : stacks'[u][i] = stacks[u][j]
             \/ stacks'[u][i].op = "rx" => <<stacks'[u][i].nif, stacks'[u][i].f>> \in C
    <2>1. CASE u = t
        <3>1. PICK k : k = stacks'[u][i] /\ k = s[i]
            BY <1>5, <2>1
        <3>2. i \in DOMAIN s
            BY <1>5, <1>8, <2>1
        <3>3. CASE \E j \in DOMAIN m.push : k = m.push[j]
            BY <1>2, <3>1, <3>3
        <3>4. CASE \E j \in DOMAIN Rest(t) : k = Rest(t)[j]
            BY <1>1, <2>1, <3>1, <3>4
        <3> QED
            BY <1>4, <3>1, <3>2, <3>3, <3>4
    <2>2. CASE u # t
        BY <1>5, <2>2
    <2> QED
        BY <2>1, <2>2
<1>9. /\ bufs' \in [Bufs -> BufStates] /\ arp' \in Arps /\ out' \in SUBSET Frames
      /\ out \subseteq out' /\ out' \subseteq out \cup O
    BY <1>5 DEF InStep, Steps
<1>10. \A u \in Threads : Distinct(stacks'[u])
    BY <1>4, <1>5 DEF StackOwned
<1>11. \A u, v \in Threads : u # v => Holders(stacks'[u]) \cap Holders(stacks'[v]) = {}
    BY <1>5, <1>6 DEF StackOwned
<1> QED
    BY <1>5, <1>7, <1>8, <1>9, <1>10, <1>11 DEF StackOwned

-----------------------------------------------------------------------------
(* What clients are told *)

Ids == {0} \cup NetIds
CacheEntries == [name : {""} \cup {Stored[n] : n \in Names}, ip : Answered0, expires : Nat]
Jobs == [op : {"none", "ping", "ping6", "dns"},
         at : {"idle", "ping send", "ping wait", "arp", "arp wait", "id", "clear", "dns send", "dns wait"},
         dst : {0} \cup Addresses \cup Names, id : Ids, port : Nat, round : Nat,
         ret : {"none", "ok", "failed", "timeout", "unreachable"}, ip : Answered0]

ClientTypes ==
    /\ ping \in [{4, 6} -> [seen : BOOLEAN, id : Ids]]
    /\ pending \in [got : BOOLEAN, id : Ids, ip : Answered0]
    /\ names \in [cache : [1..DNS_CACHE_MAX -> CacheEntries], ticks : Nat]
    /\ g_eph \in Nat /\ job \in Jobs

\* A frame that is being handled: an answer is to something that was sent; over the loopback go only
\* frames of ARP and the echo of the ping that waits.
Echoes == {"echo", "echo_rep", "echo6", "echo6_rep"}
AnswerTo(f, sent) == \E q \in sent : q.kind = "query" /\ q.id = f.id /\ f.ip \in AddrOf[q.name]
EchoOf(f, sent) == \E q \in sent : q.kind = "echo" /\ q.id = f.id /\ q.to = f.from
FrameTrue(nif, f) ==
    /\ nif = "eth" => /\ f.kind \notin {"echo6", "echo6_rep"}
                      /\ f.kind = "answer" => AnswerTo(f, out)
                      /\ f.kind = "echo_rep" => EchoOf(f, out)
    /\ nif = "lo" => /\ f.kind # "answer"
                     /\ f.kind \in Echoes => /\ f.from = LO /\ f.to = LO /\ f.id = job.id
                                             /\ job.dst = LO /\ job.at = "ping wait"

CallsTrue == \A t \in Threads : \A i \in DOMAIN stacks[t] :
    stacks[t][i].op = "rx" => FrameTrue(stacks[t][i].nif, stacks[t][i].f)

PingTrue == job.at \in {"ping send", "ping wait"} =>
    /\ job.op \in {"ping", "ping6"} /\ job.dst \in {LO} \cup Hosts /\ (job.op = "ping6" => job.dst = LO)
    /\ ping[Version].id = job.id
    /\ ping[Version].seen => <<job.dst, job.id>> \in heard
    /\ \A q \in out : q.kind = "echo" /\ q.id = job.id => q.to = job.dst

DnsTrue ==
    /\ \A q \in out : q.kind = "query" => q.name \in Names
    /\ job.at \in {"arp", "arp wait", "id", "clear", "dns send", "dns wait"} => job.op = "dns" /\ job.dst \in Names
    /\ job.at \in {"clear", "dns send", "dns wait"} =>
           pending.id = job.id /\ \A q \in out : q.kind = "query" /\ q.id = job.id => q.name = job.dst
    /\ job.at \in {"dns send", "dns wait"} /\ pending.got => pending.ip \in AddrOf[job.dst]

\* No name is another's in the cache.
NamesApart == \A n, o \in Names : Stored[n] = o => n = o

CacheTrue == NamesApart => \A i \in 1..DNS_CACHE_MAX : \A n \in Names :
    names.cache[i].name = n /\ names.cache[i].expires # 0 => names.cache[i].ip \in AddrOf[n]

Told == NamesApart => ClientsTold

ClientInv ==
    /\ ClientTypes /\ CallsTrue /\ PingTrue /\ DnsTrue /\ CacheTrue
    /\ job.ret = "ok" => job.at = "idle"
    /\ Told

StackInv == StackOwned /\ ClientInv

-----------------------------------------------------------------------------
(* Frames that a step sends *)

ArpFrames == {g \in Frames : g.kind \in {"arp_req", "arp_rep"}}
ToCalls(nif, f) == {<<"lo", g>> : g \in ArpFrames \cup (IF nif = "lo" THEN {f} ELSE {})}
ToNet(nif, f) == ArpFrames \cup (IF nif = "lo" THEN {} ELSE {f})

LEMMA MaySend ==
    ASSUME NEW nif \in {"eth", "lo"}, NEW f \in Frames
    PROVE  /\ Sends(nif, f, ToCalls(nif, f), ToNet(nif, f)) /\ Sendable(nif, ToCalls(nif, f), ToNet(nif, f))
           /\ \A g \in ArpFrames : Sends(nif, g, ToCalls(nif, f), ToNet(nif, f))
BY DEF Sends, Sendable, ToCalls, ToNet, ArpFrames

\* What the step leaves to calls and to the network.
Moved(C, O) ==
    /\ out \subseteq out' /\ out' \subseteq out \cup O
    /\ \A u \in Threads : \A i \in DOMAIN stacks'[u] :
           \/ \E j \in DOMAIN stacks[u] : stacks'[u][i] = stacks[u][j]
           \/ stacks'[u][i].op = "rx" => <<stacks'[u][i].nif, stacks'[u][i].f>> \in C

LEMMA AnsweredKeeps ==
    ASSUME StackOwned, NEW t \in Threads, stacks[t] # <<>>, NEW C, NEW O, NEW m, NEW b, b = Head(stacks[t]).buf,
           InStep(Kept(t), C, O, m, {b}), Answered(t, m, b)
    PROVE  StackOwned' /\ Moved(C, O)
<1>1. PICK n : n = [m EXCEPT !.push = Append(@, Free(b))]
    OBVIOUS
<1>2. m \in Steps /\ m.rc \in {0, -1}
    BY DEF InStep, Steps
<1>3. n = [m EXCEPT !.push = Append(@, Free(b)), !.rc = m.rc]
    BY <1>1, <1>2 DEF Steps
<1>4. InStep(Kept(t), C, O, n, {})
    <2>1. PICK rc \in {0, -1} : rc = m.rc
        BY <1>2
    <2>4. PICK X, K : X = {b} /\ K = Kept(t)
        OBVIOUS
    <2>2. b \in X /\ InStep(K, C, O, m, X) /\ n = [m EXCEPT !.push = Append(@, Free(b)), !.rc = rc] /\ X \ {b} = {}
        BY <1>3, <2>1, <2>4
    <2>3. InStep(K, C, O, n, X \ {b})
        BY ONLY <2>2, FreeLaterIs
    <2> QED
        BY <2>2, <2>3, <2>4
<1>5. Does(t, n, Rest(t))
    BY <1>1 DEF Answered, Rest
<1> QED
    BY <1>4, <1>5, DoesKeeps DEF Moved

\* A handler that sends nothing.
LEMMA SilentKeeps ==
    ASSUME StackOwned, NEW t \in Threads, stacks[t] # <<>>, NEW C, NEW O, Answered(t, Now, Head(stacks[t]).buf)
    PROVE  StackOwned' /\ Moved(C, O)
<1>1. InStep(Kept(t), C, O, Now, Own(t)) /\ Own(t) = {Head(stacks[t]).buf}
    BY NowIs DEF Own
<1> QED
    BY <1>1, AnsweredKeeps

-----------------------------------------------------------------------------
\* What was told stays so while calls go on: they send neither queries nor echoes.
LEMMA HandledKeeps ==
    ASSUME StackInv, StackOwned', NEW C, NEW O, Moved(C, O), UNCHANGED <<job, names, g_eph>>,
           \A nif, f : <<nif, f>> \in C => FrameTrue(nif, f)',
           \A f \in O : f.kind \notin {"echo", "query"},
           ping' \in [{4, 6} -> [seen : BOOLEAN, id : Ids]], pending' \in [got : BOOLEAN, id : Ids, ip : Answered0],
           heard \subseteq heard',
           \A v \in {4, 6} : ping'[v].id = ping[v].id,
           job.at \in {"ping send", "ping wait"} /\ ping'[Version].seen =>
               ping[Version].seen \/ <<job.dst, job.id>> \in heard',
           pending'.id = pending.id,
           job.at \in {"dns send", "dns wait"} /\ pending'.got =>
               (pending.got /\ pending'.ip = pending.ip) \/ pending'.ip \in AddrOf[job.dst]
    PROVE  StackInv'
<1>1. ClientInv
    BY DEF StackInv
<1>2. job' = job /\ names' = names /\ g_eph' = g_eph
    OBVIOUS
<1>3. ClientTypes'
    BY <1>1, <1>2 DEF ClientInv, ClientTypes
<1>4. out \subseteq out' /\ \A q \in out' : q \in out \/ q.kind \notin {"echo", "query"}
    BY DEF Moved
<1>5. CallsTrue'
    <2>1. ASSUME NEW nif, NEW f, FrameTrue(nif, f) PROVE FrameTrue(nif, f)'
        BY <1>2, <1>4, <2>1 DEF FrameTrue, AnswerTo, EchoOf
    <2>2. ASSUME NEW u \in Threads, NEW i \in DOMAIN stacks'[u], NEW c, c = stacks'[u][i], c.op = "rx"
          PROVE  FrameTrue(c.nif, c.f)'
        <3>1. PICK nif, f : nif = c.nif /\ f = c.f
            OBVIOUS
        <3>2. CASE \E j \in DOMAIN stacks[u] : c = stacks[u][j]
            <4>1. FrameTrue(nif, f)
                BY <1>1, <2>2, <3>1, <3>2 DEF ClientInv, CallsTrue
            <4> QED
                BY <2>1, <3>1, <4>1
        <3>3. CASE <<nif, f>> \in C
            BY <3>1, <3>3
        <3> QED
            BY <2>2, <3>1, <3>2, <3>3 DEF Moved
    <2> QED
        BY <2>2 DEF CallsTrue
<1>6. PingTrue'
    <2>1. Version \in {4, 6} /\ Version' = Version
        BY <1>2 DEF Version
    <2> QED
        BY <1>1, <1>2, <1>4, <2>1 DEF ClientInv, PingTrue
<1>7. DnsTrue'
    BY <1>1, <1>2, <1>4 DEF ClientInv, DnsTrue
<1>8. CacheTrue' /\ Told'
    BY <1>1, <1>2 DEF ClientInv, CacheTrue, Told, ClientsTold
<1> QED
    BY <1>1, <1>2, <1>3, <1>5, <1>6, <1>7, <1>8 DEF ClientInv, StackInv

-----------------------------------------------------------------------------
\* A handler that answers with a buffer of its own, and frees the one it was given.
LEMMA ReplyKeeps ==
    ASSUME StackOwned, NEW t \in Threads, stacks[t] # <<>>, NEW C, NEW O, NEW m, NEW b, b = Head(stacks[t]).buf,
           InStep(Kept(t), C, O, m, {b}), NEW short, NEW n, n = netbuf_alloc(m, short), n.buf # 0,
           NEW nif, NEW f, Sends(nif, f, C, O), Sendable(nif, C, O),
           NEW s, \/ s = ethernet_send(n, nif, f, n.buf, short)
                  \/ s = ipv4_send(n, nif, f, n.buf, short),
           Answered(t, s, b)
    PROVE  StackOwned' /\ Moved(C, O)
<1>1. PICK K, X : K = Kept(t) /\ X = {b}
    OBVIOUS
<1>2. InStep(K, C, O, m, X)
    BY <1>1
<1>3. n.buf \in Bufs \ X /\ InStep(K, C, O, n, X \cup {n.buf})
    BY <1>2, AllocIs
<1>4. PICK c, Y : c = n.buf /\ Y = X \cup {c}
    OBVIOUS
<1>5. c \in Y /\ InStep(K, C, O, n, Y) /\ (s = ethernet_send(n, nif, f, c, short) \/ s = ipv4_send(n, nif, f, c, short))
    BY <1>3, <1>4
<1>6. Sends(nif, f, C, O) /\ Sendable(nif, C, O)
    OBVIOUS
<1>7. InStep(K, C, O, s, Y \ {c})
    BY ONLY <1>5, <1>6, SendIs, Ipv4Is
<1>8. Y \ {c} = X
    BY <1>3, <1>4
<1>9. InStep(Kept(t), C, O, s, {b})
    BY <1>1, <1>7, <1>8
<1> QED
    BY <1>9, AnsweredKeeps

LEMMA CallsFine ==
    ASSUME NEW nif, NEW f, nif = "lo" => FrameTrue("lo", f)'
    PROVE  \A o, g : <<o, g>> \in ToCalls(nif, f) => FrameTrue(o, g)'
<1>1. \A g \in ArpFrames : FrameTrue("lo", g)'
    BY DEF ArpFrames, FrameTrue, Echoes
<1> QED
    BY <1>1 DEF ToCalls

LEMMA TopIs ==
    ASSUME StackInv, NEW t \in Threads, stacks[t] # <<>>, NEW a, a = Head(stacks[t])
    PROVE  /\ a \in Entries
           /\ \A C, O : InStep(Kept(t), C, O, Now, {a.buf})
           /\ a.op = "rx" => a.f \in Frames /\ a.nif \in {"eth", "lo"} /\ FrameTrue(a.nif, a.f)
<1>1. PICK s \in Seq(Entries) : s = stacks[t] /\ s # <<>>
    BY DEF StackInv, StackOwned
<1>2. a = s[1] /\ 1 \in DOMAIN s /\ a \in Entries
    BY <1>1
<1>3. a.op = "rx" => a.f \in Frames /\ a.nif \in {"eth", "lo"}
    BY <1>2 DEF Entries
<1>4. a.op = "rx" => FrameTrue(a.nif, a.f)
    BY <1>1, <1>2 DEF StackInv, ClientInv, CallsTrue
<1>5. ASSUME NEW C, NEW O PROVE InStep(Kept(t), C, O, Now, {a.buf})
    <2>1. InStep(Kept(t), C, O, Now, Own(t)) /\ Own(t) = {a.buf}
        BY NowIs DEF Own, StackInv
    <2> QED
        BY <2>1
<1> QED
    BY <1>2, <1>3, <1>4, <1>5

\* A handler that tells no client anything.
LEMMA UntoldKeeps ==
    ASSUME StackInv, StackOwned', NEW nif, NEW f, Moved(ToCalls(nif, f), ToNet(nif, f)),
           nif = "lo" => FrameTrue("lo", f)', f.kind \notin {"echo", "query"},
           UNCHANGED <<job, names, g_eph, ping, pending, heard>>
    PROVE  StackInv'
<1>1. PICK C, O : C = ToCalls(nif, f) /\ O = ToNet(nif, f)
    OBVIOUS
<1>2. \A o, g : <<o, g>> \in C => FrameTrue(o, g)'
    BY <1>1, CallsFine
<1>3. \A g \in O : g.kind \notin {"echo", "query"}
    BY <1>1 DEF ToNet, ArpFrames
<1>4. Moved(C, O)
    BY <1>1
<1>5. /\ ping' \in [{4, 6} -> [seen : BOOLEAN, id : Ids]] /\ pending' \in [got : BOOLEAN, id : Ids, ip : Answered0]
      /\ ping' = ping /\ pending' = pending /\ heard' = heard
    BY DEF StackInv, ClientInv, ClientTypes
<1>6. Version \in {4, 6}
    BY DEF Version
<1> QED
    BY <1>2, <1>3, <1>4, <1>5, <1>6, HandledKeeps

LEMMA arp_rxKeeps ==
    ASSUME StackInv, NEW t \in Threads, stacks[t] # <<>>, NEW a, a = Head(stacks[t]), a.op = "rx", NEW short,
           arp_rx(t, a, short), UNCHANGED <<job, names, g_eph>>
    PROVE  StackInv'
<1>1. PICK m, r, reply : /\ m = arp_learn(Now, a.f.from) /\ r = netbuf_alloc(m, short)
                         /\ reply = Frame("arp_rep", AddressOn(a.nif), a.f.from, 0)
    OBVIOUS
<1>2. a.f \in Frames /\ a.nif \in {"eth", "lo"} /\ a.f.from \in Addresses
    BY TopIs DEF Frames
<1>3. reply \in Frames /\ reply \in ArpFrames /\ reply.kind = "arp_rep"
    BY <1>1, <1>2 DEF Frame, AddressOn, Frames, Addresses, Kinds, Answered0, ArpFrames
<1>4. PICK nif, C, O : nif = a.nif /\ C = ToCalls(nif, reply) /\ O = ToNet(nif, reply)
    OBVIOUS
<1>5. Sends(nif, reply, C, O) /\ Sendable(nif, C, O)
    BY <1>2, <1>3, <1>4, MaySend
<1>6. InStep(Kept(t), C, O, m, {a.buf})
    <2>1. PICK K, X : K = Kept(t) /\ X = {a.buf}
        OBVIOUS
    <2>2. InStep(K, C, O, Now, X)
        BY <2>1, TopIs
    <2>3. InStep(K, C, O, m, X)
        BY <1>1, <1>2, <2>2, LearnIs
    <2> QED
        BY <2>1, <2>3
<1>7. StackOwned' /\ Moved(C, O)
    <2>0. StackOwned
        BY DEF StackInv
    <2>1. CASE Answered(t, m, a.buf)
        BY <1>6, <2>0, <2>1, AnsweredKeeps
    <2>2. CASE r.buf # 0 /\ Answered(t, ethernet_send(r, nif, reply, r.buf, short), a.buf)
        BY <1>1, <1>5, <1>6, <2>0, <2>2, ReplyKeeps
    <2> QED
        BY <1>1, <1>4, <2>1, <2>2 DEF arp_rx
<1>8. nif = "lo" => FrameTrue("lo", reply)'
    BY <1>3 DEF FrameTrue, Echoes
<1> QED
    BY <1>3, <1>4, <1>7, <1>8, UntoldKeeps DEF arp_rx

\* Whoever is told of an echo is the ping that sent it.
LEMMA EchoTells ==
    ASSUME StackInv, StackOwned', NEW C, NEW O, Moved(C, O), C = {}, O = {}, UNCHANGED <<job, names, g_eph, pending>>,
           NEW nif \in {"eth", "lo"}, NEW f \in Frames, FrameTrue(nif, f), NEW v \in {4, 6},
           f.kind \in {"echo_rep", "echo6_rep"},
           ping' = IF f.id = ping[v].id THEN [ping EXCEPT ![v].seen = TRUE] ELSE ping,
           heard' = heard \cup {<<f.from, f.id>>}
    PROVE  StackInv'
<1>1. /\ ping \in [{4, 6} -> [seen : BOOLEAN, id : Ids]] /\ pending \in [got : BOOLEAN, id : Ids, ip : Answered0]
      /\ PingTrue
    BY DEF StackInv, ClientInv, ClientTypes
<1>2. /\ ping' \in [{4, 6} -> [seen : BOOLEAN, id : Ids]]
      /\ \A w \in {4, 6} : ping'[w].id = ping[w].id
      /\ \A w \in {4, 6} : ping'[w].seen => ping[w].seen \/ (w = v /\ f.id = ping[v].id)
    BY <1>1
<1>3. ASSUME job.at \in {"ping send", "ping wait"}, ping'[Version].seen
      PROVE  ping[Version].seen \/ <<job.dst, job.id>> \in heard'
    <2>1. Version \in {4, 6}
        BY DEF Version
    <2>2. CASE Version = v /\ f.id = ping[v].id
        <3>1. f.id = job.id
            BY <1>1, <1>3, <2>2 DEF PingTrue
        <3>2. f.from = job.dst
            <4>1. CASE nif = "lo"
                BY <4>1 DEF FrameTrue, Echoes
            <4>2. CASE nif = "eth"
                <5>1. EchoOf(f, out)
                    BY <4>2 DEF FrameTrue, Echoes
                <5> QED
                    BY <1>1, <1>3, <3>1, <5>1 DEF EchoOf, PingTrue
            <4> QED
                BY <4>1, <4>2
        <3> QED
            BY <3>1, <3>2
    <2> QED
        BY <1>2, <1>3, <2>1, <2>2
<1>4. /\ pending' \in [got : BOOLEAN, id : Ids, ip : Answered0] /\ pending' = pending
      /\ heard \subseteq heard'
      /\ \A o, g : <<o, g>> \in C => FrameTrue(o, g)'
      /\ \A g \in O : g.kind \notin {"echo", "query"}
    BY <1>1
<1> QED
    BY <1>2, <1>3, <1>4, HandledKeeps

LEMMA icmp_rxKeeps ==
    ASSUME StackInv, NEW t \in Threads, stacks[t] # <<>>, NEW a, a = Head(stacks[t]), a.op = "rx", NEW short,
           icmp_rx(t, a, short), UNCHANGED <<job, names, g_eph>>
    PROVE  StackInv'
<1>0. StackOwned
    BY DEF StackInv
<1>1. a.f \in Frames /\ a.nif \in {"eth", "lo"} /\ FrameTrue(a.nif, a.f)
    BY TopIs
<1>2. CASE a.f.kind = "echo"
    <2>1. PICK r, reply : /\ r = netbuf_alloc(Now, short)
                          /\ reply = [a.f EXCEPT !.kind = "echo_rep", !.from = a.f.to, !.to = a.f.from]
        OBVIOUS
    <2>2. /\ reply \in Frames /\ reply.kind = "echo_rep" /\ reply.from = a.f.to /\ reply.to = a.f.from
          /\ reply.id = a.f.id
        BY <1>1, <2>1 DEF Frames, Kinds
    <2>3. PICK nif, C, O : nif = a.nif /\ C = ToCalls(nif, reply) /\ O = ToNet(nif, reply)
        OBVIOUS
    <2>4. Sends(nif, reply, C, O) /\ Sendable(nif, C, O)
        BY <1>1, <2>2, <2>3, MaySend
    <2>5. InStep(Kept(t), C, O, Now, {a.buf})
        BY TopIs
    <2>6. StackOwned' /\ Moved(C, O)
        <3>1. CASE Answered(t, Now, a.buf)
            BY <1>0, <3>1, SilentKeeps
        <3>2. CASE r.buf # 0 /\ Answered(t, ipv4_send(r, nif, reply, r.buf, short), a.buf)
            BY <1>0, <2>1, <2>4, <2>5, <3>2, ReplyKeeps
        <3> QED
            BY <1>2, <2>1, <2>3, <3>1, <3>2 DEF icmp_rx
    <2>7. nif = "lo" => FrameTrue("lo", reply)'
        BY <1>1, <1>2, <2>2, <2>3 DEF FrameTrue, Echoes
    <2> QED
        BY <1>2, <2>2, <2>3, <2>6, <2>7, UntoldKeeps DEF icmp_rx
<1>3. CASE a.f.kind = "echo_rep"
    <2>1. Answered(t, Now, a.buf)
        BY <1>3 DEF icmp_rx
    <2>2. PICK C, O : C = {} /\ O = {}
        OBVIOUS
    <2>3. StackOwned' /\ Moved(C, O)
        BY <1>0, <2>1, SilentKeeps
    <2>4. /\ UNCHANGED pending /\ heard' = heard \cup {<<a.f.from, a.f.id>>}
          /\ ping' = IF a.f.id = ping[4].id THEN [ping EXCEPT ![4].seen = TRUE] ELSE ping
        BY <1>3 DEF icmp_rx
    <2>5. PICK nif \in {"eth", "lo"}, f \in Frames : nif = a.nif /\ f = a.f
        BY <1>1
    <2>6. /\ FrameTrue(nif, f) /\ f.kind = "echo_rep" /\ heard' = heard \cup {<<f.from, f.id>>}
          /\ ping' = IF f.id = ping[4].id THEN [ping EXCEPT ![4].seen = TRUE] ELSE ping
        BY <1>1, <1>3, <2>4, <2>5
    <2> QED
        BY <2>2, <2>3, <2>4, <2>6, EchoTells
<1> QED
    BY <1>2, <1>3 DEF icmp_rx

LEMMA icmpv6_rxKeeps ==
    ASSUME StackInv, NEW t \in Threads, stacks[t] # <<>>, NEW a, a = Head(stacks[t]), a.op = "rx", NEW short,
           icmpv6_rx(t, a, short), UNCHANGED <<job, names, g_eph>>
    PROVE  StackInv'
<1>0. StackOwned
    BY DEF StackInv
<1>1. a.f \in Frames /\ a.nif \in {"eth", "lo"} /\ FrameTrue(a.nif, a.f)
    BY TopIs
<1>2. CASE a.f.kind = "echo6"
    <2>1. PICK r, reply : r = netbuf_alloc(Now, short) /\ reply = [a.f EXCEPT !.kind = "echo6_rep"]
        OBVIOUS
    <2>2. /\ reply \in Frames /\ reply.kind = "echo6_rep" /\ reply.from = a.f.from /\ reply.to = a.f.to
          /\ reply.id = a.f.id
        BY <1>1, <2>1 DEF Frames, Kinds
    <2>3. PICK nif, C, O : nif = "lo" /\ C = ToCalls(nif, reply) /\ O = ToNet(nif, reply)
        OBVIOUS
    <2>4. Sends(nif, reply, C, O) /\ Sendable(nif, C, O)
        BY <2>2, <2>3, MaySend
    <2>5. InStep(Kept(t), C, O, Now, {a.buf})
        BY TopIs
    <2>6. StackOwned' /\ Moved(C, O)
        <3>1. CASE Answered(t, Now, a.buf)
            BY <1>0, <3>1, SilentKeeps
        <3>2. CASE r.buf # 0 /\ Answered(t, ethernet_send(r, nif, reply, r.buf, short), a.buf)
            BY <1>0, <2>1, <2>4, <2>5, <3>2, ReplyKeeps
        <3> QED
            BY <1>2, <2>1, <2>3, <3>1, <3>2 DEF icmpv6_rx
    <2>7. FrameTrue("lo", reply)'
        <3>1. a.nif = "lo"
            BY <1>1, <1>2 DEF FrameTrue
        <3> QED
            BY <1>1, <1>2, <2>2, <3>1 DEF FrameTrue, Echoes
    <2> QED
        BY <1>2, <2>2, <2>3, <2>6, <2>7, UntoldKeeps DEF icmpv6_rx
<1>3. CASE a.f.kind = "echo6_rep"
    <2>1. Answered(t, Now, a.buf)
        BY <1>3 DEF icmpv6_rx
    <2>2. PICK C, O : C = {} /\ O = {}
        OBVIOUS
    <2>3. StackOwned' /\ Moved(C, O)
        BY <1>0, <2>1, SilentKeeps
    <2>4. /\ UNCHANGED pending /\ heard' = heard \cup {<<a.f.from, a.f.id>>}
          /\ ping' = IF a.f.id = ping[6].id THEN [ping EXCEPT ![6].seen = TRUE] ELSE ping
        BY <1>3 DEF icmpv6_rx
    <2>5. PICK nif \in {"eth", "lo"}, f \in Frames : nif = a.nif /\ f = a.f
        BY <1>1
    <2>6. /\ FrameTrue(nif, f) /\ f.kind = "echo6_rep" /\ heard' = heard \cup {<<f.from, f.id>>}
          /\ ping' = IF f.id = ping[6].id THEN [ping EXCEPT ![6].seen = TRUE] ELSE ping
        BY <1>1, <1>3, <2>4, <2>5
    <2> QED
        BY <2>2, <2>3, <2>4, <2>6, EchoTells
<1> QED
    BY <1>2, <1>3 DEF icmpv6_rx

\* An answer to the query that is out has an address of the name that was asked for.
LEMMA udp_rxKeeps ==
    ASSUME StackInv, NEW t \in Threads, stacks[t] # <<>>, NEW a, a = Head(stacks[t]), a.op = "rx",
           udp_rx(t, a), UNCHANGED <<job, names, g_eph>>
    PROVE  StackInv'
<1>0. StackOwned /\ DnsTrue
    BY DEF StackInv, ClientInv
<1>1. a.f \in Frames /\ a.nif \in {"eth", "lo"} /\ FrameTrue(a.nif, a.f)
    BY TopIs
<1>2. PICK C, O : C = {} /\ O = {}
    OBVIOUS
<1>3. StackOwned' /\ Moved(C, O)
    BY <1>0, SilentKeeps DEF udp_rx
<1>4. /\ a.f.kind = "answer" /\ ping' = ping /\ heard' = heard
      /\ pending' = IF a.f.port \in binds /\ a.f.id = pending.id
                    THEN [pending EXCEPT !.got = TRUE, !.ip = a.f.ip] ELSE pending
    BY DEF udp_rx
<1>5. AnswerTo(a.f, out)
    BY <1>1, <1>4 DEF FrameTrue
<1>6. /\ pending \in [got : BOOLEAN, id : Ids, ip : Answered0] /\ a.f.ip \in Answered0
      /\ ping \in [{4, 6} -> [seen : BOOLEAN, id : Ids]]
    BY <1>1 DEF StackInv, ClientInv, ClientTypes, Frames
<1>7. pending' \in [got : BOOLEAN, id : Ids, ip : Answered0] /\ pending'.id = pending.id
    BY <1>4, <1>6
<1>8. pending' = pending \/ (a.f.id = pending.id /\ pending'.ip = a.f.ip)
    BY <1>4, <1>6
<1>9. ASSUME job.at \in {"dns send", "dns wait"}, pending'.got
      PROVE  (pending.got /\ pending'.ip = pending.ip) \/ pending'.ip \in AddrOf[job.dst]
    <2>1. CASE pending' = pending
        BY <1>9, <2>1
    <2>2. CASE a.f.id = pending.id /\ pending'.ip = a.f.ip
        BY <1>0, <1>5, <1>9, <2>2 DEF AnswerTo, DnsTrue
    <2> QED
        BY <1>8, <2>1, <2>2
<1>10. /\ ping' \in [{4, 6} -> [seen : BOOLEAN, id : Ids]] /\ heard \subseteq heard'
       /\ \A v \in {4, 6} : ping'[v].id = ping[v].id
       /\ \A o, g : <<o, g>> \in C => FrameTrue(o, g)'
       /\ \A g \in O : g.kind \notin {"echo", "query"}
       /\ job.at \in {"ping send", "ping wait"} /\ ping'[Version].seen =>
              ping[Version].seen \/ <<job.dst, job.id>> \in heard'
    BY <1>2, <1>4, <1>6
<1> QED
    BY <1>3, <1>7, <1>9, <1>10, HandledKeeps

LEMMA ReceiveKeeps ==
    ASSUME StackInv, NEW t \in Threads, ethernet_rx(t)
    PROVE  StackInv'
<1>1. PICK a : a = Head(stacks[t])
    OBVIOUS
<1>2. stacks[t] # <<>> /\ a.op = "rx" /\ UNCHANGED <<job, names, g_eph>>
    BY <1>1 DEF ethernet_rx
<1>3. PICK short \in BOOLEAN : arp_rx(t, a, short) \/ icmp_rx(t, a, short) \/ icmpv6_rx(t, a, short) \/ udp_rx(t, a)
    BY <1>1 DEF ethernet_rx
<1> QED
    BY <1>1, <1>2, <1>3, arp_rxKeeps, icmp_rxKeeps, icmpv6_rxKeeps, udp_rxKeeps

\* A step of the calls that sends nothing but may leave frames C to calls.
LEMMA PassedKeeps ==
    ASSUME StackInv, StackOwned', NEW C, Moved(C, {}), \A o, g : <<o, g>> \in C => FrameTrue(o, g)',
           UNCHANGED <<job, names, g_eph, ping, pending, heard>>
    PROVE  StackInv'
<1>1. PICK O : O = {}
    OBVIOUS
<1>2. Moved(C, O) /\ \A g \in O : g.kind \notin {"echo", "query"}
    BY <1>1
<1>3. /\ ping' \in [{4, 6} -> [seen : BOOLEAN, id : Ids]] /\ pending' \in [got : BOOLEAN, id : Ids, ip : Answered0]
      /\ ping' = ping /\ pending' = pending /\ heard' = heard
    BY DEF StackInv, ClientInv, ClientTypes
<1> QED
    BY <1>2, <1>3, HandledKeeps

LEMMA FreesKeeps ==
    ASSUME StackInv, NEW t \in Threads, Frees(t)
    PROVE  StackInv'
<1>0. StackOwned
    BY DEF StackInv
<1>1. PICK b, X, K, C, O : b = Head(stacks[t]).buf /\ X = {b} /\ K = Kept(t) /\ C = {} /\ O = {}
    OBVIOUS
<1>2. stacks[t] # <<>> /\ UNCHANGED <<job, names, g_eph, ping, pending, heard>>
    BY DEF Frees
<1>3. InStep(K, C, O, Now, X)
    BY <1>1, <1>2, TopIs
<1>4. PICK n : n = netbuf_free(Now, b)
    OBVIOUS
<1>5. InStep(K, C, O, n, X \ {b})
    BY <1>1, <1>3, <1>4, FreeIs
<1>6. InStep(Kept(t), C, O, n, {}) /\ Does(t, n, Rest(t))
    <2>1. X \ {b} = {}
        BY <1>1
    <2>2. Does(t, n, Rest(t))
        BY <1>1, <1>2, <1>4 DEF Frees, Rest
    <2> QED
        BY <1>1, <1>5, <2>1, <2>2
<1>7. StackOwned' /\ Moved(C, {})
    BY <1>0, <1>1, <1>6, DoesKeeps DEF Moved
<1>8. \A o, g : <<o, g>> \in C => FrameTrue(o, g)'
    BY <1>1
<1> QED
    BY <1>2, <1>7, <1>8, PassedKeeps

\* What arrives: a frame of a machine on its own, or an answer to one that was sent.
LEMMA IncomingIs ==
    ASSUME StackInv, NEW f \in Incoming
    PROVE  f \in Frames /\ FrameTrue("eth", f)
<1> USE NetAssumption
<1>0. out \in SUBSET Frames /\ \A q \in out : q.kind = "query" => q.name \in Names
    BY DEF StackInv, StackOwned, ClientInv, DnsTrue
<1>1. CASE \E h \in Hosts \ {NS} : f \in {Frame("arp_req", h, ME, 0), Frame("echo", h, ME, 0)}
    <2>1. PICK h \in Hosts, k \in {"arp_req", "echo"} : f = Frame(k, h, ME, 0)
        BY <1>1
    <2>2. f \in Frames /\ f.kind = k
        BY <2>1 DEF Frame, Frames, Kinds, Addresses, Answered0
    <2> QED
        BY <2>2 DEF FrameTrue
<1>2. CASE \E q \in out : f \in Replies(q)
    <2>1. PICK q \in out : f \in Replies(q)
        BY <1>2
    <2>2. q \in Frames
        BY <1>0
    <2>3. CASE q.kind = "arp_req" /\ q.to \in Hosts
        <3>1. f = Frame("arp_rep", q.to, ME, 0)
            BY <2>1, <2>3 DEF Replies
        <3>2. f \in Frames /\ f.kind = "arp_rep"
            BY <2>3, <3>1 DEF Frame, Frames, Kinds, Addresses, Answered0
        <3> QED
            BY <3>2 DEF FrameTrue
    <2>4. CASE q.kind = "echo" /\ q.to \in Hosts
        <3>1. f = [q EXCEPT !.kind = "echo_rep", !.from = q.to, !.to = ME]
            BY <2>1, <2>4 DEF Replies
        <3>2. f \in Frames /\ f.kind = "echo_rep" /\ f.from = q.to /\ f.id = q.id
            BY <2>2, <3>1 DEF Frames, Kinds, Addresses
        <3> QED
            BY <2>4, <3>2 DEF FrameTrue, EchoOf
    <2>5. CASE q.kind = "query"
        <3>1. PICK ip \in AddrOf[q.name] : f = [q EXCEPT !.kind = "answer", !.from = NS, !.to = ME, !.ip = ip]
            BY <2>1, <2>5 DEF Replies
        <3>2. ip \in Answered0 /\ NS \in Addresses
            BY <1>0, <2>5 DEF Answered0, Addresses
        <3>3. f \in Frames /\ f.kind = "answer" /\ f.ip = ip /\ f.id = q.id
            BY <2>2, <3>1, <3>2 DEF Frames, Kinds, Addresses
        <3> QED
            BY <2>5, <3>3 DEF FrameTrue, AnswerTo
    <2> QED
        BY <2>1, <2>3, <2>4, <2>5 DEF Replies
<1> QED
    BY <1>1, <1>2 DEF Incoming

LEMMA Poll0Keeps ==
    ASSUME StackInv, NEW t \in Threads, Poll0(t)
    PROVE  StackInv'
<1>0. StackOwned
    BY DEF StackInv
<1>1. stacks[t] = <<>> /\ UNCHANGED <<job, names, g_eph, ping, pending, heard>>
    BY DEF Poll0
<1>2. PICK f \in Incoming : LET m == netbuf_alloc(Now, FALSE)
                            IN m.buf # 0 /\ Does(t, [m EXCEPT !.push = <<Rx("eth", f, m.buf)>>], <<>>)
    BY DEF Poll0
<1>3. PICK m : m = netbuf_alloc(Now, FALSE)
    OBVIOUS
<1>4. PICK b, c : b = m.buf /\ c = Rx("eth", f, b)
    OBVIOUS
<1>5. PICK n : n = [m EXCEPT !.push = <<c>>]
    OBVIOUS
<1>6. b # 0 /\ Does(t, n, Rest(t))
    BY <1>1, <1>2, <1>3, <1>4, <1>5 DEF Rest
<1>7. PICK K, C, O, short : K = Kept(t) /\ C = {<<"eth", f>>} /\ O = {} /\ short = FALSE
    OBVIOUS
<1>8. InStep(K, C, O, Now, {}) /\ Now.push = <<>>
    <2>1. Own(t) = {}
        BY <1>1 DEF Own
    <2> QED
        BY <1>0, <1>7, <2>1, NowIs
<1>9. b \in Bufs /\ InStep(K, C, O, m, {} \cup {b}) /\ m.push = <<>>
    <2>1. m = netbuf_alloc(Now, short)
        BY <1>3, <1>7
    <2> QED
        BY <1>4, <1>6, <1>8, <2>1, AllocIs
<1>10. f \in Frames /\ FrameTrue("eth", f)
    BY IncomingIs
<1>11. c \in Entries /\ c.buf = b /\ c.nif = "eth" /\ c.f = f
    BY <1>4, <1>9, <1>10 DEF Rx, Entries
<1>12. n \in Steps /\ n.bufs = m.bufs /\ n.out = m.out /\ n.push = Append(m.push, c)
    <2>1. m \in Steps /\ <<c>> \in Seq(Entries) /\ Append(<<>>, c) = <<c>>
        BY <1>9, <1>11 DEF InStep
    <2> QED
        BY <1>5, <1>9, <2>1 DEF Steps
<1>13. InStep(K, C, O, n, {})
    <2>1. PICK X : X = {b}
        OBVIOUS
    <2>2. InStep(K, C, O, m, X) /\ b \in X /\ (c.op = "rx" => <<c.nif, c.f>> \in C) /\ X \ {b} = {}
        BY <1>7, <1>9, <1>11, <2>1
    <2>3. InStep(K, C, O, n, X \ {b})
        BY ONLY <1>11, <1>12, <2>2, PushIs
    <2> QED
        BY <2>2, <2>3
<1>14. StackOwned' /\ Moved(C, {})
    BY <1>0, <1>6, <1>7, <1>13, DoesKeeps DEF Moved
<1>15. \A o, g : <<o, g>> \in C => FrameTrue(o, g)'
    <2>1. FrameTrue("eth", f)'
        BY <1>10, <1>14 DEF Moved, FrameTrue, AnswerTo, EchoOf
    <2> QED
        BY <1>7, <2>1
<1> QED
    BY <1>1, <1>14, <1>15, PassedKeeps

-----------------------------------------------------------------------------
(* The client *)

\* A step of the client is made when no call is in progress.
LEMMA ClientAlone ==
    ASSUME StackInv, NEW at, Client(at)
    PROVE  /\ StackOwned /\ ClientInv /\ job.at = at /\ job \in Jobs
           /\ \A t \in Threads : stacks[t] = <<>>
           /\ \A C, O : InStep(Kept("shell"), C, O, Now, {})
           /\ Rest("shell") = <<>>
<1>1. \A t \in Threads : stacks[t] = <<>>
    BY DEF Client, Runs, Threads
<1>2. Own("shell") = {} /\ Rest("shell") = <<>> /\ "shell" \in Threads
    BY <1>1 DEF Own, Rest, Threads
<1>3. StackOwned /\ ClientInv /\ job.at = at /\ job \in Jobs
    BY DEF StackInv, ClientInv, ClientTypes, Client
<1>4. ASSUME NEW C, NEW O PROVE InStep(Kept("shell"), C, O, Now, {})
    <2>1. InStep(Kept("shell"), C, O, Now, Own("shell"))
        BY <1>2, <1>3, NowIs
    <2> QED
        BY <1>2, <2>1
<1> QED
    BY <1>1, <1>2, <1>3, <1>4

LEMMA ClientStill ==
    ASSUME StackInv, NEW at, Client(at), UNCHANGED <<bufs, arp, out, stacks>>
    PROVE  StackOwned' /\ CallsTrue'
<1>1. StackOwned /\ \A t \in Threads : stacks[t] = <<>>
    BY ClientAlone
<1>2. StackOwned'
    BY <1>1 DEF StackOwned, Holders, Distinct
<1>3. \A t \in Threads : DOMAIN stacks'[t] = {}
    BY <1>1
<1> QED
    BY <1>2, <1>3 DEF CallsTrue

LEMMA ClientCalls ==
    ASSUME StackInv, NEW at, Client(at), NEW C, NEW O, NEW m, InStep(Kept("shell"), C, O, m, {}), Does("shell", m, <<>>),
           \A o, g : <<o, g>> \in C => FrameTrue(o, g)'
    PROVE  StackOwned' /\ CallsTrue' /\ out \subseteq out' /\ out' \subseteq out \cup O
<1>1. StackOwned /\ Does("shell", m, Rest("shell")) /\ "shell" \in Threads /\ \A t \in Threads : stacks[t] = <<>>
    BY ClientAlone DEF Threads
<1>2. StackOwned' /\ Moved(C, O)
    BY <1>1, DoesKeeps DEF Moved
<1>3. ASSUME NEW u \in Threads, NEW i \in DOMAIN stacks'[u], NEW c, c = stacks'[u][i], c.op = "rx"
      PROVE  FrameTrue(c.nif, c.f)'
    <2>1. PICK nif, f : nif = c.nif /\ f = c.f
        OBVIOUS
    <2>2. DOMAIN stacks[u] = {}
        BY <1>1
    <2>3. <<nif, f>> \in C
        BY <1>2, <1>3, <2>1, <2>2 DEF Moved
    <2> QED
        BY <2>1, <2>3
<1> QED
    BY <1>2, <1>3 DEF CallsTrue, Moved

LEMMA PingStartsKeeps == StackInv /\ PingStarts => StackInv'
<1> SUFFICES ASSUME StackInv, PingStarts PROVE StackInv'
    OBVIOUS
<1> USE NetAssumption
<1>1. PICK id \in NewIds, dst \in Hosts \cup {LO}, how \in {"ping", "ping6"} :
          /\ how = "ping6" => dst = LO
          /\ LET v == IF how = "ping6" THEN 6 ELSE 4
             IN ping' = [ping EXCEPT ![v] = [seen |-> FALSE, id |-> id]]
          /\ job' = [Idle0 EXCEPT !.op = how, !.at = "ping send", !.dst = dst, !.id = id]
    BY DEF PingStarts
<1>2. Client("idle") /\ UNCHANGED <<bufs, arp, out, stacks, pending, names, g_eph>>
    BY DEF PingStarts
<1>3. ClientInv /\ StackOwned' /\ CallsTrue'
    BY <1>2, ClientAlone, ClientStill
<1>4. id \in Ids /\ \A q \in out : q.id # id
    BY DEF NewIds, Ids
<1>5. /\ job' \in Jobs /\ job'.op = how /\ job'.at = "ping send" /\ job'.dst = dst /\ job'.id = id /\ job'.ret = "none"
    BY <1>1, <1>4 DEF Idle0, Jobs, Addresses, Answered0, Ids
<1>6. PICK v \in {4, 6} : v = Version' /\ ping' = [ping EXCEPT ![v] = [seen |-> FALSE, id |-> id]]
    BY <1>1, <1>5 DEF Version
<1>7. /\ ping' \in [{4, 6} -> [seen : BOOLEAN, id : Ids]] /\ ~ping'[v].seen /\ ping'[v].id = id
    BY <1>3, <1>4, <1>6 DEF ClientInv, ClientTypes
<1>8. ClientTypes' /\ CacheTrue' /\ Told'
    BY <1>2, <1>3, <1>5, <1>7 DEF ClientInv, ClientTypes, CacheTrue, Told, ClientsTold
<1>9. PingTrue'
    <2>1. ping'[Version'].id = job'.id /\ ~ping'[Version'].seen
        BY <1>5, <1>6, <1>7
    <2>2. \A q \in out' : q.id # job'.id
        BY <1>2, <1>4, <1>5
    <2> QED
        BY <1>1, <1>5, <2>1, <2>2 DEF PingTrue
<1>10. DnsTrue'
    BY <1>2, <1>3, <1>5 DEF ClientInv, DnsTrue
<1> QED
    BY <1>3, <1>5, <1>8, <1>9, <1>10 DEF StackInv, ClientInv

LEMMA PingEndsKeeps == StackInv /\ PingEnds => StackInv'
<1> SUFFICES ASSUME StackInv, PingEnds PROVE StackInv'
    OBVIOUS
<1>1. PICK ret \in {"ok", "timeout"} : /\ ret = "ok" => ping[Version].seen
                                       /\ job' = [job EXCEPT !.at = "idle", !.ret = ret, !.ip = 0]
    BY DEF PingEnds, Ends
<1>2. Client("ping wait") /\ UNCHANGED <<bufs, arp, out, stacks, ping, pending, names, g_eph, heard>>
    BY DEF PingEnds
<1>3. ClientInv /\ StackOwned' /\ CallsTrue' /\ job.at = "ping wait" /\ job \in Jobs
    BY <1>2, ClientAlone, ClientStill
<1>4. job' \in Jobs /\ job'.at = "idle" /\ job'.ret = ret /\ job'.op = job.op /\ job'.dst = job.dst /\ job'.id = job.id
    BY <1>1, <1>3 DEF Jobs, Answered0
<1>5. ret = "ok" => <<job.dst, job.id>> \in heard /\ job.op \in {"ping", "ping6"}
    BY <1>1, <1>3 DEF ClientInv, PingTrue
<1> QED
    BY <1>2, <1>3, <1>4, <1>5 DEF StackInv, ClientInv, ClientTypes, PingTrue, DnsTrue, CacheTrue, Told, ClientsTold

\* A hit of the cache is an address of the name, none of another name that is kept as the same.
LEMMA DnsStartsKeeps == StackInv /\ DnsStarts => StackInv'
<1> SUFFICES ASSUME StackInv, DnsStarts PROVE StackInv'
    OBVIOUS
<1> USE NetAssumption
<1>1. PICK n \in Names :
          LET now == names.ticks + 1
              hits == {i \in DOMAIN names.cache : names.cache[i].name = n /\ now < names.cache[i].expires}
          IN /\ names' = [names EXCEPT !.ticks = now]
             /\ IF hits # {}
                THEN job' = [Idle0 EXCEPT !.op = "dns", !.dst = n, !.ret = "ok",
                                          !.ip = names.cache[Min(hits)].ip]
                ELSE job' = [Idle0 EXCEPT !.op = "dns", !.dst = n, !.at = "arp"]
    BY DEF DnsStarts
<1>2. Client("idle") /\ UNCHANGED <<bufs, arp, out, stacks, ping, pending, g_eph, heard>>
    BY DEF DnsStarts
<1>3. ClientInv /\ StackOwned' /\ CallsTrue'
    BY <1>2, ClientAlone, ClientStill
<1>4. names \in [cache : [1..DNS_CACHE_MAX -> CacheEntries], ticks : Nat]
    BY <1>3 DEF ClientInv, ClientTypes
<1> DEFINE now == names.ticks + 1
           hits == {i \in DOMAIN names.cache : names.cache[i].name = n /\ now < names.cache[i].expires}
<1>5. names' = [names EXCEPT !.ticks = now] /\ now \in Nat
    BY <1>1, <1>4
<1>6. names' \in [cache : [1..DNS_CACHE_MAX -> CacheEntries], ticks : Nat] /\ names'.cache = names.cache
    BY <1>4, <1>5
<1>7. CASE hits # {}
    <2>1. Min(hits) \in hits
        <3>1. hits \subseteq Nat
            BY <1>4
        <3> QED
            BY <1>7, <3>1, LeastIndex
    <2>2. PICK i \in 1..DNS_CACHE_MAX : i = Min(hits) /\ names.cache[i].name = n /\ now < names.cache[i].expires
        BY <1>4, <2>1
    <2>3. names.cache[i] \in CacheEntries /\ names.cache[i].expires # 0
        <3>1. names.cache[i] \in CacheEntries
            BY <1>4
        <3>2. names.cache[i].expires \in Nat
            BY <3>1 DEF CacheEntries
        <3> QED
            BY <1>5, <2>2, <3>1, <3>2
    <2>4. PICK ip \in Answered0 : ip = names.cache[i].ip /\ (NamesApart => ip \in AddrOf[n])
        BY <1>3, <2>2, <2>3 DEF ClientInv, CacheTrue, CacheEntries
    <2>5. job' = [Idle0 EXCEPT !.op = "dns", !.dst = n, !.ret = "ok", !.ip = ip]
        BY <1>1, <1>7, <2>2, <2>4
    <2>6. job' \in Jobs /\ job'.op = "dns" /\ job'.at = "idle" /\ job'.dst = n /\ job'.ret = "ok" /\ job'.ip = ip
        BY <2>5 DEF Idle0, Jobs, Ids
    <2> QED
        BY <1>2, <1>3, <1>6, <2>4, <2>6
        DEF StackInv, ClientInv, ClientTypes, PingTrue, DnsTrue, CacheTrue, Told, ClientsTold
<1>8. CASE hits = {}
    <2>1. job' = [Idle0 EXCEPT !.op = "dns", !.dst = n, !.at = "arp"]
        BY <1>1, <1>8
    <2>2. job' \in Jobs /\ job'.op = "dns" /\ job'.at = "arp" /\ job'.dst = n /\ job'.ret = "none"
        BY <2>1 DEF Idle0, Jobs, Ids, Answered0
    <2> QED
        BY <1>2, <1>3, <1>6, <2>2
        DEF StackInv, ClientInv, ClientTypes, PingTrue, DnsTrue, CacheTrue, Told, ClientsTold
<1> QED
    BY <1>7, <1>8

LEMMA DnsNewIdKeeps == StackInv /\ DnsNewId => StackInv'
<1> SUFFICES ASSUME StackInv, DnsNewId PROVE StackInv'
    OBVIOUS
<1>1. PICK id \in NewIds : /\ pending' = [pending EXCEPT !.id = id]
                           /\ job' = [job EXCEPT !.at = "clear", !.id = id]
    BY DEF DnsNewId
<1>2. Client("id") /\ UNCHANGED <<bufs, arp, out, stacks, ping, names, g_eph, heard>>
    BY DEF DnsNewId
<1>3. ClientInv /\ StackOwned' /\ CallsTrue' /\ job.at = "id" /\ job \in Jobs
    BY <1>2, ClientAlone, ClientStill
<1>4. id \in Ids /\ \A q \in out : q.id # id
    BY DEF NewIds, Ids
<1>5. job' \in Jobs /\ job'.at = "clear" /\ job'.id = id /\ job'.op = job.op /\ job'.dst = job.dst /\ job'.ret = job.ret
    BY <1>1, <1>3, <1>4 DEF Jobs
<1>6. pending' \in [got : BOOLEAN, id : Ids, ip : Answered0] /\ pending'.id = id
    BY <1>1, <1>3, <1>4 DEF ClientInv, ClientTypes
<1> QED
    BY <1>2, <1>3, <1>4, <1>5, <1>6
    DEF StackInv, ClientInv, ClientTypes, PingTrue, DnsTrue, CacheTrue, Told, ClientsTold

LEMMA DnsBindsKeeps == StackInv /\ DnsBinds => StackInv'
<1> SUFFICES ASSUME StackInv, DnsBinds PROVE StackInv'
    OBVIOUS
<1> USE NetAssumption
<1>1. /\ pending' = [pending EXCEPT !.got = FALSE] /\ g_eph' = (g_eph + 1) % NetPorts
      /\ job' = [job EXCEPT !.at = "dns send", !.port = g_eph]
    BY DEF DnsBinds
<1>2. Client("clear") /\ UNCHANGED <<bufs, arp, out, stacks, ping, names, heard>>
    BY DEF DnsBinds
<1>3. ClientInv /\ StackOwned' /\ CallsTrue' /\ job.at = "clear" /\ job \in Jobs
    BY <1>2, ClientAlone, ClientStill
<1>4. g_eph \in Nat /\ g_eph' \in Nat
    <2>1. g_eph \in Nat
        BY <1>3 DEF ClientInv, ClientTypes
    <2> QED
        BY <1>1, <2>1
<1>5. /\ job' \in Jobs /\ job'.at = "dns send" /\ job'.id = job.id /\ job'.op = job.op /\ job'.dst = job.dst
      /\ job'.ret = job.ret
    BY <1>1, <1>3, <1>4 DEF Jobs
<1>6. pending' \in [got : BOOLEAN, id : Ids, ip : Answered0] /\ pending'.id = pending.id /\ ~pending'.got
    BY <1>1, <1>3 DEF ClientInv, ClientTypes
<1> QED
    BY <1>2, <1>3, <1>4, <1>5, <1>6
    DEF StackInv, ClientInv, ClientTypes, PingTrue, DnsTrue, CacheTrue, Told, ClientsTold

\* The ping goes on, or gives up, with requests of ARP and its own echo sent.
LEMMA PingGoesOn ==
    ASSUME StackInv, Client("ping send"), UNCHANGED <<ping, pending, names, g_eph, heard>>,
           NEW f \in Frames, f.kind \in {"echo", "echo6"}, f.to = job.dst,
           StackOwned', CallsTrue', out \subseteq out', out' \subseteq out \cup ArpFrames \cup {f},
           \/ job' = [job EXCEPT !.at = "idle", !.ret = "failed", !.ip = 0]
           \/ job' = [job EXCEPT !.at = "ping wait"]
    PROVE  StackInv'
<1>1. ClientInv /\ job.at = "ping send" /\ job \in Jobs
    BY ClientAlone
<1>2. job.op \in {"ping", "ping6"} /\ job.ret # "ok"
    BY <1>1 DEF ClientInv, PingTrue
<1>3. PICK at \in {"idle", "ping wait"} :
          /\ job' \in Jobs /\ job'.at = at /\ job'.ret # "ok" /\ job'.op = job.op /\ job'.dst = job.dst /\ job'.id = job.id
    <2>1. CASE job' = [job EXCEPT !.at = "idle", !.ret = "failed", !.ip = 0]
        <3>1. job' = [job EXCEPT !.at = "idle", !.ret = "failed", !.ip = 0]
            BY <2>1
        <3>2. job' \in Jobs /\ job'.at = "idle" /\ job'.ret = "failed" /\ job'.op = job.op
            BY <1>1, <3>1 DEF Jobs, Answered0
        <3>3. job'.dst = job.dst /\ job'.id = job.id
            BY <1>1, <3>1 DEF Jobs
        <3> QED
            BY <3>2, <3>3
    <2>2. CASE job' = [job EXCEPT !.at = "ping wait"]
        <3>1. job' \in Jobs /\ job'.at = "ping wait" /\ job'.ret = job.ret /\ job'.op = job.op
            BY <1>1, <2>2 DEF Jobs
        <3>2. job'.dst = job.dst /\ job'.id = job.id
            BY <1>1, <2>2 DEF Jobs
        <3> QED
            BY <1>2, <3>1, <3>2
    <2> QED
        BY <2>1, <2>2
<1>4. \A q \in out' : q \in out \/ q = f \/ q.kind \notin {"echo", "query"}
    BY DEF ArpFrames
<1>5. PingTrue'
    <2>1. Version' = Version
        BY <1>3 DEF Version
    <2> QED
        BY <1>1, <1>3, <1>4, <2>1 DEF ClientInv, PingTrue
<1>6. DnsTrue'
    BY <1>1, <1>3, <1>4 DEF ClientInv, DnsTrue
<1>7. ClientTypes' /\ CacheTrue' /\ Told'
    BY <1>1, <1>3 DEF ClientInv, ClientTypes, CacheTrue, Told, ClientsTold
<1> QED
    BY <1>3, <1>5, <1>6, <1>7 DEF StackInv, ClientInv

\* A datagram that the loopback refuses has left only a request of ARP.
LEMMA RefusedIs ==
    ASSUME NEW K, NEW C, NEW O, NEW X, NEW m, InStep(K, C, O, m, X), NEW b \in X, NEW f, f.to \in Addresses,
           Sendable("lo", C, O), NEW short, NEW n, n = ipv4_send(m, "lo", f, b, short), n.rc # 0
    PROVE  InStep(K, C, O, n, X \ {b})
<1>1. PICK looked, nif : looked = arp_lookup(m, f.to) /\ nif = "lo"
    OBVIOUS
<1>2. InStep(K, C, O, looked, X)
    BY <1>1, LookupIs
<1>3. n = IF looked.rc = 0 THEN ethernet_send(looked, nif, f, b, short)
          ELSE [arp_send_req(looked, nif, f.to, short) EXCEPT !.push = Append(@, Free(b)), !.rc = -1]
    BY <1>1 DEF ipv4_send
<1>4. looked.rc # 0
    <2>1. ASSUME looked.rc = 0 PROVE FALSE
        <3>1. n = [looked EXCEPT !.push = Append(@, Rx("lo", f, b)), !.rc = 0]
            BY <1>1, <1>3, <2>1 DEF ethernet_send
        <3> QED
            BY <1>2, <3>1 DEF InStep, Steps
    <2> QED
        BY <2>1
<1>5. PICK asked : asked = arp_send_req(looked, nif, f.to, short)
    OBVIOUS
<1>6. InStep(K, C, O, asked, X)
    BY <1>1, <1>2, <1>5, RequestIs
<1>7. n = [asked EXCEPT !.push = Append(@, Free(b)), !.rc = -1]
    BY <1>3, <1>4, <1>5
<1> QED
    BY <1>6, <1>7, FreeLaterIs

LEMMA PingSendsKeeps == StackInv /\ PingSends => StackInv'
<1> SUFFICES ASSUME StackInv, PingSends PROVE StackInv'
    OBVIOUS
<1> USE NetAssumption
<1>1. PICK short \in BOOLEAN :
           LET nif == IF job.dst = LO THEN "lo" ELSE "eth"
               m == netbuf_alloc(Now, short)
               f == Frame(IF Version = 6 THEN "echo6" ELSE "echo", AddressOn(nif), job.dst, job.id)
               sent == IF Version = 6 THEN ethernet_send(m, "lo", f, m.buf, short)
                       ELSE ipv4_send(m, nif, f, m.buf, short)
           IN IF m.buf = 0
              THEN Ends("failed", 0) /\ UNCHANGED <<bufs, arp, out, stacks>>
              ELSE /\ Does("shell", sent, <<>>)
                   /\ IF sent.rc # 0 THEN Ends("failed", 0) ELSE job' = [job EXCEPT !.at = "ping wait"]
    BY DEF PingSends
<1>2. PICK nif \in {"eth", "lo"} : nif = IF job.dst = LO THEN "lo" ELSE "eth"
    OBVIOUS
<1>3. PICK m, b : m = netbuf_alloc(Now, short) /\ b = m.buf
    OBVIOUS
<1>4. PICK f : f = Frame(IF Version = 6 THEN "echo6" ELSE "echo", AddressOn(nif), job.dst, job.id)
    OBVIOUS
<1>5. PICK sent : sent = IF Version = 6 THEN ethernet_send(m, "lo", f, b, short) ELSE ipv4_send(m, nif, f, b, short)
    OBVIOUS
<1>6. Client("ping send") /\ UNCHANGED <<ping, pending, names, g_eph, heard>>
    BY DEF PingSends
<1>7. ClientInv /\ job.at = "ping send" /\ job \in Jobs
    BY <1>6, ClientAlone
<1>8. /\ job.dst \in {LO} \cup Hosts /\ (Version = 6 => nif = "lo")
    <2>1. PingTrue
        BY <1>7 DEF ClientInv
    <2>2. job.dst \in {LO} \cup Hosts /\ (job.op = "ping6" => job.dst = LO)
        BY <1>7, <2>1 DEF PingTrue
    <2>3. Version = 6 => job.op = "ping6"
        BY DEF Version
    <2> QED
        BY <1>2, <2>2, <2>3
<1>9. /\ f \in Frames /\ f.kind = (IF Version = 6 THEN "echo6" ELSE "echo")
      /\ f.to = job.dst /\ f.id = job.id /\ (nif = "lo" => f.from = LO /\ f.to = LO)
    BY <1>2, <1>4, <1>7, <1>8 DEF Frame, Frames, Kinds, Addresses, AddressOn, Jobs, Ids, Answered0
<1>10. f.kind \in {"echo", "echo6"} /\ f.to \in Addresses
    BY <1>9 DEF Frames
<1>11. CASE b = 0
    <2>1. Ends("failed", 0) /\ UNCHANGED <<bufs, arp, out, stacks>>
        BY <1>1, <1>3, <1>11
    <2>2. StackOwned' /\ CallsTrue' /\ out' = out
        BY <1>6, <2>1, ClientStill
    <2>5. job' = [job EXCEPT !.at = "idle", !.ret = "failed", !.ip = 0]
        BY <2>1 DEF Ends
    <2>3. f \in Frames /\ f.kind \in {"echo", "echo6"} /\ f.to = job.dst /\ out \subseteq out' /\ out' \subseteq out \cup ArpFrames \cup {f}
        BY <1>9, <1>10, <2>2
    <2>4. StackInv
        OBVIOUS
    <2> QED
        BY ONLY <1>6, <2>2, <2>3, <2>4, <2>5, PingGoesOn
<1>12. CASE b # 0
    <2>1. /\ Does("shell", sent, <<>>)
          /\ IF sent.rc # 0 THEN Ends("failed", 0) ELSE job' = [job EXCEPT !.at = "ping wait"]
        BY <1>1, <1>2, <1>3, <1>4, <1>5, <1>12
    <2>2. PICK K, X : K = Kept("shell") /\ X = {b}
        OBVIOUS
    <2>3. \A C, O : b \in X /\ InStep(K, C, O, m, X)
        <3>1. ASSUME NEW C, NEW O PROVE InStep(K, C, O, m, X)
            <4>1. InStep(K, C, O, Now, {})
                BY <1>6, <2>2, ClientAlone
            <4>2. m.buf \in Bufs \ {} /\ InStep(K, C, O, m, {} \cup {m.buf})
                BY <1>3, <1>12, <4>1, AllocIs
            <4> QED
                BY <1>3, <2>2, <4>2
        <3> QED
            BY <2>2, <3>1
    <2>4. \E C, O : /\ InStep(K, C, O, sent, X \ {b}) /\ O \subseteq ArpFrames \cup {f}
                    /\ \A o, g : <<o, g>> \in C => FrameTrue(o, g)'
        <3>1. CASE sent.rc # 0 /\ nif = "lo"
            <4>1. PICK g : g = Frame("arp_req", LO, LO, 0)
                OBVIOUS
            <4>2. g \in ArpFrames /\ g \in Frames
                BY <4>1 DEF Frame, Frames, Kinds, Addresses, Answered0, ArpFrames
            <4>3. PICK C, O : C = ToCalls("lo", g) /\ O = ToNet("lo", g)
                OBVIOUS
            <4>4. Sendable("lo", C, O)
                BY <4>2, <4>3, MaySend
            <4>5. InStep(K, C, O, m, X) /\ b \in X
                BY <2>3
            <4>6. sent = ipv4_send(m, "lo", f, b, short)
                <5>1. Version = 6 => sent = [m EXCEPT !.push = Append(@, Rx("lo", f, b)), !.rc = 0]
                    BY <1>5 DEF ethernet_send
                <5>2. Version # 6
                    BY <3>1, <4>5, <5>1 DEF InStep, Steps
                <5> QED
                    BY <1>5, <3>1, <5>2
            <4>7. InStep(K, C, O, sent, X \ {b})
                BY ONLY <1>10, <3>1, <4>4, <4>5, <4>6, RefusedIs
            <4>8. \A o, h : <<o, h>> \in C => FrameTrue(o, h)'
                <5>1. FrameTrue("lo", g)'
                    BY <4>2 DEF ArpFrames, FrameTrue, Echoes
                <5> QED
                    BY <4>3, <5>1, CallsFine
            <4>9. O \subseteq ArpFrames \cup {f}
                BY <4>3 DEF ToNet
            <4> QED
                BY <4>7, <4>8, <4>9
        <3>2. CASE ~(sent.rc # 0 /\ nif = "lo")
            <4>1. PICK C, O : C = ToCalls(nif, f) /\ O = ToNet(nif, f)
                OBVIOUS
            <4>2. Sends(nif, f, C, O) /\ Sendable(nif, C, O)
                BY <1>9, <4>1, MaySend
            <4>3. InStep(K, C, O, m, X) /\ b \in X
                BY <2>3
            <4>4. sent = ethernet_send(m, nif, f, b, short) \/ sent = ipv4_send(m, nif, f, b, short)
                BY <1>5, <1>8
            <4>5. InStep(K, C, O, sent, X \ {b})
                BY ONLY <4>2, <4>3, <4>4, SendIs, Ipv4Is
            <4>6. nif = "lo" => FrameTrue("lo", f)'
                <5>1. ASSUME nif = "lo" PROVE FrameTrue("lo", f)'
                    <6>1. job' = [job EXCEPT !.at = "ping wait"]
                        BY <2>1, <3>2, <5>1
                    <6>2. job'.at = "ping wait" /\ job'.dst = job.dst /\ job'.id = job.id
                        BY <1>7, <6>1 DEF Jobs
                    <6> QED
                        BY <1>9, <1>10, <5>1, <6>2 DEF FrameTrue, Echoes
                <5> QED
                    BY <5>1
            <4>7. \A o, h : <<o, h>> \in C => FrameTrue(o, h)'
                BY <4>1, <4>6, CallsFine
            <4>8. O \subseteq ArpFrames \cup {f}
                BY <4>1 DEF ToNet
            <4> QED
                BY <4>5, <4>7, <4>8
        <3> QED
            BY <3>1, <3>2
    <2>5. PICK C, O : /\ InStep(K, C, O, sent, X \ {b}) /\ O \subseteq ArpFrames \cup {f}
                      /\ \A o, g : <<o, g>> \in C => FrameTrue(o, g)'
        BY <2>4
    <2>6. InStep(Kept("shell"), C, O, sent, {})
        <3>1. X \ {b} = {}
            BY <2>2
        <3> QED
            BY <2>2, <2>5, <3>1
    <2>7. StackOwned' /\ CallsTrue' /\ out \subseteq out' /\ out' \subseteq out \cup O
        BY <1>6, <2>1, <2>5, <2>6, ClientCalls
    <2>8. out' \subseteq out \cup ArpFrames \cup {f}
        BY <2>5, <2>7
    <2>9. \/ job' = [job EXCEPT !.at = "idle", !.ret = "failed", !.ip = 0]
          \/ job' = [job EXCEPT !.at = "ping wait"]
        BY <2>1 DEF Ends
    <2>10. StackInv /\ f \in Frames /\ f.kind \in {"echo", "echo6"} /\ f.to = job.dst
        BY <1>9, <1>10
    <2> QED
        BY ONLY <1>6, <2>7, <2>8, <2>9, <2>10, PingGoesOn
<1> QED
    BY <1>11, <1>12

\* The resolver looks for its server, or gives up, with requests of ARP sent.
LEMMA DnsGoesOn ==
    ASSUME StackInv, NEW at0 \in {"arp", "arp wait"}, Client(at0), UNCHANGED <<ping, pending, names, g_eph, heard>>,
           StackOwned', CallsTrue', out \subseteq out', out' \subseteq out \cup ArpFrames,
           \/ job' = [job EXCEPT !.at = "id"]
           \/ job' = [job EXCEPT !.at = "arp wait"]
           \/ job' = [job EXCEPT !.at = "idle", !.ret = "unreachable", !.ip = 0]
    PROVE  StackInv'
<1>1. ClientInv /\ job.at \in {"arp", "arp wait"} /\ job \in Jobs
    BY ClientAlone
<1>2. job.ret # "ok" /\ job.op = "dns" /\ job.dst \in Names
    BY <1>1 DEF ClientInv, DnsTrue
<1>3. PICK at \in {"idle", "id", "arp wait"} :
          /\ job' \in Jobs /\ job'.at = at /\ job'.ret # "ok" /\ job'.op = job.op /\ job'.dst = job.dst
    <2>1. CASE job' = [job EXCEPT !.at = "idle", !.ret = "unreachable", !.ip = 0]
        <3>1. job' \in Jobs /\ job'.at = "idle" /\ job'.ret = "unreachable"
            BY <1>1, <2>1 DEF Jobs, Answered0
        <3>2. job'.op = job.op /\ job'.dst = job.dst
            BY <1>1, <2>1 DEF Jobs
        <3> QED
            BY <3>1, <3>2
    <2>2. ASSUME NEW at \in {"id", "arp wait"}, job' = [job EXCEPT !.at = at]
          PROVE  job' \in Jobs /\ job'.at = at /\ job'.ret # "ok" /\ job'.op = job.op /\ job'.dst = job.dst
        BY <1>1, <1>2, <2>2 DEF Jobs
    <2> QED
        BY <2>1, <2>2
<1>4. \A q \in out' : q \in out \/ q.kind \notin {"echo", "query"}
    BY DEF ArpFrames
<1>5. DnsTrue'
    BY <1>1, <1>2, <1>3, <1>4 DEF ClientInv, DnsTrue
<1>6. PingTrue'
    BY <1>3 DEF PingTrue
<1>7. ClientTypes' /\ CacheTrue' /\ Told'
    BY <1>1, <1>3 DEF ClientInv, ClientTypes, CacheTrue, Told, ClientsTold
<1> QED
    BY <1>3, <1>5, <1>6, <1>7 DEF StackInv, ClientInv

LEMMA ArpSendable ==
    \E C, O : /\ Sendable("eth", C, O) /\ O = ArpFrames /\ C = {}
BY DEF Sendable, Sends, ArpFrames

LEMMA DnsResolvesServerKeeps == StackInv /\ DnsResolvesServer => StackInv'
<1> SUFFICES ASSUME StackInv, DnsResolvesServer PROVE StackInv'
    OBVIOUS
<1> USE NetAssumption
<1>1. PICK short \in BOOLEAN :
           LET looked == arp_lookup(Now, NS) IN
           IF looked.rc = 0
           THEN Does("shell", looked, <<>>) /\ job' = [job EXCEPT !.at = "id"]
           ELSE /\ Does("shell", arp_send_req(looked, "eth", NS, short), <<>>)
                /\ job' = [job EXCEPT !.at = "arp wait"]
    BY DEF DnsResolvesServer
<1>2. Client("arp") /\ UNCHANGED <<ping, pending, names, g_eph, heard>>
    BY DEF DnsResolvesServer
<1>3. PICK C, O : Sendable("eth", C, O) /\ O = ArpFrames /\ C = {}
    BY ArpSendable
<1>4. PICK K, X, nif, ip : K = Kept("shell") /\ X = {} /\ nif = "eth" /\ ip = NS
    OBVIOUS
<1>5. PICK looked : looked = arp_lookup(Now, ip)
    OBVIOUS
<1>6. InStep(K, C, O, looked, X)
    <2>1. InStep(K, C, O, Now, X)
        BY <1>2, <1>4, ClientAlone
    <2> QED
        BY <1>5, <2>1, LookupIs
<1>7. PICK asked : asked = arp_send_req(looked, nif, ip, short)
    OBVIOUS
<1>8. InStep(K, C, O, asked, X)
    <2>1. ip \in Addresses /\ Sendable(nif, C, O)
        BY <1>3, <1>4 DEF Addresses
    <2> QED
        BY <1>6, <1>7, <2>1, RequestIs
<1>9. \/ Does("shell", looked, <<>>) /\ job' = [job EXCEPT !.at = "id"]
      \/ Does("shell", asked, <<>>) /\ job' = [job EXCEPT !.at = "arp wait"]
    BY <1>1, <1>4, <1>5, <1>7
<1>10. InStep(Kept("shell"), C, O, looked, {}) /\ InStep(Kept("shell"), C, O, asked, {})
    BY <1>4, <1>6, <1>8
<1>11. \A o, g : <<o, g>> \in C => FrameTrue(o, g)'
    BY <1>3
<1>12. StackOwned' /\ CallsTrue' /\ out \subseteq out' /\ out' \subseteq out \cup ArpFrames
    BY <1>2, <1>3, <1>9, <1>10, <1>11, ClientCalls
<1> QED
    BY <1>2, <1>9, <1>12, DnsGoesOn

LEMMA DnsServerResolvedKeeps == StackInv /\ DnsServerResolved => StackInv'
<1> SUFFICES ASSUME StackInv, DnsServerResolved PROVE StackInv'
    OBVIOUS
<1>1. PICK K, C, O, X, ip : K = Kept("shell") /\ C = {} /\ O = {} /\ X = {} /\ ip = NS
    OBVIOUS
<1>2. Client("arp wait") /\ UNCHANGED <<ping, pending, names, g_eph, heard>>
    BY DEF DnsServerResolved
<1>3. PICK looked : looked = arp_lookup(Now, ip)
    OBVIOUS
<1>4. InStep(K, C, O, looked, X)
    <2>1. InStep(K, C, O, Now, X)
        BY <1>1, <1>2, ClientAlone
    <2> QED
        BY <1>3, <2>1, LookupIs
<1>5. /\ Does("shell", looked, <<>>)
      /\ \/ job' = [job EXCEPT !.at = "id"]
         \/ job' = [job EXCEPT !.at = "idle", !.ret = "unreachable", !.ip = 0]
    BY <1>1, <1>3 DEF DnsServerResolved, Ends
<1>6. InStep(Kept("shell"), C, O, looked, {}) /\ \A o, g : <<o, g>> \in C => FrameTrue(o, g)'
    BY <1>1, <1>4
<1>7. StackOwned' /\ CallsTrue' /\ out \subseteq out' /\ out' \subseteq out \cup O
    BY <1>2, <1>5, <1>6, ClientCalls
<1>8. out' \subseteq out \cup ArpFrames
    BY <1>1, <1>7
<1> QED
    BY <1>2, <1>5, <1>7, <1>8, DnsGoesOn

LEMMA DnsSendsKeeps == StackInv /\ DnsSends => StackInv'
<1> SUFFICES ASSUME StackInv, DnsSends PROVE StackInv'
    OBVIOUS
<1> USE NetAssumption
<1>1. PICK short \in BOOLEAN :
           LET m == netbuf_alloc(Now, short)
               q == [Frame("query", ME, NS, job.id) EXCEPT !.port = job.port, !.name = job.dst]
           IN IF m.buf = 0 THEN UNCHANGED <<bufs, arp, out, stacks>>
              ELSE Does("shell", ipv4_send(m, "eth", q, m.buf, short), <<>>)
    BY DEF DnsSends
<1>2. /\ Client("dns send") /\ UNCHANGED <<ping, pending, names, g_eph, heard>>
      /\ job' = [job EXCEPT !.at = "dns wait"]
    BY DEF DnsSends
<1>3. ClientInv /\ job.at = "dns send" /\ job \in Jobs
    BY <1>2, ClientAlone
<1>4. job.op = "dns" /\ job.dst \in Names /\ job.ret # "ok"
    BY <1>3 DEF ClientInv, DnsTrue
<1>5. PICK m, b, nif : m = netbuf_alloc(Now, short) /\ b = m.buf /\ nif = "eth"
    OBVIOUS
<1>6. PICK q : q = [Frame("query", ME, NS, job.id) EXCEPT !.port = job.port, !.name = job.dst]
    OBVIOUS
<1>7. q \in Frames /\ q.kind = "query" /\ q.id = job.id /\ q.name = job.dst
    BY <1>3, <1>4, <1>6 DEF Frame, Frames, Kinds, Addresses, Jobs, Ids, Answered0
<1>8. StackOwned' /\ CallsTrue' /\ out' \subseteq out \cup ArpFrames \cup {q}
    <2>1. CASE b = 0
        <3>1. UNCHANGED <<bufs, arp, out, stacks>>
            BY <1>1, <1>5, <2>1
        <3> QED
            BY <1>2, <3>1, ClientStill
    <2>2. CASE b # 0
        <3>1. PICK sent : sent = ipv4_send(m, nif, q, b, short)
            OBVIOUS
        <3>2. Does("shell", sent, <<>>)
            BY <1>1, <1>5, <1>6, <2>2, <3>1
        <3>3. PICK K, X, C, O : K = Kept("shell") /\ X = {b} /\ C = ToCalls(nif, q) /\ O = ToNet(nif, q)
            OBVIOUS
        <3>4. Sends(nif, q, C, O) /\ Sendable(nif, C, O)
            BY <1>5, <1>7, <3>3, MaySend
        <3>5. b \in X /\ InStep(K, C, O, m, X)
            <4>1. InStep(K, C, O, Now, {})
                BY <1>2, <3>3, ClientAlone
            <4>2. m.buf \in Bufs \ {} /\ InStep(K, C, O, m, {} \cup {m.buf})
                BY <1>5, <2>2, <4>1, AllocIs
            <4> QED
                BY <1>5, <3>3, <4>2
        <3>6. InStep(K, C, O, sent, X \ {b})
            BY ONLY <3>1, <3>4, <3>5, Ipv4Is
        <3>7. InStep(Kept("shell"), C, O, sent, {})
            <4>1. X \ {b} = {}
                BY <3>3
            <4> QED
                BY <3>3, <3>6, <4>1
        <3>8. \A o, g : <<o, g>> \in C => FrameTrue(o, g)'
            BY <1>5, <3>3, CallsFine
        <3>9. StackOwned' /\ CallsTrue' /\ out' \subseteq out \cup O
            BY <1>2, <3>2, <3>7, <3>8, ClientCalls
        <3>10. O \subseteq ArpFrames \cup {q}
            BY <3>3 DEF ToNet
        <3> QED
            BY <3>9, <3>10
    <2> QED
        BY <2>1, <2>2
<1>9. /\ job' \in Jobs /\ job'.at = "dns wait" /\ job'.op = job.op /\ job'.dst = job.dst /\ job'.id = job.id
      /\ job'.ret = job.ret
    BY <1>2, <1>3 DEF Jobs
<1>10. \A g \in out' : g \in out \/ g = q \/ g.kind # "query"
    BY <1>8 DEF ArpFrames
<1>11. DnsTrue'
    BY <1>2, <1>3, <1>4, <1>7, <1>9, <1>10 DEF ClientInv, DnsTrue
<1>12. ClientTypes' /\ PingTrue' /\ CacheTrue' /\ Told'
    BY <1>2, <1>3, <1>4, <1>9 DEF ClientInv, ClientTypes, PingTrue, CacheTrue, Told, ClientsTold
<1> QED
    BY <1>4, <1>8, <1>9, <1>11, <1>12 DEF StackInv, ClientInv

\* What the cache takes over is an address of the name it is kept under.
LEMMA CachePutIs ==
    ASSUME ClientInv, NEW n \in Names, NEW ip \in AddrOf[n], names' = dns_cache_put(n, ip)
    PROVE  CacheTrue' /\ names' \in [cache : [1..DNS_CACHE_MAX -> CacheEntries], ticks : Nat]
<1> USE NetAssumption
<1>1. names \in [cache : [1..DNS_CACHE_MAX -> CacheEntries], ticks : Nat] /\ CacheTrue
    BY DEF ClientInv, ClientTypes
<1>2. PICK e : e = [name |-> Stored[n], ip |-> ip, expires |-> names.ticks + DNS_TTL]
    OBVIOUS
<1>3. e \in CacheEntries /\ e.name = Stored[n] /\ e.ip = ip
    <2>1. names.ticks \in Nat
        BY <1>1
    <2>2. names.ticks + DNS_TTL \in Nat
        BY <2>1
    <2>3. ip \in Answered0
        BY DEF Answered0
    <2> QED
        BY <1>2, <2>2, <2>3 DEF CacheEntries
<1>4. PICK slot \in 1..DNS_CACHE_MAX : names' = [names EXCEPT !.cache[slot] = e]
    <2> DEFINE has(x) == {i \in DOMAIN names.cache : names.cache[i].name = x}
               slot == IF has(n) # {} THEN Min(has(n)) ELSE IF has("") # {} THEN Min(has("")) ELSE 1
    <2>1. names' = [names EXCEPT !.cache[slot] = e]
        BY <1>2 DEF dns_cache_put
    <2>2. \A x : has(x) \subseteq 1..DNS_CACHE_MAX
        BY <1>1
    <2>3. \A x : has(x) # {} => Min(has(x)) \in 1..DNS_CACHE_MAX
        <3>1. ASSUME NEW x, has(x) # {} PROVE Min(has(x)) \in 1..DNS_CACHE_MAX
            <4>1. PICK T : T = has(x)
                OBVIOUS
            <4>2. T \subseteq 1..DNS_CACHE_MAX /\ T # {}
                BY <2>2, <3>1, <4>1
            <4>4. T \subseteq Nat
                BY <4>2
            <4>3. Min(T) \in T
                BY <4>2, <4>4, LeastIndex
            <4> QED
                BY <4>1, <4>2, <4>3
        <3> QED
            BY <3>1
    <2>4. 1 \in 1..DNS_CACHE_MAX
        OBVIOUS
    <2>5. slot \in 1..DNS_CACHE_MAX
        BY <2>3, <2>4
    <2> QED
        BY <2>1, <2>5
<1>5. PICK c : c = [names.cache EXCEPT ![slot] = e]
    OBVIOUS
<1>6. names' = [names EXCEPT !.cache = c]
    BY <1>4, <1>5
<1>7. /\ c \in [1..DNS_CACHE_MAX -> CacheEntries] /\ names'.cache = c
      /\ names' \in [cache : [1..DNS_CACHE_MAX -> CacheEntries], ticks : Nat]
    <2>1. PICK d \in [1..DNS_CACHE_MAX -> CacheEntries], k \in Nat : names = [cache |-> d, ticks |-> k]
        BY <1>1
    <2>2. c = [d EXCEPT ![slot] = e]
        BY <1>5, <2>1
    <2>3. c \in [1..DNS_CACHE_MAX -> CacheEntries]
        BY <1>3, <2>2
    <2>4. names' = [cache |-> c, ticks |-> k]
        BY <1>6, <2>1
    <2> QED
        BY <2>3, <2>4
<1>8. ASSUME NamesApart, NEW i \in 1..DNS_CACHE_MAX, NEW o \in Names, c[i].name = o, c[i].expires # 0 PROVE c[i].ip \in AddrOf[o]
    <2>1. CASE i = slot
        <3>1. c[i] = e
            BY <1>1, <1>5, <2>1
        <3>2. o = n
            BY <1>3, <1>8, <3>1 DEF NamesApart
        <3> QED
            BY <1>3, <3>1, <3>2
    <2>2. CASE i # slot
        <3>1. c[i] = names.cache[i]
            BY <1>1, <1>5, <2>2
        <3> QED
            BY <1>1, <1>8, <3>1 DEF CacheTrue
    <2> QED
        BY <2>1, <2>2
<1>9. CacheTrue'
    BY <1>7, <1>8 DEF CacheTrue
<1> QED
    BY <1>7, <1>9

LEMMA DnsEndsKeeps == StackInv /\ DnsEnds => StackInv'
<1> SUFFICES ASSUME StackInv, DnsEnds PROVE StackInv'
    OBVIOUS
<1>1. Client("dns wait") /\ UNCHANGED <<bufs, arp, out, stacks, ping, pending, g_eph, heard>>
    BY DEF DnsEnds
<1>2. ClientInv /\ StackOwned' /\ CallsTrue' /\ job.at = "dns wait" /\ job \in Jobs
    BY <1>1, ClientAlone, ClientStill
<1>3. job.op = "dns" /\ job.dst \in Names /\ job.ret # "ok" /\ (pending.got => pending.ip \in AddrOf[job.dst])
    BY <1>2 DEF ClientInv, DnsTrue
<1>4. pending.ip \in Answered0
    BY <1>2 DEF ClientInv, ClientTypes
<1>5. CASE pending.got
    <2>1. job' = [job EXCEPT !.at = "idle", !.ret = "ok", !.ip = pending.ip] /\ names' = dns_cache_put(job.dst, pending.ip)
        BY <1>5 DEF DnsEnds, Ends
    <2>7. PICK n \in Names : n = job.dst
        BY <1>3
    <2>2. PICK ip \in AddrOf[n] : ip = pending.ip
        BY <1>3, <1>5, <2>7
    <2>3. CacheTrue' /\ names' \in [cache : [1..DNS_CACHE_MAX -> CacheEntries], ticks : Nat]
        <3>1. names' = dns_cache_put(n, ip)
            BY <2>1, <2>2, <2>7
        <3> QED
            BY <1>2, <3>1, CachePutIs
    <2>4. job' \in Jobs /\ job'.at = "idle" /\ job'.op = job.op /\ job'.dst = job.dst /\ job'.ip = pending.ip
        BY <1>2, <1>4, <2>1 DEF Jobs
    <2>5. PingTrue' /\ DnsTrue' /\ Told'
        BY <1>1, <1>2, <1>3, <1>5, <2>4 DEF ClientInv, PingTrue, DnsTrue, Told, ClientsTold
    <2>6. ClientTypes'
        BY <1>1, <1>2, <2>3, <2>4 DEF ClientInv, ClientTypes
    <2> QED
        BY <1>2, <2>3, <2>4, <2>5, <2>6 DEF StackInv, ClientInv
<1>6. CASE ~pending.got
    <2>1. PICK at \in {"dns send", "idle"} :
              /\ job' \in Jobs /\ job'.at = at /\ job'.op = job.op /\ job'.dst = job.dst /\ job'.id = job.id
              /\ job'.ret # "ok" /\ names' = names
        <3>1. CASE job' = [job EXCEPT !.at = "dns send", !.round = @ + 1] /\ names' = names
            <4>3. job.round \in Nat
                BY <1>2 DEF Jobs
            <4>1. job.round + 1 \in Nat
                BY <4>3
            <4>2. job' = [job EXCEPT !.at = "dns send", !.round = job.round + 1]
                BY <3>1
            <4> QED
                BY <1>2, <1>3, <3>1, <4>1, <4>2 DEF Jobs
        <3>2. CASE job' = [job EXCEPT !.at = "idle", !.ret = "timeout", !.ip = 0] /\ names' = names
            <4>1. job' \in Jobs /\ job'.at = "idle" /\ job'.ret = "timeout" /\ job'.op = job.op
                BY <1>2, <3>2 DEF Jobs, Answered0
            <4>2. job'.dst = job.dst /\ job'.id = job.id
                BY <1>2, <3>2 DEF Jobs
            <4> QED
                BY <3>2, <4>1, <4>2
        <3> QED
            BY <1>6, <3>1, <3>2 DEF DnsEnds, Ends
    <2>2. PingTrue' /\ DnsTrue' /\ Told'
        BY <1>1, <1>2, <1>3, <2>1 DEF ClientInv, PingTrue, DnsTrue, Told, ClientsTold
    <2>3. ClientTypes' /\ CacheTrue'
        BY <1>1, <1>2, <2>1 DEF ClientInv, ClientTypes, CacheTrue
    <2> QED
        BY <1>2, <2>1, <2>2, <2>3 DEF StackInv, ClientInv
<1> QED
    BY <1>5, <1>6

-----------------------------------------------------------------------------
(* The theorem *)

LEMMA StackStarts == StackInit => StackInv
<1> SUFFICES ASSUME StackInit PROVE StackInv
    OBVIOUS
<1> USE NetAssumption
<1>1. /\ bufs = [b \in Bufs |-> "none"] /\ out = {} /\ stacks = [t \in Threads |-> <<>>]
      /\ arp = [i \in 1..ARP_CACHE_MAX |-> IF i = 1 THEN [ip |-> LO, age |-> 0] ELSE Empty]
    BY DEF StackInit
<1>2. /\ ping = [v \in {4, 6} |-> [seen |-> FALSE, id |-> 0]]
      /\ pending = [got |-> FALSE, id |-> 0, ip |-> 0]
      /\ names = [cache |-> [i \in 1..DNS_CACHE_MAX |-> NoName], ticks |-> 0]
      /\ g_eph = 0 /\ job = Idle0 /\ heard = {}
    BY DEF StackInit
<1>3. StackOwned
    <2>1. bufs \in [Bufs -> BufStates] /\ out \in SUBSET Frames /\ stacks \in [Threads -> Seq(Entries)]
        BY <1>1 DEF BufStates
    <2>2. arp \in Arps
        BY <1>1 DEF Arps, Empty, Addresses
    <2>3. \A t \in Threads : DOMAIN stacks[t] = {}
        BY <1>1
    <2>4. \A t \in Threads : Distinct(stacks[t]) /\ Holders(stacks[t]) = {}
        BY <2>3 DEF Distinct, Holders
    <2> QED
        BY <1>1, <2>1, <2>2, <2>4 DEF StackOwned
<1>4. ClientTypes
    <2>1. NoName \in CacheEntries
        BY DEF NoName, CacheEntries, Answered0
    <2>2. names \in [cache : [1..DNS_CACHE_MAX -> CacheEntries], ticks : Nat]
        BY <1>2, <2>1
    <2>3. job \in Jobs
        BY <1>2 DEF Idle0, Jobs, Ids, Answered0
    <2>4. ping \in [{4, 6} -> [seen : BOOLEAN, id : Ids]] /\ pending \in [got : BOOLEAN, id : Ids, ip : Answered0]
        BY <1>2 DEF Ids, Answered0
    <2> QED
        BY <1>2, <2>2, <2>3, <2>4 DEF ClientTypes
<1>5. job.at = "idle" /\ job.ret = "none"
    BY <1>2 DEF Idle0
<1>6. CallsTrue /\ PingTrue /\ DnsTrue /\ Told
    BY <1>1, <1>5 DEF CallsTrue, PingTrue, DnsTrue, Told, ClientsTold
<1>7. CacheTrue
    BY <1>2 DEF CacheTrue, NoName
<1> QED
    BY <1>3, <1>4, <1>5, <1>6, <1>7 DEF StackInv, ClientInv

LEMMA StackKeeps == StackInv /\ [StackNext]_stack_vars => StackInv'
<1> SUFFICES ASSUME StackInv, [StackNext]_stack_vars PROVE StackInv'
    OBVIOUS
<1>1. CASE UNCHANGED stack_vars
    <2>1. /\ bufs' = bufs /\ arp' = arp /\ out' = out /\ stacks' = stacks /\ ping' = ping /\ pending' = pending
          /\ names' = names /\ g_eph' = g_eph /\ job' = job /\ heard' = heard
        BY <1>1 DEF stack_vars
    <2>2. StackOwned'
        BY <2>1 DEF StackInv, StackOwned
    <2>3. CallsTrue'
        <3>1. ASSUME NEW nif, NEW f, FrameTrue(nif, f) PROVE FrameTrue(nif, f)'
            BY <2>1, <3>1 DEF FrameTrue, AnswerTo, EchoOf
        <3>2. ASSUME NEW u \in Threads, NEW i \in DOMAIN stacks'[u], NEW c, c = stacks'[u][i], c.op = "rx"
              PROVE  FrameTrue(c.nif, c.f)'
            <4>1. PICK nif, f : nif = c.nif /\ f = c.f
                OBVIOUS
            <4>2. FrameTrue(nif, f)
                BY <2>1, <3>2, <4>1 DEF StackInv, ClientInv, CallsTrue
            <4> QED
                BY <3>1, <4>1, <4>2
        <3> QED
            BY <3>2 DEF CallsTrue
    <2>4. ClientTypes' /\ PingTrue'
        BY <2>1 DEF StackInv, ClientInv, ClientTypes, PingTrue, Version
    <2>5. DnsTrue' /\ CacheTrue' /\ Told'
        BY <2>1 DEF StackInv, ClientInv, DnsTrue, CacheTrue, Told, ClientsTold
    <2>6. job'.ret = "ok" => job'.at = "idle"
        BY <2>1 DEF StackInv, ClientInv
    <2> QED
        BY <2>2, <2>3, <2>4, <2>5, <2>6 DEF StackInv, ClientInv
<1>2. CASE StackNext
    BY <1>2, ReceiveKeeps, FreesKeeps, Poll0Keeps, PingStartsKeeps, PingSendsKeeps, PingEndsKeeps, DnsStartsKeeps,
       DnsResolvesServerKeeps, DnsServerResolvedKeeps, DnsNewIdKeeps, DnsBindsKeeps, DnsSendsKeeps, DnsEndsKeeps
       DEF StackNext
<1> QED
    BY <1>1, <1>2

LEMMA StackTells == StackInv => BuffersOwned /\ (NamesApart => NetTrue)
<1> SUFFICES ASSUME StackInv PROVE BuffersOwned /\ (NamesApart => NetTrue)
    OBVIOUS
<1>1. StackOwned /\ (NamesApart => ClientsTold)
    BY DEF StackInv, ClientInv, Told
<1>2. PICK p \in Seq(Entries), r \in Seq(Entries) :
          /\ p = stacks["shell"] /\ r = stacks["tick"]
          /\ Distinct(p) /\ Distinct(r) /\ Holders(p) \cap Holders(r) = {}
    BY <1>1 DEF StackOwned, Threads
<1>3. PICK all : all = p \o r
    OBVIOUS
<1>4. Distinct(all) /\ Holders(all) = Holders(p) \cup Holders(r)
    BY <1>2, <1>3, JoinHolds
<1>5. \A b \in Bufs : bufs[b] = "held" <=> b \in Holders(all)
    BY <1>1, <1>2, <1>4 DEF StackOwned, Threads
<1>6. BuffersOwned
    <2>1. all = stacks["shell"] \o stacks["tick"]
        BY <1>2, <1>3
    <2>2. \A i, j \in DOMAIN all : all[i].buf = all[j].buf => i = j
        BY <1>4 DEF Distinct
    <2>3. \A b \in Bufs : bufs[b] = "held" <=> \E i \in DOMAIN all : all[i].buf = b
        BY <1>5 DEF Holders
    <2> QED
        BY <2>1, <2>2, <2>3 DEF BuffersOwned
<1> QED
    BY <1>1, <1>6 DEF NetTrue

(* A buffer belongs to exactly one call, which frees it once, whatever is sent,   *)
(* received, refused or lost: netbuf.c, arp.c, ipv4.c, icmp.c, ipv6.c and udp.c,  *)
(* for any hosts, names, buffers and sizes of the two caches.                     *)
THEOREM BuffersKept == StackSpec => []BuffersOwned
<1>1. StackInit => StackInv
    BY StackStarts
<1>2. StackInv /\ [StackNext]_stack_vars => StackInv'
    BY StackKeeps
<1>3. StackInv => BuffersOwned
    BY StackTells
<1> QED
    BY <1>1, <1>2, <1>3, PTL DEF StackSpec

(* What ping and dns_resolve tell their caller is so as well, when no name is     *)
(* another's first 63 characters, which is all that dns.c keeps of one.           *)
THEOREM NetKept == NamesApart => (StackSpec => []NetTrue)
<1> SUFFICES ASSUME NamesApart PROVE StackSpec => []NetTrue
    OBVIOUS
<1>1. StackInit => StackInv
    BY StackStarts
<1>2. StackInv /\ [StackNext]_stack_vars => StackInv'
    BY StackKeeps
<1>3. StackInv => NetTrue
    BY StackTells
<1> QED
    BY <1>1, <1>2, <1>3, PTL DEF StackSpec

=============================================================================
