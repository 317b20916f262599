------------------------------ MODULE VirtioBlk ------------------------------
(***************************************************************************)
(* The block device of block/virtio_blk.c under block_read and block_write *)
(* (block/block.c): one request at a time, polled, over a ring shared with *)
(* a device that runs beside the driver.                                   *)
(*                                                                         *)
(* block_read and block_write hold the device's lock with interrupts off   *)
(* for the whole call, so the driver's side is one caller; the device      *)
(* moves between any two of its steps.  A request that the device does not *)
(* answer within the spin is given up and its chain stays with the device, *)
(* which may still carry it out.                                           *)
(*                                                                         *)
(* External: the device.  It serves the requests it owns, one at a time in *)
(* the order of the available ring if InOrder, reports each through the    *)
(* used ring, and may answer any of them with an error.                    *)
(***************************************************************************)
EXTENDS Integers, Sequences, FiniteSets, SequencesExt

CONSTANTS use_num,       \* descriptors of the queue, VQ_SIZE
          total_sectors, \* the size of the device
          Contents,      \* contents of a sector
          Zero,          \* the content of a cleared buffer
          MaxCount,      \* bound: sectors of one call
          MaxCalls,      \* bound: calls in a run
          MaxTimeouts,   \* bound: requests given up
          InOrder        \* the device serves requests in their order

ASSUME VirtioBlkAssumption ==
    /\ use_num \in Nat \ {0} /\ total_sectors \in Nat \ {0}
    /\ MaxCount \in Nat \ {0} /\ MaxCalls \in Nat /\ MaxTimeouts \in Nat
    /\ InOrder \in BOOLEAN /\ Zero \notin Contents

Desc == 0 .. use_num - 1
Sectors == 0 .. total_sectors - 1
Calls == {"read", "write"}

VARIABLES
    free_head, num_free, \* the free list, linked through next
    next,      \* by descriptor
    hdr,       \* by descriptor, the request its buffer holds as a header
    content,   \* by descriptor, the sector its buffer holds
    status,    \* by descriptor, its buffer as the status byte
    avail,     \* heads the device has yet to serve
    served,    \* heads it has served and not reported
    used,      \* heads it has reported and the driver has not taken
    disk,      \* by sector
    op,        \* the call in progress
    answer,    \* the result of the last call
    calls, timeouts,  \* so far
    written    \* by sector, what a reader may find: the last acknowledged
               \* write, and every write since that was not

driver == <<free_head, num_free, next, hdr>>
device == <<avail, served, disk>>
bvars == <<driver, device, content, status, used, op, answer, calls, timeouts, written>>

None == [call |-> "none"]
\* A call for data from lba on, at its first sector, with no chain yet.
Request(call, lba, data, stage) ==
    [call |-> call, lba |-> lba, data |-> data, i |-> 1, stage |-> stage, chain |-> << >>]

BlkInit ==
    /\ free_head = 0 /\ num_free = use_num
    /\ next = [d \in Desc |-> (d + 1) % use_num]
    /\ hdr = [d \in Desc |-> [type |-> "read", sector |-> 0]]
    /\ content = [d \in Desc |-> Zero]
    /\ status = [d \in Desc |-> "ok"]          \* the buffers are cleared
    /\ avail = << >> /\ served = << >> /\ used = << >>
    /\ disk \in [Sectors -> Contents]
    /\ op = None /\ answer = None /\ calls = 0 /\ timeouts = 0
    /\ written = [s \in Sectors |-> {disk[s]}]

-----------------------------------------------------------------------------
\* The sectors of a call, and the one it is at.
Span(o) == o.lba .. o.lba + Len(o.data) - 1
Here == op.lba + op.i - 1

\* The call returns rc; a write that succeeded is there from now on.
Return(rc) ==
    /\ answer' = [op EXCEPT !.stage = rc]
    /\ op' = None
    /\ written' = [s \in Sectors |->
         IF rc = "OK" /\ op.call = "write" /\ s \in Span(op)
         THEN {op.data[s - op.lba + 1]} ELSE written[s]]

\* block_read, block_write: a span beyond the end is refused.
Call(call, lba, data) ==
    /\ op = None
    /\ calls < MaxCalls /\ calls' = calls + 1
    /\ IF lba + Len(data) > total_sectors
       THEN /\ answer' = Request(call, lba, data, "EINVAL")
            /\ UNCHANGED <<op, written>>
       ELSE /\ op' = Request(call, lba, data, "post")
            /\ answer' = None
            /\ written' = [s \in Sectors |->
                 IF call = "write" /\ s \in Span(op')
                 THEN written[s] \union {data[s - lba + 1]} ELSE written[s]]
    /\ UNCHANGED <<driver, device, content, status, used, timeouts>>

\* vblk_submit refuses before it looks at what the device has returned.
Again ==
    /\ op.call # "none" /\ op.stage = "post"
    /\ num_free < 3
    /\ Return("EAGAIN")
    /\ UNCHANGED <<driver, device, content, status, used, calls, timeouts>>

\* Mutant: the status byte of the last request is left in the buffer.
Sentinel_Stale(d) == status
\* The status no device writes.
Sentinel(d) ==
    [status EXCEPT ![d] = "unset"]

\* vblk_submit: header, data and status buffers in a chain, posted.
Post ==
    /\ op.call # "none" /\ op.stage = "post"
    /\ num_free >= 3
    /\ LET d0 == free_head
           d1 == next[d0]
           d2 == next[d1]
       IN /\ free_head' = next[d2] /\ num_free' = num_free - 3
          /\ next' = [next EXCEPT ![d2] = 0]
          /\ hdr' = [hdr EXCEPT ![d0] = [type |-> op.call, sector |-> Here]]
          /\ content' = [content EXCEPT ![d1] = IF op.call = "write" THEN op.data[op.i] ELSE Zero]
          /\ status' = Sentinel(d2)
          /\ avail' = Append(avail, d0)
          /\ op' = [op EXCEPT !.stage = "wait", !.chain = <<d0, d1, d2>>]
    /\ UNCHANGED <<served, disk, used, answer, calls, timeouts, written>>

\* The chain a free walk from a reported head gives back: it stops at a
\* link to descriptor 0, so a chain that runs over 0 comes back short.
Walk(h) ==
    LET a == next[h]
        b == next[a]
    IN IF a = 0 THEN <<h>> ELSE IF b = 0 THEN <<h, a>> ELSE <<h, a, b>>

\* Mutant: the caller's own chain is freed, whatever the device reported.
Reported_Own == op.chain[1]
\* The request the device reported, which may be one given up before.
Reported ==
    Head(used)

\* vblk_submit: the used ring has moved; one element is taken, its chain freed.
Reclaim ==
    /\ op.call # "none" /\ op.stage = "wait"
    /\ used # << >>
    /\ LET w == Walk(Reported)
       IN /\ next' = [d \in Desc |->
               IF \E k \in 1 .. Len(w) : w[k] = d
               THEN LET k == CHOOSE k \in 1 .. Len(w) : w[k] = d
                    IN IF k = 1 THEN free_head ELSE w[k - 1]
               ELSE next[d]]
          /\ free_head' = w[Len(w)]
          /\ num_free' = num_free + Len(w)
    /\ used' = Tail(used)
    /\ op' = [op EXCEPT !.stage = "check"]
    /\ UNCHANGED <<hdr, device, content, status, answer, calls, timeouts, written>>

\* vblk_submit: the spin ends with nothing reported.
TimeOut ==
    /\ op.call # "none" /\ op.stage = "wait"
    /\ used = << >>
    /\ timeouts < MaxTimeouts
    /\ timeouts' = timeouts + 1
    /\ Return("EIO")
    /\ UNCHANGED <<driver, device, content, status, used, calls>>

\* Mutant: a request whose status was never written counts as done.
Succeeded_NotFailed == status[op.chain[3]] # "ioerr"
\* The caller's own status byte.
Succeeded ==
    status[op.chain[3]] = "ok"

\* vblk_submit's end, and the loop over the sectors in vblk_read_sectors
\* and vblk_write_sectors, which stops at the first that fails.
Finish ==
    /\ op.call # "none" /\ op.stage = "check"
    /\ LET got == IF op.call = "read"
                  THEN [op EXCEPT !.data[op.i] = content[op.chain[2]]] ELSE op
       IN IF ~Succeeded THEN Return("EIO")
          ELSE IF op.i < Len(op.data)
          THEN /\ op' = [got EXCEPT !.i = @ + 1, !.stage = "post"]
               /\ UNCHANGED <<answer, written>>
          ELSE /\ answer' = [got EXCEPT !.stage = "OK"]
               /\ op' = None
               /\ written' = [s \in Sectors |->
                    IF op.call = "write" /\ s \in Span(op)
                    THEN {op.data[s - op.lba + 1]} ELSE written[s]]
    /\ UNCHANGED <<driver, device, content, status, used, calls, timeouts>>

-----------------------------------------------------------------------------
\* The device carries out the request whose head is avail[k].
Serve(k, fails) ==
    /\ InOrder => k = 1
    /\ LET h == avail[k]
           d == next[h]
           t == next[d]
           r == hdr[h]
       IN /\ avail' = RemoveAt(avail, k)
          /\ served' = Append(served, h)
          /\ status' = [status EXCEPT ![t] = IF fails THEN "ioerr" ELSE "ok"]
          /\ disk' = IF ~fails /\ r.type = "write"
                     THEN [disk EXCEPT ![r.sector] = content[d]] ELSE disk
          /\ content' = IF ~fails /\ r.type = "read"
                        THEN [content EXCEPT ![d] = disk[r.sector]] ELSE content
    /\ UNCHANGED <<driver, used, op, answer, calls, timeouts, written>>

\* The device reports a request it has served.
Report ==
    /\ served # << >>
    /\ used' = Append(used, Head(served))
    /\ served' = Tail(served)
    /\ UNCHANGED <<driver, avail, disk, content, status, op, answer, calls, timeouts, written>>

BlkNext ==
    \/ \E lba \in Sectors, n \in 1 .. MaxCount : \E data \in [1 .. n -> Contents] : Call("write", lba, data)
    \/ \E lba \in Sectors, n \in 1 .. MaxCount : Call("read", lba, [i \in 1 .. n |-> Zero])
    \/ Again \/ Post \/ Reclaim \/ TimeOut \/ Finish
    \/ \E k \in 1 .. Len(avail), fails \in BOOLEAN : Serve(k, fails)
    \/ Report

BlkSpec == BlkInit /\ [][BlkNext]_bvars

-----------------------------------------------------------------------------
Chain(h) == {h, next[h], next[next[h]]}
Heads == Range(avail) \union Range(served) \union Range(used)

\* The n-th descriptor of the free list.
FreeAt[n \in Nat] == IF n = 0 THEN free_head ELSE next[FreeAt[n - 1]]
FreeList == {FreeAt[n] : n \in 0 .. num_free - 1}

\* Every descriptor is in one place: on the free list, which is as long as
\* num_free says, or in one chain the device has.  Only descriptor 0 can be
\* lost, once, to the walk that takes a link to it for the end of a chain
\* (vblk_submit, through time-outs and late answers).
DescriptorsSound ==
    /\ Cardinality(FreeList) = num_free
    /\ \A h \in Heads : Cardinality(Chain(h)) = 3 /\ Chain(h) \cap FreeList = {}
    /\ \A g, h \in Heads : g = h \/ Chain(g) \cap Chain(h) = {}
    /\ Len(avail \o served \o used) = Cardinality(Heads)
    /\ Desc \subseteq FreeList \union (UNION {Chain(h) : h \in Heads}) \union {0}

\* A read that succeeds returns, for each sector, the last acknowledged
\* write or one tried since, also when the driver has taken another
\* request's answer for the end of its own.
AnswersTrue ==
    (answer.call = "read" /\ answer.stage = "OK") =>
        \A s \in Span(answer) : answer.data[s - answer.lba + 1] \in written[s]

\* What block_write has acknowledged stays on the disk until another write
\* of the sector begins: a request given up earlier does not come back over it.
AckedStays == \A s \in Sectors : disk[s] \in written[s]

\* Acknowledged writes are on the disk and in what reads return, whichever
\* request's answer the driver took for whose (virtio_blk.c:295-330).
DiskTrue == AnswersTrue /\ AckedStays
=============================================================================
