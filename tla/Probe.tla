-------------------------------- MODULE Probe --------------------------------
(***************************************************************************)
(* How the kernel finds its network card and its disk on the PCI bus and   *)
(* gives them memory: net/pci.c, virtio_net_init (net/virtio_net.c),       *)
(* virtio_blk_init (block/virtio_blk.c) and block_register_device          *)
(* (block/block.c).  Each runs once in a boot; Boot says when.  What the   *)
(* devices do with their queues afterwards is in VirtioNet and VirtioBlk.  *)
(*                                                                         *)
(* A page stands here for one allocation, whatever its order.              *)
(***************************************************************************)
EXTENDS Integers, Sequences, FiniteSets, SequencesExt

CONSTANTS Ram,                 \* the page numbers of the machine
          Machines,            \* what may be on the bus: sequences of slots
          BLOCK_MAX_DEVICES

ASSUME ProbeAssumption ==
    /\ Ram \subseteq Nat \ {0} /\ IsFiniteSet(Ram)
    /\ BLOCK_MAX_DEVICES \in Nat \ {0}

VARIABLES
    bus,      \* the machine: a sequence of slots [multi, funcs]
    pool,     \* the pages that the PMM can give out
    nic,      \* the card as it knows itself: [status, queue, bufs], 0 for no page
    vblk,     \* the disk, likewise
    ifaces,   \* the interfaces of the default namespace
    devices   \* g_devices, the names of the registered block devices

probe_vars == <<bus, pool, nic, vblk, ifaces, devices>>

NoFunction == [id |-> "none"]
Reset(n) == [status |-> "reset", queue |-> [i \in 1 .. n |-> 0], bufs |-> 0]

Unprobed ==
    /\ nic = Reset(2) /\ vblk = Reset(1)
    /\ ifaces = << >> /\ devices = << >>

-----------------------------------------------------------------------------
(* The bus *)

\* The functions of a slot that the scan sees: none without function 0, and the
\* others only when its header says so.
Visible(slot) ==
    IF slot.funcs[1] = NoFunction THEN << >>
    ELSE IF slot.multi THEN SelectSeq(slot.funcs, LAMBDA f : f # NoFunction)
    ELSE << slot.funcs[1] >>

\* The first function the scan meets whose identifier is wanted.
pci_find_device(slots, ids) ==
    LET seen  == FlattenSeq([i \in DOMAIN slots |-> Visible(slots[i])])
        found == SelectSeq(seen, LAMBDA f : f.id \in ids)
    IN  IF found = << >> THEN NoFunction ELSE found[1]

\* Every device of the vendor, the argument 0xFFFF.
Virtio == {"net", "net_modern", "blk", "blk_modern", "balloon"}
NetIdentifiers == {"net", "net_modern"}

\* pci_read_bar: the drivers go on with an I/O range only.
Usable_BAR(f) == f # NoFunction /\ f.bar = "io"

-----------------------------------------------------------------------------
(* Memory for a device *)

\* A page for the buffers, 0, and one for each of n queues: the lowest that is left,
\* or 0 where the PMM refuses or has none.  Which page it gives is of no account.
Grants(n) ==
    { g \in [0 .. n -> pool \cup {0}] :
        \A i \in 0 .. n :
            LET left == pool \ { g[j] : j \in 0 .. i - 1 }
            IN  g[i] = 0 \/ (g[i] \in left /\ \A p \in left : g[i] <= p) }

\* vq_init of each queue: the page whose number it writes to the device, or 0 for
\* a queue the device does not have or there is no memory for.
Queues(f, go, g) ==
    [i \in DOMAIN g \ {0} |-> IF go /\ f.nums[i] # 0 THEN g[i] ELSE 0]

PagesOf(dev) == ({dev.bufs} \cup { dev.queue[i] : i \in DOMAIN dev.queue }) \ {0}
AllReady(dev) == \A i \in DOMAIN dev.queue : dev.queue[i] # 0

\* Mutant: a probe whose queues are not all ready frees the buffers.
Kept_Tidy(dev) == IF AllReady(dev) THEN PagesOf(dev) ELSE PagesOf(dev) \ {dev.bufs}

\* The pages that stay out of the pool: all that were given, also after a failure,
\* because the device may have been told of them.
Kept(dev) == PagesOf(dev)

\* Mutant: only the receive queue is looked at.
NetReady_Rx(dev) == dev.queue[1] # 0

\* When the card is attached to the namespace.
NetReady(dev) == AllReady(dev)

\* The card: memory for the buffers of both queues, the negotiation, the queues,
\* and the interface last.
ProbedNet(f, g) ==
    LET go  == g[0] # 0 /\ ~f.failed
        dev == [status |-> "driver", queue |-> Queues(f, go, g), bufs |-> g[0]]
    IN  [dev EXCEPT !.status =
            IF g[0] = 0 THEN "reset"
            ELSE IF f.failed THEN "failed"
            ELSE IF NetReady(dev) THEN "ok" ELSE "driver"]

\* Only the first device of the vendor is looked at, be it a card or not.
virtio_net_init ==
    LET f == pci_find_device(bus, Virtio)
    IN  /\ \/ /\ f.id \in NetIdentifiers /\ Usable_BAR(f)
              /\ \E g \in Grants(2) : nic' = ProbedNet(f, g)
           \/ ~(f.id \in NetIdentifiers /\ Usable_BAR(f)) /\ UNCHANGED nic
        /\ pool' = pool \ Kept(nic')
        /\ ifaces' = IF nic'.status = "ok" THEN <<"lo", "eth0">> ELSE <<"lo">>

\* The disk: the negotiation and the capacity, memory, the queue.
ProbedDisk(f, g) ==
    LET asked == ~f.failed /\ f.sectors > 0
        bufs  == IF asked THEN g[0] ELSE 0
        dev   == [status |-> "driver", queue |-> Queues(f, bufs # 0, g), bufs |-> bufs]
    IN  [dev EXCEPT !.status =
            IF f.failed THEN "failed" ELSE IF AllReady(dev) THEN "ok" ELSE "driver"]

DiskFunction ==
    LET legacy == pci_find_device(bus, {"blk"})
    IN  IF legacy # NoFunction THEN legacy ELSE pci_find_device(bus, {"blk_modern"})

block_register_device(list, name) ==
    IF Len(list) >= BLOCK_MAX_DEVICES \/ name \in ToSet(list) THEN list ELSE <<name>> \o list

virtio_blk_init ==
    LET f == DiskFunction
    IN  /\ \/ /\ Usable_BAR(f)
              /\ \E g \in Grants(1) : vblk' = ProbedDisk(f, g)
           \/ ~Usable_BAR(f) /\ UNCHANGED vblk
        /\ pool' = pool \ Kept(vblk')
        /\ devices' = IF vblk'.status = "ok" THEN block_register_device(devices, "vda") ELSE devices

\* virtio_blk_ready
DiskReady == "vda" \in ToSet(devices)
total_sectors == DiskFunction.sectors

-----------------------------------------------------------------------------
\* The pages a device may read or write: its queues and, through the descriptors
\* in them, its buffers.
Reach(dev) == IF \E i \in DOMAIN dev.queue : dev.queue[i] # 0 THEN PagesOf(dev) ELSE {}

\* No page that a device was told of is in the pool or known to the other device,
\* also after a probe that failed half-way; an interface or a block device is
\* there only for a device that was told of all its queues and that the driver
\* is OK.
DevicesTrue ==
    /\ pool \cap (Reach(nic) \cup Reach(vblk)) = {}
    /\ Reach(nic) \cap Reach(vblk) = {}
    /\ "eth0" \in ToSet(ifaces) => nic.status = "ok" /\ AllReady(nic)
    /\ DiskReady => vblk.status = "ok" /\ AllReady(vblk)

=============================================================================
