-------------------------------- MODULE Boot --------------------------------
(***************************************************************************)
(* A machine from power-on to the running system, again and again: the     *)
(* loader (boot/uefi) with the firmware's memory map, the order of         *)
(* _kstart_c (main.c) with the probe of the devices (Probe), and what      *)
(* mkfs.c, the block self-test, the mount of the root and the installation *)
(* of the programs do to the disk.  The power may fail between any two     *)
(* steps; the disk keeps its contents.                                     *)
(*                                                                         *)
(* Journal says how one transaction reaches the disk, Obfs what the blocks *)
(* mean; here the disk is a superblock, whether its root directory is      *)
(* there, the names of its files, and a committed transaction that is not  *)
(* yet written home.                                                       *)
(***************************************************************************)
EXTENDS Probe

CONSTANTS FirmwareMaps,    \* memory maps at power-on: page -> type
          FirmwareTakes,   \* external: the pages the firmware gives out itself
          Low,             \* the pages below 1 MB
          OB_KERNEL_LMA,
          KernelImage,     \* the pages of kernel.elf with its BSS
          ReportedEnds,    \* kernel_phys_end as elf_load may compute it
          MIN_KERNEL_END,
          OB_MAX_MEMORY_MAP_ENTRIES,
          MaxChanges,      \* bound: changes of the firmware's map in one boot
          Settles,         \* the firmware takes no more for itself once it was asked
          Disks,           \* the disk before the first boot
          FormatSectors,   \* obfs_format needs so many sectors
          TestSectors,     \* 2048, from which on the self-test uses the disk
          Names,           \* files that users make
          Misreads,        \* whether the read of the superblock may fail
          MaxBoots         \* bound

\* What a memory map says of a page, and the names that may be in a directory.
PageTypes == {"free", "boot", "loader", "runtime", "reserved"}
DiskNames == Names \cup {"prog", "t1.txt", "none"} \cup UNION { d.files \cup d.pending : d \in Disks }
DiskStates == [super : {"blank", "ok"}, root : BOOLEAN, files : SUBSET DiskNames, pending : SUBSET DiskNames]

\* A disk is empty or has been formatted to the end and used.
ASSUME BootAssumption ==
    /\ KernelImage \cup Low \cup FirmwareTakes \subseteq Ram
    /\ KernelImage \subseteq OB_KERNEL_LMA .. MIN_KERNEL_END - 1
    /\ KernelImage \cap FirmwareTakes = {}
    /\ FirmwareMaps \subseteq [Ram -> PageTypes]
    /\ ReportedEnds \subseteq Nat /\ {OB_KERNEL_LMA, MIN_KERNEL_END} \subseteq Nat
    /\ {"prog", "t1.txt"} \cap Names = {}
    /\ Disks \subseteq DiskStates
    /\ \A d \in Disks : IF d.super = "ok" THEN d.root ELSE d.files \cup d.pending = {}

VARIABLES
    at,       \* the stage the boot is at
    fw,       \* the firmware's memory map
    changed,  \* how often it has changed since power-on: what its map key is
    key,      \* the key the loader has
    bi,       \* boot_info: [map, end]
    disk,     \* [super, root, files, pending]
    cache,    \* the page cache: [super, tree], what its pages show, if anything
    mounts,   \* the mount table: path -> file system
    view,     \* the names that the root directory shows
    format,   \* obfs_format: [step, done, failed], the stages after it
    past,     \* history: [stored, cut, misread, short, boots]
    sealed    \* history: pages of firmware, loader and kernel at the hand-over

None == "none"
Unread == [root |-> FALSE, files |-> {None}]   \* no page of a directory in the cache
boot_vars == <<at, fw, changed, key, bi, disk, cache, mounts, view, format, past, sealed, probe_vars>>
disk_side == <<disk, cache, mounts, view, format, past>>
loader_side == <<fw, changed, key, bi, sealed>>

NoCache == [super |-> None, tree |-> Unread]
NoFormat == [step |-> 0, done |-> None, failed |-> None]

PowerOn ==
    /\ at = "read" /\ fw \in FirmwareMaps
    /\ changed = 0 /\ key = 0 /\ bi = [map |-> << >>, end |-> 0]
    /\ cache = NoCache /\ mounts = << >> /\ view = {} /\ format = NoFormat
    /\ pool = {} /\ sealed = {} /\ Unprobed

BootInit ==
    /\ PowerOn /\ bus \in Machines /\ disk \in Disks
    /\ past = [stored |-> (disk.files \cup disk.pending) \ {"prog"}, cut |-> FALSE, misread |-> FALSE, short |-> FALSE, boots |-> 1]

From(stage, next) == at = stage /\ at' = next

-----------------------------------------------------------------------------
(* The loader, main.c of boot/uefi *)

BeforeExit == at \in {"read", "load", "map", "exit", "again", "last"}

\* External: drivers and events of the firmware allocate and free memory until
\* ExitBootServices returns.
Firmware ==
    /\ BeforeExit /\ changed < MaxChanges
    /\ \E p \in FirmwareTakes, type \in {"free", "boot", "runtime"} :
         /\ fw[p] \in {"free", "boot"} \ {type}
         /\ Settles /\ at \notin {"read", "load", "map"} => type # "runtime"
         /\ fw' = [fw EXCEPT ![p] = type]
    /\ changed' = changed + 1
    /\ UNCHANGED <<at, key, bi, sealed, disk_side, probe_vars>>

\* uefi_read_file: the buffer stays allocated; any error halts the machine.
ReadKernel ==
    /\ \/ /\ From("read", "load")
          /\ \E p \in FirmwareTakes : fw[p] = "free" /\ fw' = [fw EXCEPT ![p] = "loader"]
       \/ From("read", "halted") /\ UNCHANGED fw
    /\ UNCHANGED <<changed, key, bi, sealed, disk_side, probe_vars>>

\* elf_load: copies the image without an allocation; its end may fall short of a
\* BSS that the file does not declare.
LoadKernel ==
    /\ \/ From("load", "map") /\ \E e \in ReportedEnds : bi' = [bi EXCEPT !.end = e]
       \/ From("load", "halted") /\ UNCHANGED bi
    /\ UNCHANGED <<fw, changed, key, sealed, disk_side, probe_vars>>

\* GetMemoryMap into boot_info, as many entries as it has room for; a map too large
\* for the loader's buffer halts the machine.
ReadMap ==
    /\ \/ /\ From("map", "exit") /\ key' = changed
          /\ bi' = [bi EXCEPT !.map = [p \in { q \in Ram : q <= OB_MAX_MEMORY_MAP_ENTRIES } |-> fw[p]]]
       \/ From("map", "halted") /\ UNCHANGED <<key, bi>>
    /\ UNCHANGED <<fw, changed, sealed, disk_side, probe_vars>>

\* The map is read again for its key only: boot_info keeps the first one.
ReadMapAgain ==
    /\ \/ From("again", "last") /\ key' = changed
       \/ From("again", "halted") /\ UNCHANGED key
    /\ UNCHANGED <<fw, changed, bi, sealed, disk_side, probe_vars>>

\* ExitBootServices refuses an old key, the second time for good.
ExitBootServices ==
    /\ \/ key = changed /\ at \in {"exit", "last"} /\ at' = "kernel"
       \/ key # changed /\ From("exit", "again")
       \/ key # changed /\ From("last", "halted")
    /\ sealed' = IF at' = "kernel"
                 THEN KernelImage \cup { p \in Ram : fw[p] \in {"loader", "runtime"} } ELSE sealed
    /\ UNCHANGED <<fw, changed, key, bi, disk_side, probe_vars>>

-----------------------------------------------------------------------------
(* _kstart_c up to the devices *)

\* Mutant: the end of the image is taken as it is reported.
KernelEnd_Reported(end) == end

\* pmm_init: at least 16 MB, for a BSS that is not in the file.
KernelRangeEnd(end) == IF end < MIN_KERNEL_END THEN MIN_KERNEL_END ELSE end

\* pmm_init: what the map calls usable, above 1 MB, around the kernel.
UsablePages ==
    { p \in DOMAIN bi.map : /\ bi.map[p] \in {"free", "boot"} /\ p \notin Low
                            /\ p \notin OB_KERNEL_LMA .. KernelRangeEnd(bi.end) - 1 }

\* A kmalloc or a stress test that fails ends the boot.
StartKernel ==
    /\ at = "kernel" /\ at' \in {"net", "halted"}
    /\ pool' = UsablePages
    /\ UNCHANGED <<bus, nic, vblk, ifaces, devices, loader_side, disk_side>>

\* net_init; without a card only the loopback is left.
StartNet ==
    /\ From("net", "block") /\ virtio_net_init
    /\ UNCHANGED <<bus, vblk, devices, loader_side, disk_side>>

StartBlock ==
    /\ at = "block" /\ virtio_blk_init
    /\ at' = IF DiskReady' THEN "check" ELSE "selftest"
    /\ UNCHANGED <<bus, nic, ifaces, loader_side, disk_side>>

-----------------------------------------------------------------------------
(* The disk before its mount *)

KernelStep == UNCHANGED <<loader_side, probe_vars>>

\* obfs_is_formatted: a read that fails and an old, small journal count as no
\* format.  The first step of a format refuses a small disk.
Formatted(super) == super = "ok"
Large == total_sectors >= FormatSectors
CheckFormat(stage, formatted, failed) ==
    /\ at = stage /\ DiskReady
    /\ \E seen \in {disk.super} \cup (IF Misreads THEN {"unread"} ELSE {}) :
         /\ past' = [past EXCEPT !.misread = @ \/ (seen # disk.super /\ Formatted(disk.super))]
         /\ IF Formatted(seen) THEN at' = formatted /\ UNCHANGED format
            ELSE IF ~Large THEN at' = failed /\ UNCHANGED format
            ELSE /\ at' = "format"
                 /\ format' = [step |-> 1, done |-> formatted, failed |-> failed]
    /\ UNCHANGED <<disk, cache, mounts, view>> /\ KernelStep

Tree(d) == [root |-> d.root, files |-> d.files]

\* The writes of obfs_format in their order, and what is on the disk after each:
\* superblock, block bitmap, inode bitmap, inode table, root inode, journal.
Laid(step, d) ==
    CASE step = 1 -> IF Formatted(d.super) THEN d ELSE [d EXCEPT !.super = "ok", !.files = {}]
      [] step \in {2, 3} -> [d EXCEPT !.files = {}]
      [] step = 4 -> [d EXCEPT !.root = FALSE, !.files = {}]
      [] step = 5 -> [d EXCEPT !.root = TRUE]
      [] step = 6 -> [d EXCEPT !.pending = {}]

FormatSteps == 6

\* A write that the device refuses ends the format; the boot goes on all the same.
FormatStep ==
    /\ at = "format"
    /\ \/ /\ disk' = Laid(format.step, disk)
          /\ IF format.step = FormatSteps THEN at' = format.done /\ format' = NoFormat
             ELSE UNCHANGED at /\ format' = [format EXCEPT !.step = @ + 1]
          /\ UNCHANGED past
       \/ /\ at' = format.failed /\ format' = NoFormat
          /\ past' = [past EXCEPT !.cut = TRUE]
          /\ UNCHANGED disk
    /\ UNCHANGED <<cache, mounts, view>> /\ KernelStep

\* fsck_run reads through the page cache, before any recovery, and repairs nothing.
Fsck ==
    /\ From("fsck", "selftest")
    /\ cache' \in { [super |-> disk.super, tree |-> IF Formatted(disk.super) THEN Tree(disk) ELSE Unread] }
                  \cup (IF Misreads THEN {cache} ELSE {})
    /\ UNCHANGED <<disk, mounts, view, format, past>> /\ KernelStep

\* test_pcache: pcache_init finds the cache set up and leaves it; block 0 is read
\* if it is not there.
SelfTest ==
    /\ at = "selftest"
    /\ at' = IF DiskReady /\ total_sectors >= TestSectors THEN "test" ELSE "root"
    /\ cache' = IF DiskReady /\ cache.super = None THEN [cache EXCEPT !.super = disk.super] ELSE cache
    /\ UNCHANGED <<disk, mounts, view, format, past>> /\ KernelStep

\* Mutant: the pages that the recovery wrote home stay in the cache.
Invalidated_Kept(c, d) == c

\* journal_recover writes home past the cache and takes those pages out of it.
Invalidated(c, d) == IF d.pending = {} THEN c ELSE [c EXCEPT !.tree = Unread]

\* obfs_rw_mount: the superblock comes from the cache, then the recovery.
CanMount == cache.super = "ok"
Recovered(d) == [d EXCEPT !.files = @ \cup d.pending, !.pending = {}]
Shown(d) == LET c == Invalidated(cache, d)
            IN  IF c.tree # Unread THEN c.tree ELSE Tree(Recovered(d))

\* A change through the file system: it needs a root directory.
With(tree, files, name) == IF tree.root THEN files \cup {name} ELSE files

\* test_obfs_rw_full: mount, a few files, sync, umount, mount, umount.
TestFiles ==
    /\ From("files", "root")
    /\ \/ /\ CanMount
          /\ LET t == Shown(disk)
             IN  /\ disk' = [Recovered(disk) EXCEPT !.files = With(t, @, "t1.txt")]
                 /\ cache' = [cache EXCEPT !.tree = [t EXCEPT !.files = With(t, @, "t1.txt")]]
       \/ CanMount /\ disk' = Recovered(disk) /\ cache' = Invalidated(cache, disk)
       \/ UNCHANGED <<disk, cache>>
    /\ UNCHANGED <<mounts, view, format, past>> /\ KernelStep

-----------------------------------------------------------------------------
(* The root file system *)

HasRoot == "/" \in DOMAIN mounts
OnDisk == HasRoot /\ mounts["/"] = "disk"
RootUsable == HasRoot /\ (OnDisk => cache.tree.root)

Mount(path, fs) == mounts' = [x \in DOMAIN mounts \cup {path} |-> IF x = path THEN fs ELSE mounts[x]]

\* OBFS-RW if its mount succeeds; `short` when there is no memory for one.
MountRoot ==
    /\ From("root", "install")
    /\ \/ /\ DiskReady /\ CanMount
          /\ disk' = Recovered(disk) /\ view' = Shown(disk).files
          /\ cache' = [cache EXCEPT !.tree = Shown(disk)]
          /\ Mount("/", "disk") /\ UNCHANGED past
       \/ /\ past' = [past EXCEPT !.short = @ \/ (DiskReady /\ CanMount)]
          /\ disk' \in {disk} \cup (IF DiskReady /\ CanMount THEN {Recovered(disk)} ELSE {})
          /\ cache' = IF disk' = disk THEN cache ELSE Invalidated(cache, disk)
          /\ Mount("/", "tmpfs") /\ view' = {}
       \/ /\ past' = [past EXCEPT !.short = TRUE]
          /\ UNCHANGED <<disk, cache, mounts, view>>
    /\ UNCHANGED format /\ KernelStep

Becomes(names, d) ==
    /\ view' = names
    /\ IF OnDisk THEN disk' = d /\ cache' = [cache EXCEPT !.tree.files = names]
       ELSE UNCHANGED <<disk, cache>>

\* embed_install_one: the old file goes first; then the new one is written, or
\* the open or the write is refused.
UnlinkProgram ==
    /\ From("install", "write")
    /\ IF RootUsable THEN Becomes(view \ {"prog"}, [disk EXCEPT !.files = @ \ {"prog"}])
       ELSE UNCHANGED <<view, disk, cache>>
    /\ UNCHANGED <<mounts, format, past>> /\ KernelStep

WriteProgram ==
    /\ From("write", "critical")
    /\ \/ /\ RootUsable /\ Becomes(view \cup {"prog"}, [disk EXCEPT !.files = @ \cup {"prog"}])
          /\ UNCHANGED past
       \/ past' = [past EXCEPT !.short = @ \/ RootUsable] /\ UNCHANGED <<view, disk, cache>>
    /\ UNCHANGED <<mounts, format>> /\ KernelStep

\* critical_init: /system in the root, then a tmpfs of its own.
MountCritical ==
    /\ From("critical", "services")
    /\ \/ RootUsable /\ Mount("/system/critical", "tmpfs")
       \/ UNCHANGED mounts
    /\ UNCHANGED <<disk, cache, view, format, past>> /\ KernelStep

\* boot_services_default and the threads: one that cannot be made ends the boot.
\* Then /proc, /sys and /dev, each for itself.
StartServices ==
    /\ \/ /\ From("services", "up")
          /\ \E made \in {{}, {"/proc"}, {"/proc", "/sys", "/dev"}} :
               mounts' = [x \in DOMAIN mounts \cup made |-> IF x \in made THEN "own" ELSE mounts[x]]
       \/ From("services", "halted") /\ UNCHANGED mounts
    /\ UNCHANGED <<disk, cache, view, format, past>> /\ KernelStep

-----------------------------------------------------------------------------
(* The running system *)

\* A file is made; its transaction is committed, and written home later.
Commit(n) ==
    /\ at = "up" /\ OnDisk /\ RootUsable /\ disk.pending = {} /\ n \notin view
    /\ disk' = [disk EXCEPT !.pending = {n}]
    /\ view' = view \cup {n} /\ cache' = [cache EXCEPT !.tree.files = view']
    /\ past' = [past EXCEPT !.stored = @ \cup {n}]
    /\ UNCHANGED <<at, mounts, format>> /\ KernelStep

WriteHome ==
    /\ at = "up" /\ disk.pending # {}
    /\ disk' = Recovered(disk)
    /\ UNCHANGED <<at, cache, mounts, view, format, past>> /\ KernelStep

\* The power fails, or somebody switches the machine off and on.
PowerFails ==
    /\ past.boots < MaxBoots
    /\ at' = "read" /\ fw' \in FirmwareMaps
    /\ changed' = 0 /\ key' = 0 /\ bi' = [map |-> << >>, end |-> 0]
    /\ cache' = NoCache /\ mounts' = << >> /\ view' = {} /\ format' = NoFormat
    /\ pool' = {} /\ sealed' = {}
    /\ nic' = Reset(2) /\ vblk' = Reset(1) /\ ifaces' = << >> /\ devices' = << >>
    /\ past' = [past EXCEPT !.boots = @ + 1, !.short = FALSE,
                            !.cut = @ \/ (at = "format" /\ format.step > 1)]
    /\ UNCHANGED <<bus, disk>>

BootNext ==
    \/ Firmware \/ ReadKernel \/ LoadKernel \/ ReadMap \/ ReadMapAgain \/ ExitBootServices
    \/ StartKernel \/ StartNet \/ StartBlock
    \/ CheckFormat("check", "fsck", "fsck") \/ CheckFormat("test", "files", "root")
    \/ FormatStep \/ Fsck \/ SelfTest \/ TestFiles
    \/ MountRoot \/ UnlinkProgram \/ WriteProgram \/ MountCritical \/ StartServices
    \/ (\E n \in Names : Commit(n)) \/ WriteHome \/ PowerFails

BootSpec == BootInit /\ [][BootNext]_boot_vars

-----------------------------------------------------------------------------
\* The pages that the kernel hands out or gave to a device are none of the loader's,
\* of the firmware's that outlive ExitBootServices, or of the kernel image, whatever
\* the firmware did while the loader ran; and the devices know no page of the pool.
BootMemoryKept ==
    /\ (pool \cup PagesOf(nic) \cup PagesOf(vblk)) \cap sealed = {}
    /\ DevicesTrue

\* What was stored is on the disk through any number of boots that may stop
\* anywhere, unless a boot could not read the superblock.
StoredKept == ~past.misread => past.stored \subseteq disk.files \cup disk.pending

\* The root shows what the disk holds, also after a recovery.
RootSeesDisk ==
    at \in {"install", "write", "critical", "services", "up"} /\ OnDisk /\ ~past.misread
        => view = disk.files \cup disk.pending

\* A system that runs has a root with the programs in it, on the disk if there is
\* one; the exceptions are a shortage in this boot and a format that was cut off.
RootThere ==
    at = "up" /\ ~past.short =>
        /\ HasRoot /\ (RootUsable => "prog" \in view)
        /\ DiskReady /\ Large /\ ~past.cut /\ ~past.misread
             => OnDisk /\ disk.root

\* The disk and the root over many boots: _kstart_c, obfs_format, the pages that
\* fsck leaves in the cache before the recovery, the mount and the installation.
RootTrue == StoredKept /\ RootSeesDisk /\ RootThere

=============================================================================
