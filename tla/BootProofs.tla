------------------------------ MODULE BootProofs ------------------------------
(***************************************************************************)
(* For any machine, firmware, disks and number of boots: what was stored   *)
(* stays on the disk, the root shows what the disk holds, and a system     *)
(* that runs has its root on the disk with the programs in it.             *)
(***************************************************************************)
EXTENDS Boot, TLAPS

-----------------------------------------------------------------------------
(* The inductive invariant *)

Early == {"read", "load", "map", "exit", "again", "last", "kernel", "net", "block"}
Unmounted == {"check", "format", "fsck", "selftest", "test", "files", "root"}
Mounted == {"install", "write", "critical", "services", "up"}

Trees == [root : BOOLEAN, files : SUBSET DiskNames]
Formats == [step : Int, done : {"none", "fsck", "files"}, failed : {"none", "fsck", "root"}]
Pasts == [stored : SUBSET DiskNames, cut : BOOLEAN, misread : BOOLEAN, short : BOOLEAN, boots : Int]
Cached == [super : {"blank", "ok", "none"}, tree : Trees]

BootTypes ==
    /\ at \in Early \cup Unmounted \cup Mounted \cup {"halted"}
    /\ disk \in DiskStates
    /\ cache \in Cached
    /\ view \in SUBSET DiskNames
    /\ format \in Formats
    /\ past \in Pasts

\* Until the root is mounted nothing is; until fsck has run nothing is cached.
Bare ==
    /\ at \in Early \cup Unmounted => mounts = << >>
    /\ at \in Early \cup {"check", "fsck"} => cache = NoCache
    /\ at = "check" => DiskReady

\* A format under way: where it goes on, and how much of it is on the disk.
Formatting ==
    at = "format" =>
        /\ DiskReady /\ format.step \in 1 .. FormatSteps
        /\ \/ format.done = "fsck" /\ format.failed = "fsck" /\ cache = NoCache
           \/ format.done = "files" /\ format.failed = "root" /\ cache.super # "none"
        /\ format.step = 1 \/ disk.super = "ok"
        /\ format.step = FormatSteps => disk.root
        /\ ~past.misread => /\ cache.tree = Unread
                            /\ format.step = 1 => disk.super = "blank"
                            /\ format.done = "files" => past.cut

\* An empty disk has lost nothing; a disk with a superblock has a root.
DiskHeld ==
    /\ ~past.misread => past.stored \subseteq disk.files \cup disk.pending
    /\ "prog" \notin past.stored
    /\ (disk.super = "blank" \/ at = "format") /\ ~past.misread => past.stored = {}
    /\ ~past.cut /\ ~past.misread /\ disk.super = "ok" /\ at # "format" => disk.root
    /\ cache.super = "ok" => disk.super = "ok"

\* What is cached before the mount is what the disk has.
CacheTrue ==
    at \in Unmounted /\ ~past.misread /\ cache.tree # Unread =>
        disk.super = "ok" /\ cache.tree = Tree(disk)

\* A disk that can be formatted is, and its superblock is cached when it is wanted.
Sound == DiskReady /\ Large /\ ~past.cut /\ ~past.misread
Known ==
    /\ at \in {"test", "files", "root"} /\ DiskReady => cache.super # "none"
    /\ at \in {"fsck", "selftest", "test", "files", "root"} /\ Sound => disk.super = "ok" /\ cache.super # "blank"
    /\ at \in {"test", "files"} => DiskReady

\* The mounted root.
RootHeld ==
    at \in Mounted =>
        /\ OnDisk => /\ cache.tree.files = view
                     /\ disk.super = "ok"
                     /\ ~past.misread => view = disk.files \cup disk.pending
                     /\ at # "up" => disk.pending = {}
        /\ ~past.short => /\ HasRoot
                          /\ Sound => OnDisk
                          /\ at \in {"critical", "services", "up"} /\ RootUsable => "prog" \in view

BootInv == BootTypes /\ Bare /\ Formatting /\ DiskHeld /\ CacheTrue /\ Known /\ RootHeld

-----------------------------------------------------------------------------
(* The steps before the disk is looked at *)

\* The first state of the first boot.
LEMMA BootStarts == ASSUME BootAssumption, BootInit PROVE BootInv
<1> USE DEF BootInit, PowerOn
<1>0. disk \in DiskStates /\ (disk.super = "ok" => disk.root) /\ (disk.super = "blank" => disk.files \cup disk.pending = {})
  BY DEF BootAssumption, DiskStates
<1>1. BootTypes
  <2>1. past \in Pasts BY <1>0 DEF DiskStates, Pasts
  <2>2. cache \in Cached
    <3>1. Unread \in Trees BY DEF Trees, Unread, None, DiskNames
    <3> QED BY <3>1 DEF Cached, NoCache, None
  <2>3. at \in Early /\ view \in SUBSET DiskNames BY DEF Early
  <2>4. format \in Formats BY DEF NoFormat, None, Formats
  <2> QED BY <1>0, <2>1, <2>2, <2>3, <2>4 DEF BootTypes
<1>2. Bare BY DEF Bare, Early, Unmounted
<1>3. DiskHeld BY <1>0 DEF DiskHeld, NoCache, None, DiskStates
<1>4. Formatting /\ CacheTrue /\ Known /\ RootHeld
  BY DEF Formatting, CacheTrue, Known, RootHeld, Unmounted, Mounted
<1> QED BY <1>1, <1>2, <1>3, <1>4 DEF BootInv

\* The loader and the kernel up to the devices leave the disk alone.
LEMMA LoaderKeeps ==
    ASSUME BootInv, at \in Early, at' \in Early \cup {"halted"}, UNCHANGED disk_side
    PROVE  BootInv'
<1> USE DEF BootInv, disk_side
<1>1. BootTypes' BY DEF BootTypes
<1>2. Bare' BY DEF Bare, Early, Unmounted
<1>3. DiskHeld' BY DEF DiskHeld, Early
<1>4. Formatting' /\ CacheTrue' /\ Known' /\ RootHeld'
  BY DEF Formatting, CacheTrue, Known, RootHeld, Unmounted, Mounted, Early
<1> QED BY <1>1, <1>2, <1>3, <1>4

LEMMA DevicesFound == ASSUME BootInv, StartBlock PROVE BootInv'
<1> USE DEF BootInv, disk_side, StartBlock
<1>1. BootTypes' BY DEF BootTypes, Unmounted
<1>2. Bare' BY DEF Bare, Early, Unmounted
<1>3. DiskHeld' BY DEF DiskHeld
<1>4. Formatting' /\ RootHeld' BY DEF Formatting, RootHeld, Mounted
<1>5. CacheTrue' BY DEF CacheTrue, Bare, Early, NoCache
<1>6. Known' BY DEF Known, Sound
<1> QED BY <1>1, <1>2, <1>3, <1>4, <1>5, <1>6

\* What the steps of the kernel rely on: the machine stays as it was probed.
LEMMA MachineKept ==
    ASSUME KernelStep PROVE DiskReady' = DiskReady /\ Large' = Large
<1>1. bus' = bus /\ devices' = devices BY DEF KernelStep, probe_vars
<1>2. DiskReady' = DiskReady BY <1>1 DEF DiskReady
<1>3. Large' = Large BY <1>1 DEF Large, total_sectors, DiskFunction
<1> QED BY <1>2, <1>3

-----------------------------------------------------------------------------
(* The disk before its mount *)

\* The question whether there is a file system, before fsck and before the tests.
LEMMA FormatAsked ==
    ASSUME BootInv, CheckFormat("check", "fsck", "fsck") \/ CheckFormat("test", "files", "root")
    PROVE  BootInv'
<1> USE DEF BootInv
<1>1. PICK seen \in {disk.super} \cup (IF Misreads THEN {"unread"} ELSE {}) :
        /\ past' = [past EXCEPT !.misread = @ \/ (seen # disk.super /\ Formatted(disk.super))]
        /\ IF at = "check" THEN at' \in {"fsck", "format"} ELSE at = "test" /\ at' \in {"files", "root", "format"}
        /\ at' = "files" => seen = "ok"
        /\ at' \in {"fsck", "root"} => seen = "ok" \/ ~Large
        /\ IF at' # "format" THEN format' = format
           ELSE /\ seen # "ok" /\ Large
                /\ \/ at = "check" /\ format' = [step |-> 1, done |-> "fsck", failed |-> "fsck"]
                   \/ at = "test" /\ format' = [step |-> 1, done |-> "files", failed |-> "root"]
  BY DEF CheckFormat, Formatted
<1>2. DiskReady /\ UNCHANGED <<disk, cache, mounts, view>> /\ DiskReady' = DiskReady /\ Large' = Large
  BY MachineKept DEF CheckFormat
<1>3. /\ past'.stored = past.stored /\ past'.cut = past.cut /\ past'.short = past.short
      /\ past'.misread <=> past.misread \/ (seen # disk.super /\ disk.super = "ok")
      /\ past' \in Pasts
  BY <1>1 DEF BootTypes, Pasts, Formatted
<1>4. BootTypes'
  <2>1. format' \in Formats BY <1>1 DEF BootTypes, Formats
  <2> QED BY <1>1, <1>2, <1>3, <2>1 DEF BootTypes, Unmounted
<1>5. Bare' BY <1>1, <1>2 DEF Bare, Early, Unmounted
<1>6. Formatting'
  <2> SUFFICES ASSUME at' = "format" PROVE Formatting'
    BY DEF Formatting
  <2>1. disk.super \in {"blank", "ok"} BY DEF BootTypes, DiskStates
  <2>2. CASE at = "check"
    <3>1. cache = NoCache /\ NoCache.tree = Unread BY <2>2 DEF Bare, NoCache
    <3> QED BY <1>1, <1>2, <1>3, <2>1, <2>2, <3>1 DEF Formatting, FormatSteps
  <2>3. CASE at = "test"
    <3>1. cache.super # "none" BY <1>2, <2>3 DEF Known
    <3>2. ~past'.misread => disk.super = "blank" /\ cache.tree = Unread /\ past.cut
      BY <1>1, <1>2, <1>3, <2>1, <2>3 DEF Known, Sound, CacheTrue, Unmounted
    <3> QED BY <1>1, <1>2, <1>3, <2>1, <2>3, <3>1, <3>2 DEF Formatting, FormatSteps
  <2> QED BY <1>1, <2>2, <2>3
<1>7. DiskHeld' BY <1>1, <1>2, <1>3 DEF DiskHeld, BootTypes, DiskStates
<1>8. CacheTrue' BY <1>1, <1>2, <1>3 DEF CacheTrue, Unmounted, Tree
<1>9. Known'
  <2>1. disk.super \in {"blank", "ok"} BY DEF BootTypes, DiskStates
  <2>2. CASE at = "check" BY <1>1, <1>2, <1>3, <2>1, <2>2 DEF Known, Sound, Bare, NoCache, None
  <2>3. CASE at = "test" BY <1>1, <1>2, <1>3, <2>1, <2>3 DEF Known, Sound
  <2> QED BY <1>1, <2>2, <2>3
<1>10. RootHeld' BY <1>1 DEF RootHeld, Mounted
<1> QED BY <1>4, <1>5, <1>6, <1>7, <1>8, <1>9, <1>10

\* What each write of a format leaves on the disk.
LEMMA LaidHolds ==
    ASSUME NEW d \in DiskStates, NEW step \in 1 .. FormatSteps, NEW e, e = Laid(step, d)
    PROVE  /\ e \in DiskStates
           /\ e.super = "ok" \/ (step # 1 /\ e.super = d.super)
           /\ step = 5 => e.root
           /\ step = 6 => e.root = d.root
<1>1. CASE step = 1
  <2>1. e = IF Formatted(d.super) THEN d ELSE [d EXCEPT !.super = "ok", !.files = {}] BY <1>1 DEF Laid
  <2>2. e \in DiskStates BY <2>1 DEF DiskStates
  <2>3. e.super = "ok" BY <2>1 DEF DiskStates, Formatted
  <2> QED BY <1>1, <2>2, <2>3
<1>2. CASE step \in {2, 3}
  <2>1. e = [d EXCEPT !.files = {}] BY <1>2 DEF Laid
  <2> QED BY <1>2, <2>1 DEF DiskStates
<1>3. CASE step = 4
  <2>1. e = [d EXCEPT !.root = FALSE, !.files = {}] BY <1>3 DEF Laid
  <2>2. e \in DiskStates BY <2>1 DEF DiskStates
  <2>3. e.super = d.super BY <2>1 DEF DiskStates
  <2> QED BY <1>3, <2>2, <2>3
<1>4. CASE step = 5
  <2>1. e = [d EXCEPT !.root = TRUE] BY <1>4 DEF Laid
  <2>2. e \in DiskStates BY <2>1 DEF DiskStates
  <2> QED BY <1>4, <2>1, <2>2 DEF DiskStates
<1>5. CASE step = 6
  <2>1. e = [d EXCEPT !.pending = {}] BY <1>5 DEF Laid
  <2> QED BY <1>5, <2>1 DEF DiskStates
<1> QED BY <1>1, <1>2, <1>3, <1>4, <1>5 DEF FormatSteps

LEMMA FormatHolds == ASSUME BootInv, FormatStep PROVE BootInv'
<1> USE DEF BootInv
<1>1. /\ at = "format" /\ DiskReady /\ DiskReady' = DiskReady /\ Large' = Large
      /\ UNCHANGED <<cache, mounts, view>>
      /\ format \in Formats /\ disk \in DiskStates /\ past \in Pasts
      /\ format.step \in 1 .. FormatSteps
  BY MachineKept DEF FormatStep, Formatting, BootTypes
<1>2. CASE UNCHANGED past /\ disk' = Laid(format.step, disk) /\ IF format.step = FormatSteps
            THEN at' = format.done /\ format' = NoFormat
            ELSE UNCHANGED at /\ format' = [format EXCEPT !.step = @ + 1]
  <2>1. /\ disk' \in DiskStates
        /\ disk'.super = "ok" \/ (format.step # 1 /\ disk'.super = disk.super)
        /\ format.step = 5 => disk'.root
        /\ format.step = 6 => disk'.root = disk.root
    BY <1>1, <1>2, LaidHolds
  <2>2. disk'.super = "ok" BY <1>1, <2>1 DEF Formatting
  <2>3. CASE format.step = FormatSteps
    <3>1. at' = format.done /\ format' = NoFormat /\ at' \in {"fsck", "files"} /\ disk'.root
      BY <1>1, <1>2, <2>1, <2>3 DEF Formatting, FormatSteps
    <3>2. BootTypes'
      <4>1. format' \in Formats BY <3>1 DEF NoFormat, None, Formats
      <4> QED BY <1>1, <1>2, <2>1, <3>1, <4>1 DEF BootTypes, Unmounted
    <3>3. Bare' BY <1>1, <2>3, <3>1 DEF Bare, Early, Unmounted, Formatting
    <3>4. Formatting' BY <3>1 DEF Formatting
    <3>5. DiskHeld' BY <1>1, <1>2, <2>2, <3>1 DEF DiskHeld
    <3>6. CacheTrue' BY <1>1, <1>2 DEF CacheTrue, Formatting
    <3>7. Known'
      <4>1. at' = "fsck" => cache.super = "none" BY <1>1, <3>1 DEF Formatting, NoCache, None
      <4>2. at' = "files" => cache.super # "none" /\ (past.misread \/ past.cut)
        BY <1>1, <3>1 DEF Formatting
      <4> QED BY <1>1, <1>2, <2>2, <3>1, <4>1, <4>2 DEF Known, Sound
    <3>8. RootHeld' BY <3>1 DEF RootHeld, Mounted
    <3> QED BY <3>2, <3>3, <3>4, <3>5, <3>6, <3>7, <3>8
  <2>4. CASE format.step # FormatSteps
    <3>1. /\ at' = at /\ format' \in Formats /\ format'.step = format.step + 1
          /\ format'.done = format.done /\ format'.failed = format.failed
      BY <1>1, <1>2, <2>4 DEF Formats
    <3>2. BootTypes' BY <1>1, <1>2, <2>1, <3>1 DEF BootTypes
    <3>3. Bare' BY <1>1, <3>1 DEF Bare
    <3>4. Formatting'
      <4>1. format'.step \in 2 .. FormatSteps BY <1>1, <2>4, <3>1 DEF FormatSteps
      <4>2. format'.step = FormatSteps => disk'.root BY <1>1, <2>1, <3>1 DEF FormatSteps
      <4> QED BY <1>1, <1>2, <2>2, <3>1, <4>1, <4>2 DEF Formatting
    <3>5. DiskHeld' BY <1>1, <1>2, <2>2, <3>1 DEF DiskHeld
    <3>6. CacheTrue' BY <1>1, <1>2 DEF CacheTrue, Formatting
    <3>7. Known' /\ RootHeld' BY <1>1, <3>1 DEF Known, RootHeld, Mounted
    <3> QED BY <3>2, <3>3, <3>4, <3>5, <3>6, <3>7
  <2> QED BY <2>3, <2>4
<1>3. CASE at' = format.failed /\ format' = NoFormat /\ past' = [past EXCEPT !.cut = TRUE] /\ UNCHANGED disk
  <2>1. /\ past' \in Pasts /\ past'.cut /\ past'.misread = past.misread /\ past'.stored = past.stored
        /\ at' \in {"fsck", "root"}
    BY <1>1, <1>3 DEF Pasts, Formatting
  <2>2. BootTypes'
    <3>1. format' \in Formats BY <1>3 DEF NoFormat, None, Formats
    <3> QED BY <1>1, <1>3, <2>1, <3>1 DEF BootTypes, Unmounted
  <2>3. Bare' BY <1>1, <1>3, <2>1 DEF Bare, Early, Unmounted, Formatting
  <2>4. Formatting' /\ RootHeld' BY <2>1 DEF Formatting, RootHeld, Mounted
  <2>5. DiskHeld' BY <1>1, <1>3, <2>1 DEF DiskHeld
  <2>6. CacheTrue' BY <1>1, <2>1 DEF CacheTrue, Formatting
  <2>7. Known' BY <1>1, <1>3, <2>1 DEF Known, Sound, Formatting
  <2> QED BY <2>2, <2>3, <2>4, <2>5, <2>6, <2>7
<1> QED BY <1>2, <1>3 DEF FormatStep

LEMMA FsckHolds == ASSUME BootInv, Fsck PROVE BootInv'
<1> USE DEF BootInv
<1>1. /\ at = "fsck" /\ at' = "selftest" /\ UNCHANGED <<disk, mounts, view, format, past>>
      /\ DiskReady' = DiskReady /\ Large' = Large /\ disk \in DiskStates /\ cache = NoCache
  BY MachineKept DEF Fsck, From, BootTypes, Bare
<1>2. cache' = NoCache \/ cache' = [super |-> disk.super, tree |-> IF disk.super = "ok" THEN Tree(disk) ELSE Unread]
  BY <1>1 DEF Fsck, Formatted
<1>3. Unread \in Trees /\ Tree(disk) \in Trees BY <1>1 DEF Tree, Trees, Unread, None, DiskNames, DiskStates
<1>4. cache' \in Cached /\ cache'.super \in {"none", disk.super}
  BY <1>1, <1>2, <1>3 DEF Cached, DiskStates, NoCache, None
<1>5. cache'.tree # Unread => disk.super = "ok" /\ cache'.tree = Tree(disk) BY <1>2 DEF NoCache
<1>6. BootTypes' BY <1>1, <1>4 DEF BootTypes, Unmounted
<1>7. Bare' /\ Formatting' /\ RootHeld' BY <1>1 DEF Bare, Early, Unmounted, Formatting, RootHeld, Mounted
<1>8. DiskHeld' BY <1>1, <1>4 DEF DiskHeld
<1>9. CacheTrue'
  <2>1. Tree(disk)' = Tree(disk) BY <1>1 DEF Tree
  <2> QED BY <1>1, <1>5, <2>1 DEF CacheTrue
<1>10. Known' BY <1>1, <1>4 DEF Known, Sound
<1> QED BY <1>6, <1>7, <1>8, <1>9, <1>10

LEMMA SelfTestHolds == ASSUME BootInv, SelfTest PROVE BootInv'
<1> USE DEF BootInv
<1>1. /\ at = "selftest" /\ at' \in {"test", "root"} /\ UNCHANGED <<disk, mounts, view, format, past>>
      /\ DiskReady' = DiskReady /\ Large' = Large /\ disk \in DiskStates /\ cache \in Cached
      /\ at' = "test" => DiskReady
  BY MachineKept DEF SelfTest, BootTypes
<1>2. IF DiskReady /\ cache.super = "none" THEN cache' = [cache EXCEPT !.super = disk.super] ELSE cache' = cache
  BY DEF SelfTest, None
<1>3. /\ cache' \in Cached /\ cache'.tree = cache.tree /\ cache'.super \in {cache.super, disk.super}
      /\ DiskReady => cache'.super # "none"
  BY <1>1, <1>2 DEF Cached, DiskStates
<1>4. BootTypes' BY <1>1, <1>3 DEF BootTypes, Unmounted
<1>5. Bare' /\ Formatting' /\ RootHeld' BY <1>1 DEF Bare, Early, Unmounted, Formatting, RootHeld, Mounted
<1>6. DiskHeld' BY <1>1, <1>3 DEF DiskHeld
<1>7. CacheTrue'
  <2>1. Tree(disk)' = Tree(disk) BY <1>1 DEF Tree
  <2> QED BY <1>1, <1>3, <2>1 DEF CacheTrue, Unmounted
<1>8. Known' BY <1>1, <1>3 DEF Known, Sound
<1> QED BY <1>4, <1>5, <1>6, <1>7, <1>8

\* A recovery moves the names of the transaction home and changes nothing else.
LEMMA RecoveredHolds ==
    ASSUME NEW d \in DiskStates, NEW e, e = Recovered(d)
    PROVE  /\ e \in DiskStates /\ e.super = d.super /\ e.root = d.root
           /\ e.files = d.files \cup d.pending /\ e.pending = {}
<1>1. e = [d EXCEPT !.files = d.files \cup d.pending, !.pending = {}] BY DEF Recovered, DiskStates
<1>2. e \in DiskStates BY <1>1 DEF DiskStates
<1>3. e.super = d.super /\ e.root = d.root /\ e.files = d.files \cup d.pending /\ e.pending = {}
  BY <1>1 DEF DiskStates
<1> QED BY <1>2, <1>3

\* The mount shows the recovered directory, from the cache or from the disk.
LEMMA ShownHolds ==
    ASSUME disk \in DiskStates, cache \in Cached
    PROVE  /\ Shown(disk) \in Trees
           /\ (cache.tree # Unread => cache.tree = Tree(disk)) => Shown(disk) = Tree(Recovered(disk))
<1> DEFINE e == Recovered(disk)
<1>1. /\ e \in DiskStates /\ e.super = disk.super /\ e.root = disk.root
      /\ e.files = disk.files \cup disk.pending /\ e.pending = {}
  BY RecoveredHolds
<1>2. Tree(e) = [root |-> disk.root, files |-> disk.files \cup disk.pending] BY <1>1 DEF Tree
<1>3. Tree(e) \in Trees /\ cache.tree \in Trees BY <1>1 DEF Tree, Trees, DiskStates, Cached
<1>4. Invalidated(cache, disk).tree = IF disk.pending = {} THEN cache.tree ELSE Unread
  BY DEF Invalidated, Cached
<1>5. Shown(disk) = IF disk.pending = {} /\ cache.tree # Unread THEN cache.tree ELSE Tree(e)
  BY <1>4 DEF Shown
<1>6. disk.pending = {} => Tree(e) = Tree(disk) BY <1>2 DEF Tree
<1> QED BY <1>3, <1>5, <1>6

\* A recovery outside a mount leaves in the cache what the disk has.
LEMMA InvalidatedHolds ==
    ASSUME disk \in DiskStates, cache \in Cached, NEW c, c = Invalidated(cache, disk)
    PROVE  /\ c \in Cached /\ c.super = cache.super
           /\ (cache.tree # Unread => cache.tree = Tree(disk)) =>
                 (c.tree # Unread => c.tree = Tree(Recovered(disk)))
<1>1. Unread \in Trees BY DEF Trees, Unread, None, DiskNames
<1>2. CASE disk.pending = {}
  <2>1. c = cache BY <1>2 DEF Invalidated
  <2> DEFINE e == Recovered(disk)
  <2>2. e.root = disk.root /\ e.files = disk.files \cup disk.pending BY RecoveredHolds
  <2>3. Tree(e) = Tree(disk) BY <1>2, <2>2 DEF Tree
  <2> QED BY <2>1, <2>3
<1>3. CASE disk.pending # {}
  <2>1. c = [cache EXCEPT !.tree = Unread] BY <1>3 DEF Invalidated
  <2> QED BY <1>1, <2>1 DEF Cached
<1> QED BY <1>2, <1>3

\* The self-test of the file system, with or without files of its own.
LEMMA TestFilesHolds == ASSUME BootInv, TestFiles PROVE BootInv'
<1> USE DEF BootInv
<1>1. /\ at = "files" /\ at' = "root" /\ UNCHANGED <<mounts, view, format, past>>
      /\ DiskReady' = DiskReady /\ Large' = Large /\ disk \in DiskStates /\ cache \in Cached
      /\ ~past.misread => (cache.tree # Unread => cache.tree = Tree(disk))
      /\ DiskReady /\ cache.super # "none"
  BY MachineKept DEF TestFiles, From, BootTypes, CacheTrue, Unmounted, Known
<1>2. ASSUME /\ disk' \in DiskStates /\ disk'.super = disk.super /\ disk'.root = disk.root
             /\ disk.files \cup disk.pending \subseteq disk'.files \cup disk'.pending
             /\ cache' \in Cached /\ cache'.super = cache.super
             /\ cache'.tree # Unread /\ ~past.misread => disk'.super = "ok" /\ cache'.tree = Tree(disk')
      PROVE  BootInv'
  <2>1. BootTypes' BY <1>1, <1>2 DEF BootTypes, Unmounted
  <2>2. Bare' /\ Formatting' /\ RootHeld' BY <1>1 DEF Bare, Early, Unmounted, Formatting, RootHeld, Mounted
  <2>3. DiskHeld' BY <1>1, <1>2 DEF DiskHeld
  <2>4. CacheTrue' BY <1>1, <1>2 DEF CacheTrue
  <2>5. Known' BY <1>1, <1>2 DEF Known, Sound
  <2> QED BY <2>1, <2>2, <2>3, <2>4, <2>5
<1>3. CanMount => disk.super = "ok" BY DEF CanMount, DiskHeld
<1>4. CASE CanMount /\ disk' = Recovered(disk) /\ cache' = Invalidated(cache, disk)
  <2>1. /\ disk' \in DiskStates /\ disk'.super = disk.super /\ disk'.root = disk.root
        /\ disk'.files = disk.files \cup disk.pending
    BY <1>1, <1>4, RecoveredHolds
  <2>2. /\ cache' \in Cached /\ cache'.super = cache.super
        /\ ~past.misread => (cache'.tree # Unread => cache'.tree = Tree(disk'))
    BY <1>1, <1>4, InvalidatedHolds
  <2> QED BY <1>2, <1>3, <1>4, <2>1, <2>2
<1>5. CASE UNCHANGED <<disk, cache>>
  <2>1. cache.tree # Unread /\ ~past.misread => disk.super = "ok" BY <1>1 DEF CacheTrue, Unmounted
  <2> QED BY <1>1, <1>2, <1>5, <2>1
<1>6. ASSUME CanMount,
             disk' = [Recovered(disk) EXCEPT !.files = With(Shown(disk), @, "t1.txt")],
             cache' = [cache EXCEPT !.tree = [Shown(disk) EXCEPT !.files = With(Shown(disk), @, "t1.txt")]]
      PROVE  BootInv'
  <2> DEFINE e == Recovered(disk)
             t == Shown(disk)
             u == [t EXCEPT !.files = With(t, @, "t1.txt")]
  <2>1. /\ e \in DiskStates /\ e.super = disk.super /\ e.root = disk.root
        /\ e.files = disk.files \cup disk.pending
    BY <1>1, RecoveredHolds
  <2>2. t \in Trees /\ (~past.misread => t = Tree(e)) BY <1>1, ShownHolds
  <2>3. disk' = [e EXCEPT !.files = With(t, e.files, "t1.txt")] BY <1>6, <2>1 DEF DiskStates
  <2>4. "t1.txt" \in DiskNames BY DEF DiskNames
  <2>5. e.files \subseteq With(t, e.files, "t1.txt") /\ With(t, e.files, "t1.txt") \in SUBSET DiskNames
    BY <2>1, <2>4 DEF With, DiskStates
  <2>6. /\ disk' \in DiskStates /\ disk'.super = disk.super /\ disk'.root = disk.root
        /\ disk'.files = With(t, e.files, "t1.txt")
    BY <2>1, <2>3, <2>5 DEF DiskStates
  <2>7. u = [root |-> t.root, files |-> With(t, t.files, "t1.txt")] BY <2>2 DEF Trees
  <2>8. u \in Trees BY <2>2, <2>4, <2>7 DEF Trees, With
  <2>9. cache' \in Cached /\ cache'.super = cache.super /\ cache'.tree = u
    BY <1>1, <1>6, <2>8 DEF Cached
  <2>10. ~past.misread => u = Tree(disk') BY <2>1, <2>2, <2>6, <2>7 DEF Tree
  <2> QED BY <1>2, <1>3, <1>6, <2>1, <2>5, <2>6, <2>9, <2>10
<1> QED BY <1>4, <1>5, <1>6 DEF TestFiles

-----------------------------------------------------------------------------
(* The mounted root *)

LEMMA RootMounted == ASSUME BootInv, MountRoot PROVE BootInv'
<1> USE DEF BootInv
<1> DEFINE e == Recovered(disk)
           t == Shown(disk)
<1>1. /\ at = "root" /\ at' = "install" /\ format' = format /\ mounts = << >>
      /\ DiskReady' = DiskReady /\ Large' = Large /\ disk \in DiskStates /\ cache \in Cached
      /\ format \in Formats /\ past \in Pasts /\ view \in SUBSET DiskNames
  BY MachineKept DEF MountRoot, From, BootTypes, Bare, Unmounted
<1>2. /\ e \in DiskStates /\ e.super = disk.super /\ e.root = disk.root
      /\ e.files = disk.files \cup disk.pending /\ e.pending = {}
  BY <1>1, RecoveredHolds
<1>3. t \in Trees /\ (~past.misread => t = Tree(e))
  <2>1. ~past.misread => (cache.tree # Unread => cache.tree = Tree(disk)) BY <1>1 DEF CacheTrue, Unmounted
  <2> QED BY <1>1, <2>1, ShownHolds
<1>4. CanMount => disk.super = "ok" BY DEF CanMount, DiskHeld
<1>5. DiskReady /\ Large /\ ~past.cut /\ ~past.misread => CanMount
  <2>1. DiskReady /\ Large /\ ~past.cut /\ ~past.misread => cache.super # "none" /\ cache.super # "blank"
    BY <1>1 DEF Known, Sound
  <2> QED BY <1>1, <2>1 DEF CanMount, Cached
<1>6. ASSUME /\ disk' \in DiskStates /\ disk'.super = disk.super /\ disk'.root = disk.root
             /\ disk.files \cup disk.pending \subseteq disk'.files \cup disk'.pending
             /\ cache' \in Cached /\ cache'.super = cache.super
             /\ past' \in Pasts /\ past'.stored = past.stored /\ past'.cut = past.cut /\ past'.misread = past.misread
             /\ view' \in SUBSET DiskNames
             /\ RootHeld'
      PROVE  BootInv'
  <2>1. BootTypes' BY <1>1, <1>6 DEF BootTypes, Mounted
  <2>2. Bare' /\ Formatting' /\ CacheTrue' /\ Known'
    BY <1>1 DEF Bare, Early, Unmounted, Formatting, CacheTrue, Known
  <2>3. DiskHeld' BY <1>1, <1>6 DEF DiskHeld
  <2> QED BY <1>6, <2>1, <2>2, <2>3
<1>7. CASE /\ DiskReady /\ CanMount /\ disk' = Recovered(disk) /\ view' = Shown(disk).files
           /\ cache' = [cache EXCEPT !.tree = Shown(disk)]
           /\ Mount("/", "disk") /\ UNCHANGED past
  <2>1. cache' \in Cached /\ cache'.super = cache.super /\ cache'.tree = t BY <1>1, <1>3, <1>7 DEF Cached
  <2>2. view' \in SUBSET DiskNames BY <1>3, <1>7 DEF Trees
  <2>3. OnDisk' /\ HasRoot' BY <1>1, <1>7 DEF OnDisk, HasRoot, Mount
  <2>4. ~past.misread => view' = e.files BY <1>3, <1>7 DEF Tree
  <2>5. RootHeld' BY <1>1, <1>2, <1>4, <1>7, <2>1, <2>3, <2>4 DEF RootHeld
  <2> QED BY <1>1, <1>2, <1>6, <1>7, <2>1, <2>2, <2>5
<1>8. CASE /\ past' = [past EXCEPT !.short = @ \/ (DiskReady /\ CanMount)]
           /\ disk' \in {disk} \cup (IF DiskReady /\ CanMount THEN {Recovered(disk)} ELSE {})
           /\ cache' = IF disk' = disk THEN cache ELSE Invalidated(cache, disk)
           /\ Mount("/", "tmpfs") /\ view' = {}
  <2>1. /\ past' \in Pasts /\ past'.stored = past.stored /\ past'.cut = past.cut /\ past'.misread = past.misread
        /\ past'.short <=> past.short \/ (DiskReady /\ CanMount)
    BY <1>1, <1>8 DEF Pasts
  <2>2. disk' = disk \/ disk' = e BY <1>8
  <2>3. cache' \in Cached /\ cache'.super = cache.super BY <1>1, <1>8, InvalidatedHolds
  <2>4. ~OnDisk' /\ HasRoot' BY <1>1, <1>8 DEF OnDisk, HasRoot, Mount
  <2>5. RootHeld' BY <1>1, <1>5, <2>1, <2>4 DEF RootHeld, Sound
  <2> QED BY <1>1, <1>2, <1>6, <1>8, <2>1, <2>2, <2>3, <2>5
<1>9. CASE past' = [past EXCEPT !.short = TRUE] /\ UNCHANGED <<disk, cache, mounts, view>>
  <2>1. /\ past' \in Pasts /\ past'.stored = past.stored /\ past'.cut = past.cut /\ past'.misread = past.misread
        /\ past'.short
    BY <1>1, <1>9 DEF Pasts
  <2>2. ~OnDisk' BY <1>1, <1>9 DEF OnDisk, HasRoot
  <2>3. RootHeld' BY <2>1, <2>2 DEF RootHeld
  <2> QED BY <1>1, <1>6, <1>9, <2>1, <2>3
<1> QED BY <1>7, <1>8, <1>9 DEF MountRoot

\* What a step of the mounted system has to show.
LEMMA MountedKept ==
    ASSUME BootInv, at \in Mounted, at' \in Mounted \cup {"halted"}, UNCHANGED format, KernelStep,
           disk' \in DiskStates, disk'.super = disk.super, disk'.root = disk.root,
           cache' \in Cached, cache'.super = cache.super, view' \in SUBSET DiskNames,
           past' \in Pasts, past'.cut = past.cut, past'.misread = past.misread,
           past'.stored \cap {"prog"} = {},
           ~past.misread => past'.stored \subseteq disk'.files \cup disk'.pending,
           past'.stored = past.stored \/ disk.super = "ok",
           at' # "halted" => RootHeld'
    PROVE  BootInv'
<1> USE DEF BootInv
<1>1. BootTypes' BY DEF BootTypes
<1>2. Bare' /\ Formatting' /\ CacheTrue' /\ Known'
  BY DEF Bare, Early, Unmounted, Mounted, Formatting, CacheTrue, Known
<1>3. DiskHeld' BY DEF DiskHeld, Mounted
<1>4. RootHeld' BY DEF RootHeld, Mounted
<1> QED BY <1>1, <1>2, <1>3, <1>4

\* The program goes from the root or comes to it, on the disk and in the cache alike.
LEMMA BecomesHolds ==
    ASSUME BootInv, at \in Mounted \ {"up"},
           \/ Becomes(view \ {"prog"}, [disk EXCEPT !.files = @ \ {"prog"}])
           \/ Becomes(view \cup {"prog"}, [disk EXCEPT !.files = @ \cup {"prog"}])
    PROVE  /\ disk' \in DiskStates /\ disk'.super = disk.super /\ disk'.root = disk.root
           /\ cache' \in Cached /\ cache'.super = cache.super /\ cache'.tree.root = cache.tree.root
           /\ view' \in SUBSET DiskNames
           /\ ~past.misread => past.stored \subseteq disk'.files \cup disk'.pending
           /\ OnDisk => /\ cache'.tree.files = view' /\ disk'.pending = {}
                        /\ ~past.misread => view' = disk'.files
<1> USE DEF BootInv
<1>1. disk \in DiskStates /\ cache \in Cached /\ view \in SUBSET DiskNames /\ past.stored \cap {"prog"} = {}
  BY DEF BootTypes, DiskHeld
<1>2. ~past.misread => past.stored \subseteq disk.files \cup disk.pending BY DEF DiskHeld
<1>3. PICK now, names :
        /\ Becomes(names, [disk EXCEPT !.files = now])
        /\ \/ names = view \ {"prog"} /\ now = disk.files \ {"prog"}
           \/ names = view \cup {"prog"} /\ now = disk.files \cup {"prog"}
  OBVIOUS
<1>4. "prog" \in DiskNames BY DEF DiskNames
<1>5. view' = names /\ now \in SUBSET DiskNames /\ names \in SUBSET DiskNames
  BY <1>1, <1>3, <1>4 DEF Becomes, DiskStates
<1>6. CASE ~OnDisk
  <2>1. disk' = disk /\ cache' = cache BY <1>3, <1>6 DEF Becomes
  <2> QED BY <1>1, <1>2, <1>5, <1>6, <2>1
<1>7. CASE OnDisk
  <2>1. disk' = [disk EXCEPT !.files = now] /\ cache' = [cache EXCEPT !.tree.files = names]
    BY <1>3, <1>7 DEF Becomes
  <2>2. /\ disk' \in DiskStates /\ disk'.super = disk.super /\ disk'.root = disk.root
        /\ disk'.files = now /\ disk'.pending = disk.pending
    BY <1>1, <1>5, <2>1 DEF DiskStates
  <2>3. /\ cache' \in Cached /\ cache'.super = cache.super /\ cache'.tree.root = cache.tree.root
        /\ cache'.tree.files = names
    BY <1>1, <1>5, <2>1 DEF Cached, Trees
  <2>4. disk.pending = {} /\ (~past.misread => view = disk.files)
    BY <1>1, <1>7 DEF RootHeld, DiskStates
  <2> QED BY <1>1, <1>2, <1>3, <1>5, <2>2, <2>3, <2>4
<1> QED BY <1>6, <1>7

LEMMA ProgramUnlinked == ASSUME BootInv, UnlinkProgram PROVE BootInv'
<1> USE DEF BootInv
<1>1. /\ at = "install" /\ at' = "write" /\ UNCHANGED <<mounts, format, past>> /\ KernelStep
      /\ DiskReady' = DiskReady /\ Large' = Large
      /\ disk \in DiskStates /\ cache \in Cached /\ view \in SUBSET DiskNames /\ past \in Pasts
  BY MachineKept DEF UnlinkProgram, From, BootTypes
<1>2. at \in Mounted \ {"up"} /\ at' \in Mounted BY <1>1 DEF Mounted
<1>3. OnDisk' = OnDisk /\ HasRoot' = HasRoot BY <1>1 DEF OnDisk, HasRoot
<1>4. /\ ~past.misread => past.stored \subseteq disk.files \cup disk.pending
      /\ past.stored \cap {"prog"} = {}
  BY DEF DiskHeld
<1>5. CASE RootUsable
  <2>1. /\ disk' \in DiskStates /\ disk'.super = disk.super /\ disk'.root = disk.root
        /\ cache' \in Cached /\ cache'.super = cache.super
        /\ view' \in SUBSET DiskNames
        /\ ~past.misread => past.stored \subseteq disk'.files \cup disk'.pending
        /\ OnDisk => /\ cache'.tree.files = view' /\ disk'.pending = {}
                     /\ ~past.misread => view' = disk'.files
    BY <1>2, <1>5, BecomesHolds DEF UnlinkProgram
  <2>2. RootHeld' BY <1>1, <1>2, <1>3, <2>1 DEF RootHeld, Sound
  <2> QED BY <1>1, <1>2, <1>4, <2>1, <2>2, MountedKept
<1>6. CASE ~RootUsable
  <2>1. UNCHANGED <<view, disk, cache>> BY <1>6 DEF UnlinkProgram
  <2>2. RootHeld' BY <1>1, <1>2, <1>3, <2>1 DEF RootHeld, Sound
  <2> QED BY <1>1, <1>2, <1>4, <2>1, <2>2, MountedKept
<1> QED BY <1>5, <1>6

LEMMA ProgramWritten == ASSUME BootInv, WriteProgram PROVE BootInv'
<1> USE DEF BootInv
<1>1. /\ at = "write" /\ at' = "critical" /\ UNCHANGED <<mounts, format>> /\ KernelStep
      /\ DiskReady' = DiskReady /\ Large' = Large
      /\ disk \in DiskStates /\ cache \in Cached /\ view \in SUBSET DiskNames /\ past \in Pasts
  BY MachineKept DEF WriteProgram, From, BootTypes
<1>2. at \in Mounted \ {"up"} /\ at' \in Mounted BY <1>1 DEF Mounted
<1>3. OnDisk' = OnDisk /\ HasRoot' = HasRoot BY <1>1 DEF OnDisk, HasRoot
<1>4. /\ ~past.misread => past.stored \subseteq disk.files \cup disk.pending
      /\ past.stored \cap {"prog"} = {}
  BY DEF DiskHeld
<1>5. CASE /\ RootUsable /\ Becomes(view \cup {"prog"}, [disk EXCEPT !.files = @ \cup {"prog"}])
           /\ UNCHANGED past
  <2>1. /\ disk' \in DiskStates /\ disk'.super = disk.super /\ disk'.root = disk.root
        /\ cache' \in Cached /\ cache'.super = cache.super
        /\ view' \in SUBSET DiskNames
        /\ ~past.misread => past.stored \subseteq disk'.files \cup disk'.pending
        /\ OnDisk => /\ cache'.tree.files = view' /\ disk'.pending = {}
                     /\ ~past.misread => view' = disk'.files
    BY <1>2, <1>5, BecomesHolds
  <2>2. "prog" \in view' BY <1>5 DEF Becomes
  <2>3. RootHeld' BY <1>1, <1>2, <1>3, <1>5, <2>1, <2>2 DEF RootHeld, Sound
  <2> QED BY <1>1, <1>2, <1>4, <1>5, <2>1, <2>3, MountedKept
<1>6. CASE past' = [past EXCEPT !.short = @ \/ RootUsable] /\ UNCHANGED <<view, disk, cache>>
  <2>1. /\ past' \in Pasts /\ past'.stored = past.stored /\ past'.cut = past.cut /\ past'.misread = past.misread
        /\ past'.short <=> past.short \/ RootUsable
    BY <1>1, <1>6 DEF Pasts
  <2>2. RootUsable' = RootUsable BY <1>1, <1>6 DEF RootUsable, OnDisk, HasRoot
  <2>3. RootHeld' BY <1>1, <1>2, <1>3, <1>6, <2>1, <2>2 DEF RootHeld, Sound
  <2> QED BY <1>1, <1>2, <1>4, <1>6, <2>1, <2>3, MountedKept
<1> QED BY <1>5, <1>6 DEF WriteProgram

\* What is mounted later leaves the root where it is.
LEMMA MountsAdded ==
    ASSUME BootInv, at \in {"critical", "services"}, at' \in {"services", "up", "halted"},
           UNCHANGED <<disk, cache, view, format, past>>, KernelStep,
           HasRoot' = HasRoot, HasRoot => mounts'["/"] = mounts["/"]
    PROVE  BootInv'
<1> USE DEF BootInv
<1>1. /\ DiskReady' = DiskReady /\ Large' = Large
      /\ disk \in DiskStates /\ cache \in Cached /\ view \in SUBSET DiskNames /\ past \in Pasts
  BY MachineKept DEF BootTypes
<1>2. at \in Mounted /\ at' \in Mounted \cup {"halted"} BY DEF Mounted
<1>3. OnDisk' = OnDisk /\ RootUsable' = RootUsable
  <2>1. OnDisk' = OnDisk BY DEF OnDisk
  <2> QED BY <2>1 DEF RootUsable
<1>4. /\ ~past.misread => past.stored \subseteq disk.files \cup disk.pending
      /\ past.stored \cap {"prog"} = {}
  BY DEF DiskHeld
<1>5. RootHeld' BY <1>1, <1>2, <1>3 DEF RootHeld, Sound
<1> QED BY <1>1, <1>2, <1>4, <1>5, MountedKept

LEMMA CriticalMounted == ASSUME BootInv, MountCritical PROVE BootInv'
<1>1. /\ at = "critical" /\ at' = "services"
      /\ UNCHANGED <<disk, cache, view, format, past>> /\ KernelStep
  BY DEF MountCritical, From
<1>2. HasRoot' = HasRoot /\ (HasRoot => mounts'["/"] = mounts["/"])
  <2>1. CASE Mount("/system/critical", "tmpfs") BY <2>1 DEF Mount, HasRoot
  <2>2. CASE UNCHANGED mounts BY <2>2 DEF HasRoot
  <2> QED BY <2>1, <2>2 DEF MountCritical
<1> QED BY <1>1, <1>2, MountsAdded

LEMMA ServicesStarted == ASSUME BootInv, StartServices PROVE BootInv'
<1>1. /\ at = "services" /\ at' \in {"up", "halted"}
      /\ UNCHANGED <<disk, cache, view, format, past>> /\ KernelStep
  BY DEF StartServices, From
<1>2. HasRoot' = HasRoot /\ (HasRoot => mounts'["/"] = mounts["/"])
  <2>1. CASE UNCHANGED mounts BY <2>1 DEF HasRoot
  <2>2. CASE \E made \in {{}, {"/proc"}, {"/proc", "/sys", "/dev"}} :
               mounts' = [x \in DOMAIN mounts \cup made |-> IF x \in made THEN "own" ELSE mounts[x]]
    <3>1. PICK made \in {{}, {"/proc"}, {"/proc", "/sys", "/dev"}} :
            mounts' = [x \in DOMAIN mounts \cup made |-> IF x \in made THEN "own" ELSE mounts[x]]
      BY <2>2
    <3>2. "/" \notin made OBVIOUS
    <3> QED BY <3>1, <3>2 DEF HasRoot
  <2> QED BY <2>1, <2>2 DEF StartServices
<1> QED BY <1>1, <1>2, MountsAdded

-----------------------------------------------------------------------------
(* The running system, and the end of a boot *)

LEMMA CommitHolds == ASSUME BootAssumption, BootInv, NEW n \in Names, Commit(n) PROVE BootInv'
<1> USE DEF BootInv
<1>1. /\ at = "up" /\ at' = "up" /\ UNCHANGED <<mounts, format>> /\ KernelStep
      /\ DiskReady' = DiskReady /\ Large' = Large /\ OnDisk /\ RootUsable /\ disk.pending = {}
      /\ disk \in DiskStates /\ cache \in Cached /\ view \in SUBSET DiskNames /\ past \in Pasts
  BY MachineKept DEF Commit, BootTypes
<1>2. at \in Mounted /\ at' \in Mounted BY <1>1 DEF Mounted
<1>3. OnDisk' = OnDisk /\ HasRoot' = HasRoot BY <1>1 DEF OnDisk, HasRoot
<1>4. n \in DiskNames /\ n # "prog" BY DEF BootAssumption, DiskNames
<1>5. view' = view \cup {n} /\ view' \in SUBSET DiskNames BY <1>1, <1>4 DEF Commit
<1>6. /\ disk' \in DiskStates /\ disk'.super = disk.super /\ disk'.root = disk.root
      /\ disk'.files = disk.files /\ disk'.pending = {n}
  <2>1. disk' = [disk EXCEPT !.pending = {n}] BY DEF Commit
  <2> QED BY <1>1, <1>4, <2>1 DEF DiskStates
<1>7. /\ cache' \in Cached /\ cache'.super = cache.super /\ cache'.tree.root = cache.tree.root
      /\ cache'.tree.files = view'
  <2>1. cache' = [cache EXCEPT !.tree.files = view'] BY DEF Commit
  <2> QED BY <1>1, <1>5, <2>1 DEF Cached, Trees
<1>8. /\ past' \in Pasts /\ past'.stored = past.stored \cup {n} /\ past'.cut = past.cut
      /\ past'.misread = past.misread /\ past'.short = past.short
  <2>1. past' = [past EXCEPT !.stored = past.stored \cup {n}] BY <1>1 DEF Commit, Pasts
  <2> QED BY <1>1, <1>4, <2>1 DEF Pasts
<1>9. /\ ~past.misread => past.stored \subseteq disk.files \cup disk.pending
      /\ past.stored \cap {"prog"} = {}
  BY DEF DiskHeld
<1>10. RootUsable' = RootUsable BY <1>1, <1>3, <1>7 DEF RootUsable
<1>11. disk.super = "ok" BY <1>1, <1>2 DEF RootHeld
<1>12. RootHeld' BY <1>1, <1>2, <1>3, <1>5, <1>6, <1>7, <1>8, <1>10 DEF RootHeld, Sound
<1> QED BY <1>1, <1>2, <1>4, <1>5, <1>6, <1>7, <1>8, <1>9, <1>11, <1>12, MountedKept

LEMMA WriteHomeHolds == ASSUME BootInv, WriteHome PROVE BootInv'
<1> USE DEF BootInv
<1> DEFINE e == Recovered(disk)
<1>1. /\ at = "up" /\ disk' = e /\ UNCHANGED <<at, cache, mounts, view, format, past>> /\ KernelStep
      /\ DiskReady' = DiskReady /\ Large' = Large
      /\ disk \in DiskStates /\ cache \in Cached /\ view \in SUBSET DiskNames /\ past \in Pasts
  BY MachineKept DEF WriteHome, BootTypes
<1>2. at \in Mounted /\ at' \in Mounted BY <1>1 DEF Mounted
<1>3. OnDisk' = OnDisk /\ HasRoot' = HasRoot /\ RootUsable' = RootUsable
  BY <1>1 DEF RootUsable, OnDisk, HasRoot
<1>4. /\ e \in DiskStates /\ e.super = disk.super /\ e.root = disk.root
      /\ e.files = disk.files \cup disk.pending /\ e.pending = {}
  BY <1>1, RecoveredHolds
<1>5. /\ ~past.misread => past.stored \subseteq disk.files \cup disk.pending
      /\ past.stored \cap {"prog"} = {}
  BY DEF DiskHeld
<1>6. RootHeld' BY <1>1, <1>2, <1>3, <1>4 DEF RootHeld, Sound
<1> QED BY <1>1, <1>2, <1>4, <1>5, <1>6, MountedKept

\* A boot may end anywhere: a format that was cut off is remembered, and nothing
\* else is asked of the disk than before.
LEMMA PowerFailsHolds == ASSUME BootInv, PowerFails PROVE BootInv'
<1> USE DEF BootInv
<1>1. /\ at' = "read" /\ cache' = NoCache /\ mounts' = << >> /\ view' = {} /\ format' = NoFormat
      /\ disk' = disk /\ disk \in DiskStates /\ past \in Pasts
  BY DEF PowerFails, BootTypes
<1>2. /\ past' \in Pasts /\ past'.stored = past.stored /\ past'.misread = past.misread
      /\ past'.cut <=> past.cut \/ (at = "format" /\ format.step > 1)
  <2> DEFINE cut == past.cut \/ (at = "format" /\ format.step > 1)
  <2>1. past' = [past EXCEPT !.boots = past.boots + 1, !.short = FALSE, !.cut = cut] BY DEF PowerFails
  <2>2. cut \in BOOLEAN /\ past.boots + 1 \in Int BY <1>1 DEF Pasts
  <2> HIDE DEF cut
  <2>3. past' = [stored |-> past.stored, cut |-> cut, misread |-> past.misread, short |-> FALSE, boots |-> past.boots + 1]
    BY <1>1, <2>1 DEF Pasts
  <2>4. past' \in Pasts BY <1>1, <2>2, <2>3 DEF Pasts
  <2>5. past'.cut = cut BY <2>3
  <2>6. past'.stored = past.stored /\ past'.misread = past.misread BY <2>3
  <2> QED BY <2>4, <2>5, <2>6 DEF cut
<1>3. BootTypes'
  <2>1. Unread \in Trees BY DEF Trees, Unread, None, DiskNames
  <2>2. NoCache \in Cached BY <2>1 DEF Cached, NoCache, None
  <2>3. NoFormat \in Formats BY DEF NoFormat, None, Formats
  <2> QED BY <1>1, <1>2, <2>2, <2>3 DEF BootTypes, Early
<1>4. Bare' BY <1>1 DEF Bare
<1>5. Formatting' /\ CacheTrue' /\ Known' /\ RootHeld'
  BY <1>1 DEF Formatting, CacheTrue, Known, RootHeld, Unmounted, Mounted
<1>6. DiskHeld'
  <2>1. cache'.super # "ok" BY <1>1 DEF NoCache, None
  <2>2. at = "format" /\ ~past'.cut /\ ~past.misread => disk.super = "blank"
    BY <1>2 DEF Formatting, FormatSteps
  <2> QED BY <1>1, <1>2, <2>1, <2>2 DEF DiskHeld
<1> QED BY <1>3, <1>4, <1>5, <1>6

-----------------------------------------------------------------------------
(* The theorem *)

LEMMA BootStutters == ASSUME BootInv, UNCHANGED boot_vars PROVE BootInv'
<1>1. UNCHANGED <<at, disk_side, bus, devices>> BY DEF boot_vars, disk_side, probe_vars
<1>2. UNCHANGED <<at, disk, cache, mounts, view, format, past>> BY <1>1 DEF disk_side
<1>3. DiskReady' = DiskReady BY <1>1 DEF DiskReady
<1>4. Large' = Large BY <1>1 DEF Large, total_sectors, DiskFunction
<1>5. OnDisk' = OnDisk /\ HasRoot' = HasRoot /\ RootUsable' = RootUsable /\ Tree(disk)' = Tree(disk)
  BY <1>2 DEF OnDisk, HasRoot, RootUsable, Tree
<1> QED
  BY <1>2, <1>3, <1>4, <1>5
     DEF BootInv, BootTypes, Bare, Formatting, DiskHeld, CacheTrue, Known, Sound, RootHeld

LEMMA BootKept == ASSUME BootAssumption, BootInv, [BootNext]_boot_vars PROVE BootInv'
<1>1. CASE Firmware
  BY <1>1, LoaderKeeps DEF Firmware, BeforeExit, Early
<1>2. CASE ReadKernel \/ LoadKernel \/ ReadMap \/ ReadMapAgain
  BY <1>2, LoaderKeeps DEF ReadKernel, LoadKernel, ReadMap, ReadMapAgain, From, Early
<1>3. CASE ExitBootServices
  BY <1>3, LoaderKeeps DEF ExitBootServices, From, Early
<1>4. CASE StartKernel \/ StartNet
  BY <1>4, LoaderKeeps DEF StartKernel, StartNet, From, Early
<1>5. CASE CheckFormat("check", "fsck", "fsck") \/ CheckFormat("test", "files", "root")
  BY <1>5, FormatAsked
<1>6. CASE \E n \in Names : Commit(n) BY <1>6, CommitHolds
<1>7. CASE UNCHANGED boot_vars BY <1>7, BootStutters
<1> QED
  BY <1>1, <1>2, <1>3, <1>4, <1>5, <1>6, <1>7, DevicesFound, FormatHolds, FsckHolds, SelfTestHolds,
     TestFilesHolds, RootMounted, ProgramUnlinked, ProgramWritten, CriticalMounted, ServicesStarted,
     WriteHomeHolds, PowerFailsHolds
     DEF BootNext

\* The disk and the root over any number of boots, on any machine and with any disk
\* that is empty or was formatted to the end, wherever the power fails and whatever
\* the firmware does: what was stored is on the disk, the root shows what the disk
\* holds, and a system that runs has a root with the programs in it, on the disk if
\* there is one that is large enough; each with the exceptions that RootTrue names.
THEOREM RootKept == BootSpec => []RootTrue
<1>1. BootInit => BootInv BY BootStarts, BootAssumption
<1>2. BootInv /\ [BootNext]_boot_vars => BootInv' BY BootKept, BootAssumption
<1>3. BootInv => RootTrue
  <2> SUFFICES ASSUME BootInv PROVE RootTrue OBVIOUS
  <2> USE DEF BootInv
  <2>1. StoredKept BY DEF StoredKept, DiskHeld
  <2>2. RootSeesDisk BY DEF RootSeesDisk, RootHeld, Mounted
  <2>3. RootThere
    <3> SUFFICES ASSUME at = "up", ~past.short PROVE RootThere BY DEF RootThere
    <3>1. HasRoot /\ (RootUsable => "prog" \in view) /\ (Sound => OnDisk) BY DEF RootHeld, Mounted
    <3>2. Sound => disk.super = "ok" /\ disk.root BY <3>1 DEF RootHeld, Mounted, DiskHeld, Sound
    <3> QED BY <3>1, <3>2 DEF RootThere, Sound
  <2> QED BY <2>1, <2>2, <2>3 DEF RootTrue
<1> QED BY <1>1, <1>2, <1>3, PTL DEF BootSpec

-----------------------------------------------------------------------------
(* The memory that a boot hands over *)

(* The second inductive invariant: until the hand-over, what boot_info calls  *)
(* usable is none of the loader's or of the running firmware's; from then on  *)
(* the pool and the pages that the two devices were told of are apart from    *)
(* each other and from what was sealed.                                       *)

Devices(n) == [status : {"reset", "driver", "failed", "ok"}, queue : [1 .. n -> Nat], bufs : Nat]
BeforeKernel == {"read", "load", "map", "exit", "again", "last"}

InfoWhole == bi = [map |-> bi.map, end |-> bi.end] /\ bi.end \in Nat

MemoryTypes ==
    /\ pool \subseteq Ram
    /\ nic \in Devices(2) /\ vblk \in Devices(1)
    /\ fw \in [Ram -> PageTypes] /\ InfoWhole

\* What the map that the kernel gets says of the firmware's.
MapHolds ==
    /\ at \in {"read", "load", "map"} => DOMAIN bi.map = {}
    /\ at \in BeforeKernel =>
         /\ sealed = {}
         /\ Settles => \A p \in DOMAIN bi.map \cap Ram :
              bi.map[p] \in {"free", "boot"} => fw[p] \in {"free", "boot"}
    /\ DOMAIN bi.map \subseteq Ram
    /\ at = "kernel" /\ Settles => UsablePages \cap sealed = {}

Unused ==
    /\ at \in BeforeKernel \cup {"kernel"} => pool = {}
    /\ at \in BeforeKernel \cup {"kernel", "net"} => nic = Reset(2)
    /\ at \in Early => vblk = Reset(1) /\ devices = << >>

Apart ==
    /\ Settles => pool \cap sealed = {} /\ PagesOf(nic) \cap sealed = {} /\ PagesOf(vblk) \cap sealed = {}
    /\ pool \cap PagesOf(nic) = {} /\ pool \cap PagesOf(vblk) = {}
    /\ PagesOf(nic) \cap PagesOf(vblk) = {}

Attached ==
    /\ "eth0" \in ToSet(ifaces) => nic.status = "ok" /\ AllReady(nic)
    /\ DiskReady => vblk.status = "ok" /\ AllReady(vblk)

MemoryInv == MemoryTypes /\ MapHolds /\ Unused /\ Apart /\ Attached

\* A device that was not told of anything has no pages.
LEMMA ResetHasNothing ==
    ASSUME NEW n \in {1, 2}
    PROVE  Reset(n) \in Devices(n) /\ PagesOf(Reset(n)) = {}
<1>1. Reset(n) \in Devices(n) BY DEF Reset, Devices
<1>2. PagesOf(Reset(n)) = {} BY DEF Reset, PagesOf
<1> QED BY <1>1, <1>2

LEMMA NothingYet ==
    ASSUME BootAssumption, at = "read", bi = [map |-> << >>, end |-> 0], pool = {}, sealed = {}, fw \in FirmwareMaps,
           nic = Reset(2), vblk = Reset(1), ifaces = << >>, devices = << >>
    PROVE  MemoryInv
<1>1. nic \in Devices(2) /\ vblk \in Devices(1) /\ PagesOf(nic) = {} /\ PagesOf(vblk) = {}
  BY ResetHasNothing
<1>2. MemoryTypes BY <1>1 DEF MemoryTypes, InfoWhole, BootAssumption
<1>3. MapHolds BY DEF MapHolds
<1>4. Unused /\ Apart BY <1>1 DEF Unused, Apart
<1>5. Attached BY DEF Attached, DiskReady, ToSet
<1> QED BY <1>2, <1>3, <1>4, <1>5 DEF MemoryInv

\* The loader's steps, of which the firmware's comes between any two.
LEMMA LoaderMemory ==
    ASSUME MemoryInv, at \in BeforeKernel, at' \in BeforeKernel \cup {"halted"}, UNCHANGED <<sealed, probe_vars>>,
           fw' \in [Ram -> PageTypes], InfoWhole', MapHolds'
    PROVE  MemoryInv'
<1> USE DEF MemoryInv, probe_vars
<1>1. MemoryTypes' BY DEF MemoryTypes
<1>2. Unused' BY DEF Unused, BeforeKernel, Early
<1>3. Apart'
  <2>1. PagesOf(nic)' = PagesOf(nic) /\ PagesOf(vblk)' = PagesOf(vblk) BY DEF PagesOf
  <2> QED BY <2>1 DEF Apart
<1>4. Attached' BY DEF Attached, DiskReady, AllReady
<1> QED BY <1>1, <1>2, <1>3, <1>4

LEMMA FirmwareMemory == ASSUME BootAssumption, MemoryInv, Firmware PROVE MemoryInv'
<1> USE DEF MemoryInv
<1>1. /\ at' = at /\ at \in BeforeKernel /\ UNCHANGED <<bi, sealed, probe_vars>>
      /\ fw \in [Ram -> PageTypes] /\ InfoWhole
  BY DEF Firmware, BeforeExit, BeforeKernel, MemoryTypes
<1>2. PICK p \in FirmwareTakes, type \in {"free", "boot", "runtime"} :
        /\ Settles /\ at \notin {"read", "load", "map"} => type # "runtime"
        /\ fw' = [fw EXCEPT ![p] = type]
  BY DEF Firmware
<1>3. fw' \in [Ram -> PageTypes] BY <1>1, <1>2 DEF PageTypes
<1>4. MapHolds'
  <2>1. ASSUME Settles, at \notin {"read", "load", "map"}, NEW q \in DOMAIN bi.map \cap Ram, bi.map[q] \in {"free", "boot"}
        PROVE  fw'[q] \in {"free", "boot"}
    BY <1>1, <1>2, <2>1 DEF MapHolds
  <2>2. Settles => \A q \in DOMAIN bi.map \cap Ram : bi.map[q] \in {"free", "boot"} => fw'[q] \in {"free", "boot"}
    BY <2>1 DEF MapHolds
  <2> QED BY <1>1, <2>2 DEF MapHolds, BeforeKernel
<1>5. InfoWhole' BY <1>1 DEF InfoWhole
<1> QED BY <1>1, <1>3, <1>4, <1>5, LoaderMemory

LEMMA ReadMemory ==
    ASSUME BootAssumption, MemoryInv, ReadKernel \/ LoadKernel \/ ReadMap \/ ReadMapAgain
    PROVE  MemoryInv'
<1> USE DEF MemoryInv
<1>1. /\ at \in BeforeKernel /\ at' \in BeforeKernel \cup {"halted"} /\ UNCHANGED <<sealed, probe_vars>>
      /\ fw \in [Ram -> PageTypes] /\ InfoWhole
  BY DEF ReadKernel, LoadKernel, ReadMap, ReadMapAgain, From, BeforeKernel, MemoryTypes
<1>2. CASE ReadKernel
  <2>1. at = "read" /\ at' \in {"load", "halted"} /\ bi' = bi BY <1>2 DEF ReadKernel, From
  <2>2. fw' \in [Ram -> PageTypes]
    <3>1. CASE UNCHANGED fw BY <1>1, <3>1
    <3>2. CASE \E p \in FirmwareTakes : fw[p] = "free" /\ fw' = [fw EXCEPT ![p] = "loader"]
      BY <1>1, <3>2 DEF PageTypes
    <3> QED BY <1>2, <3>1, <3>2 DEF ReadKernel
  <2>3. MapHolds' BY <1>1, <2>1 DEF MapHolds, BeforeKernel
  <2>4. InfoWhole' BY <1>1, <2>1 DEF InfoWhole
  <2> QED BY <1>1, <2>1, <2>2, <2>3, <2>4, LoaderMemory
<1>3. CASE LoadKernel
  <2>1. at = "load" /\ at' \in {"map", "halted"} /\ fw' = fw BY <1>3 DEF LoadKernel, From
  <2>2. bi' = bi \/ \E e \in ReportedEnds : bi' = [bi EXCEPT !.end = e] BY <1>3 DEF LoadKernel
  <2>3. InfoWhole' /\ bi'.map = bi.map
    <3>1. CASE bi' = bi BY <1>1, <3>1 DEF InfoWhole
    <3>2. CASE \E e \in ReportedEnds : bi' = [bi EXCEPT !.end = e]
      <4>1. PICK e \in Nat : bi' = [bi EXCEPT !.end = e] BY <3>2 DEF BootAssumption
      <4>2. bi' = [map |-> bi.map, end |-> e] BY <1>1, <4>1 DEF InfoWhole
      <4> QED BY <4>2 DEF InfoWhole
    <3> QED BY <2>2, <3>1, <3>2
  <2>4. MapHolds' BY <1>1, <2>1, <2>3 DEF MapHolds, BeforeKernel
  <2> QED BY <1>1, <2>1, <2>3, <2>4, LoaderMemory
<1>4. CASE ReadMap
  <2>1. at = "map" /\ at' \in {"exit", "halted"} /\ fw' = fw BY <1>4 DEF ReadMap, From
  <2> DEFINE R == { q \in Ram : q <= OB_MAX_MEMORY_MAP_ENTRIES }
             M == [p \in R |-> fw[p]]
  <2>2. (bi' = bi /\ at' = "halted") \/ (bi' = [bi EXCEPT !.map = M] /\ at' = "exit")
    BY <1>4, <2>1 DEF ReadMap, From
  <2>3. CASE bi' = bi /\ at' = "halted"
    <3>1. MapHolds' BY <1>1, <2>3 DEF MapHolds, BeforeKernel
    <3>2. InfoWhole' BY <1>1, <2>3 DEF InfoWhole
    <3> QED BY <1>1, <2>1, <2>3, <3>1, <3>2, LoaderMemory
  <2>4. CASE bi' = [bi EXCEPT !.map = M] /\ at' = "exit"
    <3>1. bi' = [map |-> M, end |-> bi.end] BY <1>1, <2>4 DEF InfoWhole
    <3>2. DOMAIN bi'.map \subseteq Ram /\ \A p \in DOMAIN bi'.map : bi'.map[p] = fw[p] BY <3>1
    <3>3. InfoWhole' BY <1>1, <3>1 DEF InfoWhole
    <3>4. sealed = {} BY <1>1 DEF MapHolds
    <3>5. MapHolds' BY <1>1, <2>1, <2>4, <3>2, <3>4 DEF MapHolds, BeforeKernel
    <3>6. fw' \in [Ram -> PageTypes] BY <1>1, <2>1
    <3> QED BY <1>1, <3>3, <3>5, <3>6, LoaderMemory
  <2> QED BY <2>2, <2>3, <2>4
<1>5. CASE ReadMapAgain
  <2>1. at = "again" /\ at' \in {"last", "halted"} /\ UNCHANGED <<fw, bi>> BY <1>5 DEF ReadMapAgain, From
  <2>2. MapHolds' BY <1>1, <2>1 DEF MapHolds, BeforeKernel
  <2>3. InfoWhole' BY <1>1, <2>1 DEF InfoWhole
  <2> QED BY <1>1, <2>1, <2>2, <2>3, LoaderMemory
<1> QED BY <1>2, <1>3, <1>4, <1>5

\* What the map calls usable is none of the image, the loader or the firmware.
LEMMA HandOver == ASSUME BootAssumption, MemoryInv, ExitBootServices PROVE MemoryInv'
<1> USE DEF MemoryInv
<1>1. /\ at \in {"exit", "last"} /\ at' \in {"kernel", "again", "halted"} /\ UNCHANGED <<fw, bi, probe_vars>>
      /\ fw \in [Ram -> PageTypes] /\ InfoWhole
  BY DEF ExitBootServices, From, MemoryTypes
<1>2. at \in BeforeKernel BY <1>1 DEF BeforeKernel
<1>3. InfoWhole' BY <1>1 DEF InfoWhole
<1>4. CASE at' # "kernel"
  <2>1. sealed' = sealed BY <1>4 DEF ExitBootServices
  <2>2. MapHolds' BY <1>1, <1>2, <1>4, <2>1 DEF MapHolds, BeforeKernel
  <2>3. at' \in BeforeKernel \cup {"halted"} BY <1>1, <1>4 DEF BeforeKernel
  <2> QED BY <1>1, <1>2, <1>3, <2>1, <2>2, <2>3, LoaderMemory
<1>5. CASE at' = "kernel"
  <2>1. sealed' = KernelImage \cup { p \in Ram : fw[p] \in {"loader", "runtime"} }
    BY <1>5 DEF ExitBootServices
  <2>2. ASSUME Settles, NEW p \in UsablePages PROVE p \notin sealed'
    <3>1. p \in DOMAIN bi.map /\ p \in Ram /\ bi.map[p] \in {"free", "boot"}
      BY DEF UsablePages, MapHolds
    <3>2. fw[p] \in {"free", "boot"} BY <1>2, <2>2, <3>1 DEF MapHolds
    <3>3. p \notin KernelImage
      <4>1. bi.end \in Nat /\ OB_KERNEL_LMA \in Nat /\ MIN_KERNEL_END \in Nat
        BY <1>1 DEF InfoWhole, BootAssumption
      <4>2. KernelRangeEnd(bi.end) \in Nat /\ MIN_KERNEL_END <= KernelRangeEnd(bi.end)
        BY <4>1 DEF KernelRangeEnd
      <4>3. p \notin OB_KERNEL_LMA .. KernelRangeEnd(bi.end) - 1 BY DEF UsablePages
      <4>4. KernelImage \subseteq OB_KERNEL_LMA .. MIN_KERNEL_END - 1 BY DEF BootAssumption
      <4>5. ASSUME p \in OB_KERNEL_LMA .. MIN_KERNEL_END - 1 PROVE FALSE
        <5>1. p \in Int /\ OB_KERNEL_LMA <= p /\ p <= MIN_KERNEL_END - 1 BY <4>1, <4>5
        <5>2. p <= KernelRangeEnd(bi.end) - 1 BY <4>1, <4>2, <5>1
        <5> QED BY <4>1, <4>2, <4>3, <5>1, <5>2
      <4> QED BY <4>4, <4>5
    <3> QED BY <2>1, <3>2, <3>3
  <2>3. UsablePages' = UsablePages BY <1>1 DEF UsablePages
  <2>4. MapHolds'
    <3>1. Settles => UsablePages' \cap sealed' = {} BY <2>2, <2>3
    <3> QED BY <1>1, <1>5, <3>1 DEF MapHolds, BeforeKernel
  <2>5. MemoryTypes' BY <1>1, <1>3 DEF MemoryTypes, probe_vars
  <2>6. pool = {} /\ nic = Reset(2) /\ vblk = Reset(1) /\ devices = << >>
    BY <1>2 DEF Unused, BeforeKernel, Early
  <2>7. pool' = {} /\ nic' = Reset(2) /\ vblk' = Reset(1) /\ devices' = << >> /\ ifaces' = ifaces
    BY <1>1, <2>6 DEF probe_vars
  <2>8. PagesOf(nic') = {} /\ PagesOf(vblk') = {} BY <2>7, ResetHasNothing
  <2>9. Unused' /\ Apart' BY <2>7, <2>8 DEF Unused, Apart
  <2>10. Attached' BY <1>1 DEF Attached, DiskReady, AllReady, probe_vars
  <2> QED BY <2>4, <2>5, <2>9, <2>10
<1> QED BY <1>4, <1>5

LEMMA KernelMemory == ASSUME BootAssumption, MemoryInv, StartKernel PROVE MemoryInv'
<1> USE DEF MemoryInv
<1>1. /\ at = "kernel" /\ at' \in {"net", "halted"} /\ pool' = UsablePages
      /\ UNCHANGED <<nic, vblk, ifaces, devices, fw, bi, sealed>>
  BY DEF StartKernel, loader_side
<1>2. nic = Reset(2) /\ vblk = Reset(1) /\ devices = << >> BY <1>1 DEF Unused, Early
<1>3. PagesOf(nic') = {} /\ PagesOf(vblk') = {} BY <1>1, <1>2, ResetHasNothing
<1>4. (Settles => UsablePages \cap sealed = {}) /\ UsablePages \subseteq Ram BY <1>1 DEF MapHolds, UsablePages
<1>5. InfoWhole' BY <1>1 DEF InfoWhole, MemoryTypes
<1>6. MemoryTypes' BY <1>1, <1>4, <1>5 DEF MemoryTypes
<1>7. MapHolds' BY <1>1 DEF MapHolds, BeforeKernel
<1>8. Unused' /\ Apart' BY <1>1, <1>2, <1>3, <1>4 DEF Unused, Apart, BeforeKernel, Early
<1>9. Attached' BY <1>1 DEF Attached, DiskReady, AllReady
<1> QED BY <1>6, <1>7, <1>8, <1>9

\* What a probe is given comes from the pool, and a device knows nothing else.
LEMMA ProbedHolds ==
    ASSUME MemoryTypes, NEW n \in {1, 2}, NEW g \in Grants(n), NEW f, NEW go \in BOOLEAN,
           NEW dev, dev.queue = Queues(f, go, g), dev.bufs \in {0, g[0]}
    PROVE  /\ dev.queue \in [1 .. n -> Nat] /\ dev.bufs \in Nat
           /\ PagesOf(dev) \subseteq pool
<1>1. g \in [0 .. n -> pool \cup {0}] BY DEF Grants
<1>2. pool \cup {0} \subseteq Nat BY ProbeAssumption DEF MemoryTypes, ProbeAssumption
<1>3. dev.queue = [i \in 1 .. n |-> IF go /\ f.nums[i] # 0 THEN g[i] ELSE 0]
  <2>1. DOMAIN g \ {0} = 1 .. n BY <1>1
  <2> QED BY <2>1 DEF Queues
<1>4. \A i \in 1 .. n : dev.queue[i] \in pool \cup {0} BY <1>1, <1>3
<1>5. dev.bufs \in pool \cup {0} BY <1>1
<1>6. PagesOf(dev) \subseteq pool BY <1>3, <1>4, <1>5 DEF PagesOf
<1>7. dev.queue \in [1 .. n -> Nat] BY <1>2, <1>3, <1>4
<1> QED BY <1>2, <1>5, <1>6, <1>7

LEMMA CardProbed == ASSUME BootAssumption, MemoryInv, StartNet PROVE MemoryInv'
<1> USE DEF MemoryInv
<1>1. /\ at = "net" /\ at' = "block" /\ UNCHANGED <<vblk, devices, fw, bi, sealed>>
      /\ pool' = pool \ PagesOf(nic') /\ MemoryTypes
      /\ ifaces' = IF nic'.status = "ok" THEN <<"lo", "eth0">> ELSE <<"lo">>
  BY DEF StartNet, From, loader_side, virtio_net_init, Kept
<1>2. nic = Reset(2) /\ vblk = Reset(1) /\ devices = << >> BY <1>1 DEF Unused, Early
<1>3. /\ nic' \in Devices(2) /\ PagesOf(nic') \subseteq pool
      /\ nic'.status = "ok" => AllReady(nic')
  <2>1. CASE UNCHANGED nic BY <1>2, <2>1, ResetHasNothing DEF Reset
  <2>2. CASE \E g \in Grants(2) : nic' = ProbedNet(pci_find_device(bus, Virtio), g)
    <3> DEFINE f == pci_find_device(bus, Virtio)
    <3>1. PICK g \in Grants(2) : nic' = ProbedNet(f, g) BY <2>2
    <3> HIDE DEF f
    <3> DEFINE go == g[0] # 0 /\ ~f.failed
               dev == [status |-> "driver", queue |-> Queues(f, go, g), bufs |-> g[0]]
               status == IF g[0] = 0 THEN "reset"
                         ELSE IF f.failed THEN "failed"
                         ELSE IF NetReady(dev) THEN "ok" ELSE "driver"
    <3>2. nic' = [dev EXCEPT !.status = status] BY <3>1 DEF ProbedNet
    <3>3. nic' = [status |-> status, queue |-> Queues(f, go, g), bufs |-> g[0]] BY <3>2
    <3>4. status \in {"reset", "driver", "failed", "ok"} /\ (status = "ok" => AllReady(dev)) BY DEF NetReady
    <3>5. go \in BOOLEAN OBVIOUS
    <3>6. nic'.queue = Queues(f, go, g) /\ nic'.bufs = g[0] /\ nic'.status = status BY <3>3
    <3>7. AllReady(dev) => AllReady(nic') BY <3>6 DEF AllReady
    <3> HIDE DEF go, status, dev
    <3>8. nic'.queue \in [1 .. 2 -> Nat] /\ nic'.bufs \in Nat /\ PagesOf(nic') \subseteq pool
      BY <1>1, <3>5, <3>6, ProbedHolds
    <3>9. nic' \in Devices(2) BY <3>3, <3>4, <3>6, <3>8 DEF Devices
    <3> QED BY <3>4, <3>6, <3>7, <3>8, <3>9
  <2> QED BY <2>1, <2>2 DEF StartNet, virtio_net_init
<1>4. InfoWhole' BY <1>1 DEF InfoWhole, MemoryTypes
<1>5. MemoryTypes' BY <1>1, <1>3, <1>4 DEF MemoryTypes
<1>6. MapHolds' BY <1>1 DEF MapHolds, BeforeKernel
<1>7. Unused' BY <1>1, <1>2 DEF Unused, BeforeKernel
<1>8. PagesOf(vblk') = {} BY <1>1, <1>2, ResetHasNothing
<1>9. Apart' BY <1>1, <1>3, <1>8 DEF Apart
<1>10. Attached' BY <1>1, <1>2, <1>3 DEF Attached, DiskReady, ToSet
<1> QED BY <1>5, <1>6, <1>7, <1>9, <1>10

LEMMA DiskProbed == ASSUME BootAssumption, MemoryInv, StartBlock PROVE MemoryInv'
<1> USE DEF MemoryInv
<1>1. /\ at = "block" /\ at' \in {"check", "selftest"} /\ UNCHANGED <<nic, ifaces, fw, bi, sealed>>
      /\ pool' = pool \ PagesOf(vblk') /\ MemoryTypes
      /\ vblk'.status # "ok" => devices' = devices
  BY DEF StartBlock, loader_side, virtio_blk_init, Kept
<1>2. vblk = Reset(1) /\ devices = << >> BY <1>1 DEF Unused, Early
<1>3. /\ vblk' \in Devices(1) /\ PagesOf(vblk') \subseteq pool
      /\ vblk'.status = "ok" => AllReady(vblk')
  <2>1. CASE UNCHANGED vblk BY <1>2, <2>1, ResetHasNothing DEF Reset
  <2>2. CASE \E g \in Grants(1) : vblk' = ProbedDisk(DiskFunction, g)
    <3> DEFINE f == DiskFunction
    <3>1. PICK g \in Grants(1) : vblk' = ProbedDisk(f, g) BY <2>2
    <3> HIDE DEF f
    <3> DEFINE bufs == IF ~f.failed /\ f.sectors > 0 THEN g[0] ELSE 0
               go == bufs # 0
               dev == [status |-> "driver", queue |-> Queues(f, go, g), bufs |-> bufs]
               status == IF f.failed THEN "failed" ELSE IF AllReady(dev) THEN "ok" ELSE "driver"
    <3>2. vblk' = [dev EXCEPT !.status = status] BY <3>1 DEF ProbedDisk
    <3>3. vblk' = [status |-> status, queue |-> Queues(f, go, g), bufs |-> bufs] BY <3>2
    <3>4. status \in {"reset", "driver", "failed", "ok"} /\ (status = "ok" => AllReady(dev)) OBVIOUS
    <3>5. go \in BOOLEAN /\ bufs \in {0, g[0]} OBVIOUS
    <3>6. vblk'.queue = Queues(f, go, g) /\ vblk'.bufs = bufs /\ vblk'.status = status BY <3>3
    <3>7. AllReady(dev) => AllReady(vblk') BY <3>6 DEF AllReady
    <3> HIDE DEF go, bufs, status, dev
    <3>8. vblk'.queue \in [1 .. 1 -> Nat] /\ vblk'.bufs \in Nat /\ PagesOf(vblk') \subseteq pool
      BY <1>1, <3>5, <3>6, ProbedHolds
    <3>9. vblk' \in Devices(1) BY <3>3, <3>4, <3>6, <3>8 DEF Devices
    <3> QED BY <3>4, <3>6, <3>7, <3>8, <3>9
  <2> QED BY <2>1, <2>2 DEF StartBlock, virtio_blk_init
<1>4. InfoWhole' BY <1>1 DEF InfoWhole, MemoryTypes
<1>5. MemoryTypes' BY <1>1, <1>3, <1>4 DEF MemoryTypes
<1>6. MapHolds' BY <1>1 DEF MapHolds, BeforeKernel
<1>7. Unused' BY <1>1 DEF Unused, BeforeKernel, Early
<1>8. PagesOf(nic') = PagesOf(nic) BY <1>1
<1>9. Apart' BY <1>1, <1>3, <1>8 DEF Apart
<1>10. Attached'
  <2>1. DiskReady' => vblk'.status = "ok" BY <1>1, <1>2 DEF DiskReady, ToSet
  <2> QED BY <1>1, <1>3, <2>1 DEF Attached, AllReady
<1> QED BY <1>5, <1>6, <1>7, <1>9, <1>10

\* From the devices on nobody changes what they were told.
LEMMA KernelStepMemory == ASSUME MemoryInv, KernelStep, at' \notin Early PROVE MemoryInv'
<1> USE DEF MemoryInv
<1>1. UNCHANGED <<fw, bi, sealed, bus, pool, nic, vblk, ifaces, devices>>
  BY DEF KernelStep, loader_side, probe_vars
<1>2. InfoWhole' BY <1>1 DEF InfoWhole, MemoryTypes
<1>3. MemoryTypes' BY <1>1, <1>2 DEF MemoryTypes
<1>4. MapHolds' BY <1>1 DEF MapHolds, BeforeKernel, Early
<1>5. Unused' BY DEF Unused, BeforeKernel, Early
<1>6. PagesOf(nic') = PagesOf(nic) /\ PagesOf(vblk') = PagesOf(vblk) BY <1>1
<1>7. Apart' BY <1>1, <1>6 DEF Apart
<1>8. Attached' BY <1>1 DEF Attached, DiskReady, AllReady
<1> QED BY <1>3, <1>4, <1>5, <1>7, <1>8

LEMMA PowerFailsMemory == ASSUME BootAssumption, PowerFails PROVE MemoryInv'
<1>1. /\ at' = "read" /\ bi' = [map |-> << >>, end |-> 0] /\ pool' = {} /\ sealed' = {} /\ fw' \in FirmwareMaps
      /\ nic' = Reset(2) /\ vblk' = Reset(1) /\ ifaces' = << >> /\ devices' = << >>
  BY DEF PowerFails
<1>2. nic' \in Devices(2) /\ vblk' \in Devices(1) /\ PagesOf(nic') = {} /\ PagesOf(vblk') = {}
  BY <1>1, ResetHasNothing
<1>3. InfoWhole' BY <1>1 DEF InfoWhole
<1>4. MemoryTypes' BY <1>1, <1>2, <1>3 DEF MemoryTypes, BootAssumption
<1>5. MapHolds' BY <1>1 DEF MapHolds
<1>6. Unused' /\ Apart' BY <1>1, <1>2 DEF Unused, Apart
<1>7. Attached' BY <1>1 DEF Attached, DiskReady, ToSet
<1> QED BY <1>4, <1>5, <1>6, <1>7 DEF MemoryInv

LEMMA MemoryStutters == ASSUME MemoryInv, UNCHANGED boot_vars PROVE MemoryInv'
<1>1. UNCHANGED <<at, fw, bi, sealed, bus, pool, nic, vblk, ifaces, devices>> BY DEF boot_vars, probe_vars
<1>2. PagesOf(nic') = PagesOf(nic) /\ PagesOf(vblk') = PagesOf(vblk) /\ UsablePages' = UsablePages
  BY <1>1 DEF UsablePages
<1> QED
  BY <1>1, <1>2
     DEF MemoryInv, MemoryTypes, InfoWhole, MapHolds, Unused, Apart, Attached, DiskReady, AllReady

LEMMA MemoryInvKept ==
    ASSUME BootAssumption, BootInv, MemoryInv, [BootNext]_boot_vars
    PROVE  MemoryInv'
<1>1. CASE CheckFormat("check", "fsck", "fsck") \/ CheckFormat("test", "files", "root")
  BY <1>1, KernelStepMemory DEF CheckFormat, Early
<1>2. CASE FormatStep
  <2>1. at' \in {"format", "fsck", "files", "root"} BY <1>2 DEF FormatStep, BootInv, Formatting
  <2> QED BY <1>2, <2>1, KernelStepMemory DEF FormatStep, Early
<1>3. CASE Fsck \/ SelfTest \/ TestFiles
  BY <1>3, KernelStepMemory DEF Fsck, SelfTest, TestFiles, From, Early
<1>4. CASE MountRoot \/ UnlinkProgram \/ WriteProgram \/ MountCritical \/ StartServices
  BY <1>4, KernelStepMemory DEF MountRoot, UnlinkProgram, WriteProgram, MountCritical, StartServices, From, Early
<1>5. CASE (\E n \in Names : Commit(n)) \/ WriteHome
  BY <1>5, KernelStepMemory DEF Commit, WriteHome, Early
<1>6. CASE PowerFails BY <1>6, PowerFailsMemory
<1> QED
  BY <1>1, <1>2, <1>3, <1>4, <1>5, <1>6, FirmwareMemory, ReadMemory, HandOver, KernelMemory, CardProbed,
     DiskProbed, MemoryStutters
     DEF BootNext

LEMMA MemoryInvariant == BootSpec => []MemoryInv
<1>1. BootInit => BootInv /\ MemoryInv
  <2> SUFFICES ASSUME BootInit PROVE BootInv /\ MemoryInv OBVIOUS
  <2>1. MemoryInv BY BootAssumption, NothingYet DEF BootInit, PowerOn, Unprobed
  <2> QED BY <2>1, BootStarts, BootAssumption
<1>2. BootInv /\ MemoryInv /\ [BootNext]_boot_vars => (BootInv /\ MemoryInv)'
  BY BootKept, MemoryInvKept, BootAssumption
<1> QED BY <1>1, <1>2, PTL DEF BootSpec

LEMMA DevicesGives == MemoryInv => DevicesTrue
<1> SUFFICES ASSUME MemoryInv PROVE DevicesTrue OBVIOUS
<1>1. Reach(nic) \subseteq PagesOf(nic) /\ Reach(vblk) \subseteq PagesOf(vblk) BY DEF Reach
<1> QED BY <1>1 DEF MemoryInv, Apart, Attached, DevicesTrue

\* For any machine, any firmware, refused allocations and failing devices, in any
\* boot: the devices keep the pages they were told of, also after a probe that
\* failed, and an interface or a block device stands for a device with all its
\* queues (virtio_net_init, virtio_blk_init).
THEOREM DevicesKept == BootSpec => []DevicesTrue
BY MemoryInvariant, DevicesGives, PTL

\* And no page that the kernel hands out or that a device was told of is the kernel
\* image's, the loader's or the running firmware's, if the firmware takes no more
\* memory for its own runtime once it was asked to leave: the loader reads the
\* second map for its key only (efi_main, pmm_init).
THEOREM MemoryKept == Settles => (BootSpec => []BootMemoryKept)
<1> SUFFICES ASSUME Settles PROVE BootSpec => []BootMemoryKept OBVIOUS
<1>1. MemoryInv => BootMemoryKept
  BY DevicesGives DEF MemoryInv, Apart, BootMemoryKept
<1> QED BY <1>1, MemoryInvariant, PTL

=============================================================================
