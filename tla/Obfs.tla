-------------------------------- MODULE Obfs --------------------------------
(***************************************************************************)
(* What the blocks of OBFS-RW mean (obfs_rw.c): inodes with direct and     *)
(* indirect blocks, directory entries, the two bitmaps, and the handles    *)
(* that vfs_open gives out, each with a copy of its inode.  Journal says   *)
(* how an operation reaches the device; here an operation is one step, and *)
(* `log` keeps which blocks it gave to journal_add.  The state is what the *)
(* page cache shows: an operation that gives up leaves it changed.         *)
(***************************************************************************)
EXTENDS Integers, Sequences, FiniteSets, SequencesExt

CONSTANTS Inodes,       \* 0 .. inode_count - 1
          Names,
          data_block_start,
          total_blocks, \* blocks of the device
          Bits,         \* bits of the block bitmap, 32768 whatever the device
          NDIRECT,      \* 12 in the code
          NINDIR,       \* entries of an indirect block, 1024 in the code
          Slots,        \* entries of a directory block
          Handles,
          Writes,       \* bound: the ranges <<first, last>> of logical blocks
          MaxLinks,     \* bound: no more links are made to an inode
          Stale         \* whether a handle is used after its inode has changed

ASSUME ObfsAssumption ==
    /\ Inodes = 0 .. Cardinality(Inodes) - 1 /\ 0 \in Inodes
    /\ 0 < data_block_start /\ data_block_start < total_blocks /\ total_blocks <= Bits
    /\ {NDIRECT, NINDIR, Slots, MaxLinks} \subseteq Nat \ {0}
    /\ \A w \in Writes : w[1] \in Nat /\ w[2] < NDIRECT + NINDIR + NINDIR * NINDIR

VARIABLES
    bm,       \* the block bitmap: the numbers of the set bits
    ibm,      \* the inode bitmap
    inode,    \* the inode table
    dirents,  \* by block, its directory entries
    table,    \* by block, its entries as an indirect block
    handle,   \* by handle, its inode number and copy, or Closed
    log,      \* the last operation: whether it committed, and the blocks it logged
    failed    \* whether some operation has given up

\* What journal_add takes, as a block and what it holds.
Bitmap == <<"bm", 0>>
InodeBitmap == <<"ibm", 0>>
InodeOf(i) == <<"inode", i>>
Data(b) == <<"data", b>>

ovars == <<bm, ibm, inode, dirents, table, handle, log, failed>>

Blocks == data_block_start .. Bits - 1
OnDevice(b) == b < total_blocks
Top == 0 .. NDIRECT + 1     \* NDIRECT: indirect1, NDIRECT + 1: indirect2

NoPtr == [i \in Top |-> 0]
Zero == [type |-> "none", ptr |-> NoPtr, links |-> 0]
New(type) == [Zero EXCEPT !.type = type, !.links = 1]
Empty == [ino |-> 0, name |-> "none", type |-> "none"]
NoEntries == [i \in 1 .. Slots |-> Empty]
NoTable == [i \in 0 .. NINDIR - 1 |-> 0]
Closed == [ino |-> 0, copy |-> Zero]

\* obfs_format: the bits of the metadata are set, inode 0 is the root.
ObfsInit ==
    /\ bm = 0 .. data_block_start - 1
    /\ ibm = {0}
    /\ inode = [i \in Inodes |-> IF i = 0 THEN New("dir") ELSE Zero]
    /\ dirents = [b \in Blocks |-> NoEntries]
    /\ table = [b \in Blocks |-> NoTable]
    /\ handle = [h \in Handles |-> Closed]
    /\ log = [ok |-> TRUE, blocks |-> {}]
    /\ failed = FALSE

Done(blocks) == log' = [ok |-> TRUE, blocks |-> blocks] /\ UNCHANGED failed
GivesUp == log' = [ok |-> FALSE, blocks |-> {}] /\ failed' = TRUE

-----------------------------------------------------------------------------
(* Directories.  A block beyond the device cannot be read and is passed over. *)

Least(S) == CHOOSE x \in S : \A y \in S : x <= y

DirBlocks(d) == { b \in { inode[d].ptr[i] : i \in 0 .. NDIRECT - 1 } \ {0} : OnDevice(b) }
Entries(d) ==
    { e \in UNION { { dirents[b][i] : i \in 1 .. Slots } : b \in DirBlocks(d) } : e.ino # 0 }

\* vfs_lookup starts at the root: directories that a path leads to.
Subdirs(D) == { e.ino : e \in { x \in UNION { Entries(d) : d \in D } : x.type = "dir" } }
Walk[n \in Nat] == IF n = 0 THEN {0} ELSE Walk[n - 1] \cup Subdirs(Walk[n - 1])
Dirs == { d \in Walk[Cardinality(Inodes)] : inode[d].type = "dir" }

FreeInodes == Inodes \ ibm
FreeBits == Blocks \ bm

\* Mutant: the bit of the block is not set.
Marked_Not(bits, b) == bits

\* alloc_data_block
Marked(bits, b) ==
    bits \cup {b}

\* The places of d in the order in which dir_add_entry looks at them.
Places(d, ino) ==
    { <<i, k>> \in (0 .. NDIRECT - 1) \X (1 .. Slots) :
        LET b == inode[d].ptr[i] IN b # 0 /\ OnDevice(b) /\ dirents[b][k].ino = ino }
First(places) ==
    CHOOSE p \in places :
        \A q \in places : p[1] < q[1] \/ (p[1] = q[1] /\ p[2] <= q[2])

\* dir_add_entry with `taken` the bitmap so far and `inodes` the inode table so
\* far: in a free place, or in a new block, whose entry is lost when the block is
\* beyond the device.  add.rest is what the caller goes on with.
AddEntry(d, entry, taken, inodes) ==
    LET free == Places(d, 0)
        b    == Least(Blocks \ taken)
        slot == { i \in 0 .. NDIRECT - 1 : inode[d].ptr[i] = 0 }
        old  == inode[d].ptr[First(free)[1]]
    IN  IF free # {}
        THEN [ok |-> TRUE, bm |-> taken, inode |-> inodes,
              dirents |-> [dirents EXCEPT ![old][First(free)[2]] = entry],
              logged |-> {Data(old)}]
        ELSE IF Blocks \subseteq taken
        THEN [ok |-> FALSE, bm |-> taken, inode |-> inodes, dirents |-> dirents, logged |-> {}]
        ELSE IF slot = {}
        THEN [ok |-> FALSE, bm |-> Marked(taken, b), inode |-> inodes, dirents |-> dirents,
              logged |-> {}]
        ELSE [ok |-> TRUE, bm |-> Marked(taken, b),
              inode |-> [inodes EXCEPT ![d].ptr[Least(slot)] = b],
              dirents |-> [dirents EXCEPT ![b] = [NoEntries EXCEPT ![1] = entry]],
              logged |-> {Bitmap, Data(b)}]

\* The end of create, link and symlink: the entry, the inode of d, the commit.
EnterName(d, entry, taken, inodes, logged) ==
    LET add == AddEntry(d, entry, taken, inodes) IN
    /\ bm' = add.bm /\ inode' = add.inode /\ dirents' = add.dirents
    /\ IF add.ok THEN Done(logged \cup add.logged \cup {InodeOf(d)}) ELSE GivesUp

Unnamed(d, name) == \A e \in Entries(d) : e.name # name

\* rw_create_or_mkdir: an inode, then its name.
Create(d, name, type) ==
    /\ Unnamed(d, name)
    /\ IF FreeInodes = {} THEN GivesUp /\ UNCHANGED <<bm, ibm, inode, dirents>>
       ELSE LET ino == Least(FreeInodes) IN
            /\ ibm' = ibm \cup {ino}
            /\ EnterName(d, [ino |-> ino, name |-> name, type |-> type], bm,
                         [inode EXCEPT ![ino] = New(type)], {InodeBitmap, InodeOf(ino)})
    /\ UNCHANGED <<table, handle>>

\* obfs_rw_symlink: an inode, a block for the target, then the name.
obfs_rw_symlink(d, name) ==
    /\ Unnamed(d, name)
    /\ IF FreeInodes = {} THEN GivesUp /\ UNCHANGED <<bm, ibm, inode, dirents>>
       ELSE LET ino == Least(FreeInodes)
                b   == Least(FreeBits)
            IN  /\ ibm' = ibm \cup {ino}
                /\ IF FreeBits = {} THEN GivesUp /\ UNCHANGED <<bm, inode, dirents>>
                   ELSE EnterName(d, [ino |-> ino, name |-> name, type |-> "lnk"], Marked(bm, b),
                                  [inode EXCEPT ![ino] = [New("lnk") EXCEPT !.ptr[0] = b]],
                                  {Bitmap, InodeBitmap, Data(b), InodeOf(ino)})
    /\ UNCHANGED <<table, handle>>

-----------------------------------------------------------------------------
(* The blocks of a file: a path is a slot of the inode and up to two entries *)
(* of indirect blocks.                                                       *)

PathOf(l) ==
    LET k == l - NDIRECT
        m == k - NINDIR
    IN  IF l < NDIRECT THEN <<l>>
        ELSE IF k < NINDIR THEN <<NDIRECT, k>>
        ELSE <<NDIRECT + 1, m \div NINDIR, m % NINDIR>>

\* resolve_read: the block at a path of at most three steps, 0 if there is none.
Step(b, i, tables) == IF b = 0 \/ ~OnDevice(b) THEN 0 ELSE tables[b][i]
At(ptr, tables, path) ==
    FoldLeft(LAMBDA b, i : Step(b, i, tables), ptr[path[1]], Tail(path))

\* Mutant: the block that now points to the new one is not given to the journal.
GrowLogs_NoParent(path, b, parent, leaf) == {Bitmap} \cup (IF leaf THEN {} ELSE {Data(b)})

GrowLogs(path, b, parent, leaf) ==
    {Bitmap} \cup (IF leaf THEN {} ELSE {Data(b)}) \cup (IF Len(path) = 1 THEN {} ELSE {Data(parent)})

\* One step of resolve_write: if nothing is at `path`, a block; one that is an
\* indirect block (a proper prefix) is read, zeroed and logged.
Grow(s, path, leaf) ==
    LET b      == Least(Blocks \ s.bm)
        parent == At(s.ptr, s.table, Front(path))
        zeroed == IF leaf THEN s.table ELSE [s.table EXCEPT ![b] = NoTable]
    IN  IF ~s.ok \/ At(s.ptr, s.table, path) # 0 THEN s
        ELSE IF Blocks \subseteq s.bm THEN [s EXCEPT !.ok = FALSE]
        ELSE [bm     |-> Marked(s.bm, b),
              ok     |-> leaf \/ OnDevice(b),
              ptr    |-> IF Len(path) = 1 THEN [s.ptr EXCEPT ![path[1]] = b] ELSE s.ptr,
              table  |-> IF Len(path) = 1 THEN zeroed
                         ELSE [zeroed EXCEPT ![parent][Last(path)] = b],
              logged |-> s.logged \cup GrowLogs(path, b, parent, leaf)]

resolve_write(s, l) ==
    LET path == PathOf(l)
        full == FoldLeft(LAMBDA r, n : Grow(r, SubSeq(path, 1, n), n = Len(path)), s,
                         [n \in 1 .. Len(path) |-> n])
        b    == At(full.ptr, full.table, path)
    IN  IF ~full.ok \/ ~OnDevice(b) THEN [full EXCEPT !.ok = FALSE]
        ELSE [full EXCEPT !.logged = @ \cup {Data(b)}]

\* rw_write_range, through a handle: the blocks one after the other, then the
\* inode as the handle has it.  On the way out of a failure the handle and the
\* cached pages keep what was done.
Current(h) == handle[h].copy = inode[handle[h].ino] /\ handle[h].ino \in ibm
MayUse(h) == handle[h] # Closed /\ (Stale \/ Current(h))

rw_write(h, first, last) ==
    LET ino  == handle[h].ino
        copy == handle[h].copy
        s    == FoldLeft(resolve_write,
                         [bm |-> bm, ptr |-> copy.ptr, table |-> table, ok |-> TRUE,
                          logged |-> {InodeOf(ino)}],
                         [k \in 1 .. last - first + 1 |-> first + k - 1])
        new  == [copy EXCEPT !.ptr = s.ptr]
    IN  /\ MayUse(h) /\ copy.type = "reg"
        /\ bm' = s.bm /\ table' = s.table
        /\ handle' = [handle EXCEPT ![h].copy = new]
        /\ IF s.ok THEN Done(s.logged) /\ inode' = [inode EXCEPT ![ino] = new]
           ELSE GivesUp /\ UNCHANGED inode
        /\ UNCHANGED <<ibm, dirents>>

\* obfs_rw_link counts in the handle's copy, logs it, and enters the name.
obfs_rw_link(d, name, h) ==
    LET ino == handle[h].ino
        new == [handle[h].copy EXCEPT !.links = @ + 1]
    IN  /\ MayUse(h) /\ Unnamed(d, name) /\ new.links <= MaxLinks
        /\ handle' = [handle EXCEPT ![h].copy = new]
        /\ EnterName(d, [ino |-> ino, name |-> name, type |-> "reg"], bm,
                     [inode EXCEPT ![ino] = new], {InodeOf(ino)})
        /\ UNCHANGED <<ibm, table>>

vfs_open(d, name, h) ==
    /\ handle[h] = Closed
    /\ \E e \in Entries(d) :
         /\ e.name = name /\ inode[e.ino].type = "reg"
         /\ handle' = [handle EXCEPT ![h] = [ino |-> e.ino, copy |-> inode[e.ino]]]
    /\ UNCHANGED <<bm, ibm, inode, dirents, table, log, failed>>

vfs_close(h) ==
    /\ handle[h] # Closed
    /\ handle' = [handle EXCEPT ![h] = Closed]
    /\ UNCHANGED <<bm, ibm, inode, dirents, table, log, failed>>

-----------------------------------------------------------------------------
(* Removal *)

\* The blocks of an inode, its indirect blocks included.
TableOf(b) == { table[b][i] : i \in 0 .. NINDIR - 1 } \ {0}
Below(B) == UNION { TableOf(b) : b \in { x \in B \cap Blocks : OnDevice(x) } }
BlocksOf(ptr) ==
    LET one == { ptr[NDIRECT] } \ {0}
        two == { ptr[NDIRECT + 1] } \ {0}
    IN  ({ ptr[i] : i \in Top } \ {0}) \cup Below(one) \cup Below(two) \cup Below(Below(two))

\* free_inode_blocks clears the bit of each block, counted from data_block_start,
\* while the allocation counts from the start of the file system.
Cleared(blocks) == { b - data_block_start : b \in blocks }

\* Mutant: the last name is not told from the others.
LastName_Ignored(target) == TRUE

LastName(target) ==
    target.links <= 1

\* Mutant: the inode bitmap keeps the bit.
Unmarked_Kept(ino) == ibm

Unmarked(ino) ==
    ibm \ {ino}

\* rw_remove_entry finds the inode by the name and the entry by the inode.
rw_remove_entry(d, e, is_dir) ==
    LET ino    == e.ino
        target == inode[ino]
        place  == First(Places(d, ino))
        b      == inode[d].ptr[place[1]]
    IN  /\ e \in Entries(d)
        /\ is_dir <=> target.type = "dir"
        /\ target.type = "dir" => Entries(ino) = {}
        /\ dirents' = [dirents EXCEPT ![b][place[2]] = Empty]
        /\ IF LastName(target)
           THEN /\ bm' = bm \ Cleared(BlocksOf(target.ptr))
                /\ inode' = [inode EXCEPT ![ino] = Zero]
                /\ ibm' = Unmarked(ino)
                /\ Done({Data(b), Bitmap, InodeBitmap, InodeOf(d), InodeOf(ino)})
           ELSE /\ inode' = [inode EXCEPT ![ino].links = @ - 1]
                /\ Done({Data(b), InodeOf(d), InodeOf(ino)})
                /\ UNCHANGED <<bm, ibm>>
        /\ UNCHANGED <<table, handle>>

ObfsNext ==
    \/ \E d \in Dirs : \E name \in Names :
         \/ Create(d, name, "reg") \/ Create(d, name, "dir")
         \/ obfs_rw_symlink(d, name)
         \/ \E h \in Handles : obfs_rw_link(d, name, h) \/ vfs_open(d, name, h)
    \/ \E d \in Dirs : \E e \in Entries(d) : rw_remove_entry(d, e, FALSE) \/ rw_remove_entry(d, e, TRUE)
    \/ \E h \in Handles :
         \/ \E w \in Writes : rw_write(h, w[1], w[2])
         \/ vfs_close(h)

ObfsSpec == ObfsInit /\ [][ObfsNext]_ovars

-----------------------------------------------------------------------------
(* fsck_check walks the tree and compares it with the inode bitmap.  Its test *)
(* of the block bitmap has no place here: see Cleared.                       *)

SeenInodes == {0} \cup { e.ino : e \in UNION { Entries(d) : d \in Dirs } }
OrphanInodes == ibm \ SeenInodes
DeviceFull == \E b \in bm : ~OnDevice(b)

-----------------------------------------------------------------------------
(* Properties *)

\* An operation that commits has logged every block whose contents it changed,
\* through the nested helpers that change bitmaps, indirect blocks and inodes:
\* after a crash the replay gives all of it (resolve_write, dir_add_entry).
LogCoversChanges ==
    [][log' # log /\ log'.ok =>
        /\ bm' # bm => Bitmap \in log'.blocks
        /\ ibm' # ibm => InodeBitmap \in log'.blocks
        /\ \A i \in Inodes : inode'[i] # inode[i] => InodeOf(i) \in log'.blocks
        /\ \A b \in Blocks : dirents'[b] # dirents[b] \/ table'[b] # table[b]
                                => Data(b) \in log'.blocks]_ovars

\* No block belongs to two inodes, or twice to one, and each is marked in the
\* bitmap, whatever failed before and however old the handles are: what one file
\* writes is never what another reads (alloc_data_block, free_inode_blocks).
BlocksOwnedOnce ==
    /\ \A i \in ibm : BlocksOf(inode[i].ptr) \subseteq bm
    /\ \A i, j \in ibm : i # j => BlocksOf(inode[i].ptr) \cap BlocksOf(inode[j].ptr) = {}
    /\ \A i \in ibm : \A k, l \in Top :
           k # l /\ inode[i].ptr[k] # 0 => inode[i].ptr[k] # inode[i].ptr[l]

\* Every name leads to an inode in use of the type the entry says, and the link
\* count of a file is at least the number of its names: the removal of one name
\* never frees an inode that another still leads to.
NamesLive ==
    LET all == UNION { { <<d, e>> : e \in Entries(d) } : d \in Dirs } IN
    /\ \A n \in all : n[2].ino \in ibm /\ inode[n[2].ino].type = n[2].type
    /\ \A i \in ibm \ {0} : inode[i].links >= Cardinality({ n \in all : n[2].ino = i })

\* On a device with room, an inode bit without a name comes only from an
\* operation that gave up: what succeeds leaves the tree and the bitmaps as fsck
\* wants them.
FsckClean == NamesLive /\ (~failed /\ ~DeviceFull => OrphanInodes = {})
============================================================================
