------------------------------ MODULE Journal ------------------------------
(***************************************************************************)
(* Crash consistency of the writable file system: the journal              *)
(* (block/journal.c), the page cache (block/page_cache.c), and the way the *)
(* operations of block/obfs_rw.c use both: begin, update pages and log     *)
(* them, commit; mount recovers.                                           *)
(*                                                                         *)
(* Every block_write is a step, after which the machine may stop, and the  *)
(* device may refuse it.  Operations run one at a time (system calls run   *)
(* with interrupts off, the boot code before there are threads), so memory *)
(* is shared with nobody between begin and the end of commit.              *)
(*                                                                         *)
(* A block is a body and a tail, its last 16 bytes: an entry of the log is *)
(* a 16-byte head and a whole block, of which block_write writes one       *)
(* block's worth, so the tail never reaches the log.                       *)
(***************************************************************************)
EXTENDS Naturals, Sequences, FiniteSets

CONSTANTS
    Blocks,   \* blocks outside the log that operations update
    Bodies,   \* what the first 4080 bytes of a block may be
    Tails,    \* what its last 16 bytes may be
    Contents, \* whole blocks that operations write
    Blank,    \* a block that mkfs has zeroed
    MaxTxn,   \* JNL_MAX_TXN_BLOCKS
    Rooms,    \* entries the log may hold: journal_size - 1 of the images there are
    Extra,    \* bound: updates an operation may make beyond MaxTxn
    None

Data == [body : Bodies, tail : Tails]

ASSUME JournalAssumption ==
    /\ Contents \subseteq Data /\ Blank \in Contents
    /\ None \notin Data
    /\ MaxTxn \in Nat \ {0} /\ Extra \in Nat
    /\ Rooms \subseteq Nat \ {0}

VARIABLES
    disk,     \* device: the blocks at their home places
    hdr,      \* device: the journal header
    log,      \* device: the log, position -> [target, body]
    room,     \* device: journal_size - 1, from the superblock
    page,     \* page cache: block -> contents, None if the block is not cached
    dirty,    \* page cache: the dirty pages
    txn,      \* g_txn: entries[0 .. used - 1]
    active,   \* j->active
    pc,       \* where the file system code is, see Stages
    at,       \* the loop variable of journal_commit and journal_recover
    missed,   \* history: updates of the open operation that were not logged
    behind    \* history: blocks whose home the device has left behind

device == <<disk, hdr, log, room>>
cache == <<page, dirty>>
history == <<missed, behind>>
vars == <<disk, hdr, log, room, page, dirty, txn, active, pc, at, missed,
          behind>>

Stages == {"down",    \* the machine has stopped
           "idle",    \* mounted, no operation
           "open",    \* between journal_begin and journal_commit
           "log",     \* journal_commit writes the log
           "apply",   \* journal_commit writes home
           "replay"}  \* journal_recover writes home

Zeroed == [magic |-> FALSE, commit |-> 0, count |-> 0]
Header(commit, count) == [magic |-> TRUE, commit |-> commit, count |-> count]

\* A recovery of what is on the device would replay the log.
Committed == hdr.magic /\ hdr.commit = 1

Init ==
    /\ disk = [b \in Blocks |-> Blank]
    /\ hdr = Zeroed
    /\ log = << >>
    /\ room \in Rooms
    /\ page = [b \in Blocks |-> None]
    /\ dirty = {}
    /\ txn = << >>
    /\ active = FALSE
    /\ pc = "down"
    /\ at = 1
    /\ missed = 0
    /\ behind = {}

----------------------------------------------------------------------------
(* The page cache *)

Cached == {b \in Blocks : page[b] # None}

\* The page table after pcache_get(b).
pcache_get(b) == IF b \in Cached THEN page ELSE [page EXCEPT ![b] = disk[b]]

\* A read, by rw_read_range or by the checks that precede journal_begin.
Read(b) ==
    /\ pc = "idle"
    /\ page' = pcache_get(b)
    /\ UNCHANGED <<device, dirty, txn, active, pc, at, history>>

\* A miss on a block that is not modelled takes the slot of a clean page, whichever
\* is the oldest.  (With every slot dirty it fails, and with it the operation: Abort.)
pc_evict_locked(b) ==
    /\ pc \in {"idle", "open"}
    /\ b \in Cached \ dirty
    /\ page' = [page EXCEPT ![b] = None]
    /\ UNCHANGED <<device, dirty, txn, active, pc, at, history>>

\* pcache_writeback, and each turn of pcache_sync: the dirty bit is cleared before
\* the write, whatever becomes of it.
Writeback(b, ok) ==
    /\ pc = "idle"
    /\ b \in dirty
    /\ dirty' = dirty \ {b}
    /\ disk' = IF ok THEN [disk EXCEPT ![b] = page[b]] ELSE disk
    /\ behind' = IF ok /\ ~Committed THEN behind \ {b} ELSE behind \cup {b}
    /\ UNCHANGED <<hdr, log, room, page, txn, active, pc, at, missed>>

----------------------------------------------------------------------------
(* An operation: obfs_rw.c *)

journal_begin ==
    /\ pc = "idle"
    /\ ~active
    /\ txn' = << >>
    /\ active' = TRUE
    /\ pc' = "open"
    /\ UNCHANGED <<device, cache, at, history>>

\* Mutant: the transaction's array is taken to be long enough.
journal_add_Unbounded(b, d) ==
    /\ txn' = Append(txn, [target |-> b, data |-> d])
    /\ missed' = missed

\* journal_add copies the update into the transaction, or returns -ENOMEM.
journal_add(b, d) ==
    IF Len(txn) < MaxTxn
    THEN /\ txn' = Append(txn, [target |-> b, data |-> d])
         /\ missed' = missed
    ELSE /\ txn' = txn
         /\ missed < Extra
         /\ missed' = missed + 1

\* A bitmap, a directory block, an indirect block or a data block is changed in
\* the cache and logged; the callers ignore what journal_add returns.
Update(b, d) ==
    /\ pc = "open"
    /\ page' = [page EXCEPT ![b] = d]
    /\ dirty' = dirty \cup {b}
    /\ journal_add(b, d)
    /\ UNCHANGED <<device, active, pc, at, behind>>

\* rw_log_inode: the page is changed only if the update could be logged.
rw_log_inode(b, d) ==
    /\ pc = "open"
    /\ page' = IF Len(txn) < MaxTxn THEN [page EXCEPT ![b] = d] ELSE pcache_get(b)
    /\ dirty' = dirty \cup {b}
    /\ journal_add(b, d)
    /\ UNCHANGED <<device, active, pc, at, behind>>

\* The first block of a directory's extension or of a symbolic link is logged and
\* not cached; the directory code also drops the block's page.
LogFresh(b, d, drop) ==
    /\ pc = "open"
    /\ journal_add(b, d)
    /\ page' = IF drop THEN [page EXCEPT ![b] = None] ELSE page
    /\ dirty' = IF drop THEN dirty \ {b} ELSE dirty
    /\ UNCHANGED <<device, active, pc, at, behind>>

\* g_txn is given back; nothing reads what it holds before journal_begin clears it.
Release ==
    /\ active' = FALSE
    /\ pc' = "idle"
    /\ txn' = << >>
    /\ at' = 1
    /\ missed' = 0

\* An operation fails (no space, no such entry, a read error, a full cache).
Abort ==
    /\ pc = "open"
    /\ Release
    /\ UNCHANGED <<device, cache, behind>>

\* It fails after it has changed a bitmap in the cache and before it logged it.
AllocateAndAbort(b, d) ==
    /\ pc = "open"
    /\ page' = [page EXCEPT ![b] = d]
    /\ dirty' = dirty \cup {b}
    /\ Release
    /\ UNCHANGED <<device, behind>>

----------------------------------------------------------------------------
(* journal_commit *)

\* Mutant: the first header write is thought needless, because the last transaction
\* cleaned the header when it ended.
CommitBegin_NoHeader(ok) ==
    /\ pc = "open"
    /\ IF txn = << >>
       THEN Release
       ELSE pc' = "log" /\ UNCHANGED <<txn, active, at, missed>>
    /\ UNCHANGED <<device, cache, behind>>

\* The header of an uncommitted transaction; an empty transaction is dropped.
CommitBegin(ok) ==
    /\ pc = "open"
    /\ IF txn = << >> \/ ~ok
       THEN Release /\ hdr' = hdr
       ELSE /\ hdr' = Header(0, Len(txn))
            /\ pc' = "log"
            /\ UNCHANGED <<txn, active, at, missed>>
    /\ UNCHANGED <<disk, log, room, cache, behind>>

\* Mutant: the error return at the end of the region forgets journal_abort.
WriteEntry_NoAbort(ok) ==
    /\ pc = "log"
    /\ at <= Len(txn)
    /\ IF at > room \/ ~ok
       THEN /\ pc' = "idle" /\ txn' = << >> /\ at' = 1 /\ missed' = 0
            /\ UNCHANGED <<active, log>>
       ELSE /\ log' = [i \in DOMAIN log \cup {at} |->
                            IF i = at
                            THEN [target |-> txn[at].target, body |-> txn[at].data.body]
                            ELSE log[i]]
            /\ at' = at + 1
            /\ UNCHANGED <<txn, active, pc, missed>>
    /\ UNCHANGED <<disk, hdr, room, cache, behind>>

\* One entry of the log; the loop stops with an error at the end of the region.
WriteEntry(ok) ==
    /\ pc = "log"
    /\ at <= Len(txn)
    /\ IF at > room \/ ~ok
       THEN Release /\ log' = log
       ELSE /\ log' = [i \in DOMAIN log \cup {at} |->
                            IF i = at
                            THEN [target |-> txn[at].target, body |-> txn[at].data.body]
                            ELSE log[i]]
            /\ at' = at + 1
            /\ UNCHANGED <<txn, active, pc, missed>>
    /\ UNCHANGED <<disk, hdr, room, cache, behind>>

Targets(es) == {es[i].target : i \in DOMAIN es}

\* The commit mark.
WriteCommit(ok) ==
    /\ pc = "log"
    /\ at > Len(txn)
    /\ IF ~ok
       THEN Release /\ UNCHANGED <<hdr, behind>>
       ELSE /\ hdr' = Header(1, Len(txn))
            /\ pc' = "apply"
            /\ at' = 1
            /\ behind' = behind \ Targets(txn)
            /\ UNCHANGED <<txn, active, missed>>
    /\ UNCHANGED <<disk, log, room, cache>>

\* Mutant: the block's page is left in the cache.
Apply_KeepsPage(ok) ==
    /\ pc = "apply"
    /\ at <= Len(txn)
    /\ LET b == txn[at].target
       IN  /\ disk' = IF ok THEN [disk EXCEPT ![b] = txn[at].data] ELSE disk
           /\ behind' = IF ok THEN behind \ {b} ELSE behind \cup {b}
           /\ dirty' = dirty \ {b}
    /\ at' = at + 1
    /\ UNCHANGED <<hdr, log, room, page, txn, active, pc, missed>>

\* An entry is written home; the code does not look whether it was.
Apply(ok) ==
    /\ pc = "apply"
    /\ at <= Len(txn)
    /\ LET b == txn[at].target
       IN  /\ disk' = IF ok THEN [disk EXCEPT ![b] = txn[at].data] ELSE disk
           /\ behind' = IF ok THEN behind \ {b} ELSE behind \cup {b}
           /\ page' = [page EXCEPT ![b] = None]
           /\ dirty' = dirty \ {b}
    /\ at' = at + 1
    /\ UNCHANGED <<hdr, log, room, txn, active, pc, missed>>

\* The header is zeroed, or not, and the operation returns success.
CommitEnd(ok) ==
    /\ pc = "apply"
    /\ at > Len(txn)
    /\ hdr' = IF ok THEN Zeroed ELSE hdr
    /\ Release
    /\ UNCHANGED <<disk, log, room, cache, behind>>

----------------------------------------------------------------------------
(* Crash, mount and journal_recover *)

Crash ==
    /\ pc # "down"
    /\ page' = [b \in Blocks |-> None]
    /\ dirty' = {}
    /\ txn' = << >>
    /\ active' = FALSE
    /\ pc' = "down"
    /\ at' = 1
    /\ missed' = 0
    /\ UNCHANGED <<device, behind>>

Logged == {log[i].target : i \in 1 .. hdr.count}

\* obfs_rw_mount, after a start or over a file system in use.  It goes on whatever
\* journal_recover returns.
Mount(ok) ==
    /\ pc \in {"down", "idle"}
    /\ IF ~ok
       THEN /\ pc' = "idle"
            /\ behind' = IF Committed THEN behind \cup Logged ELSE behind
       ELSE /\ pc' = IF Committed THEN "replay" ELSE "idle"
            /\ behind' = behind
    /\ hdr' \in IF ok /\ hdr.magic /\ hdr.commit # 1 THEN {hdr, Zeroed} ELSE {hdr}
    /\ active' = FALSE
    /\ UNCHANGED <<disk, log, room, cache, txn, at, missed>>

\* An entry is read and written home; what follows the part that was logged is
\* what the recovering stack frame holds.
Replay(ok, t) ==
    /\ pc = "replay"
    /\ at <= hdr.count
    /\ LET b == log[at].target
       IN  IF ok
           THEN /\ disk' = [disk EXCEPT ![b] = [body |-> log[at].body, tail |-> t]]
                /\ page' = [page EXCEPT ![b] = None]
                /\ dirty' = dirty \ {b}
                /\ behind' = behind \ {b}
                /\ at' = at + 1
                /\ pc' = pc
           ELSE /\ behind' = behind \cup {log[i].target : i \in at .. hdr.count}
                /\ pc' = "idle"
                /\ at' = 1
                /\ UNCHANGED <<disk, cache>>
    /\ UNCHANGED <<hdr, log, room, txn, active, missed>>

RecoverEnd(ok) ==
    /\ pc = "replay"
    /\ at > hdr.count
    /\ hdr' = IF ok THEN Zeroed ELSE hdr
    /\ pc' = "idle"
    /\ at' = 1
    /\ UNCHANGED <<disk, log, room, cache, txn, active, history>>

----------------------------------------------------------------------------

Next ==
    \/ \E b \in Blocks : Read(b)
    \/ \E b \in Blocks : pc_evict_locked(b)
    \/ \E b \in Blocks, ok \in BOOLEAN : Writeback(b, ok)
    \/ journal_begin
    \/ \E b \in Blocks, d \in Contents : Update(b, d)
    \/ \E b \in Blocks, d \in Contents : rw_log_inode(b, d)
    \/ \E b \in Blocks, d \in Contents, drop \in BOOLEAN : LogFresh(b, d, drop)
    \/ Abort
    \/ \E b \in Blocks, d \in Contents : AllocateAndAbort(b, d)
    \/ \E ok \in BOOLEAN :
            \/ CommitBegin(ok) \/ WriteEntry(ok) \/ WriteCommit(ok)
            \/ Apply(ok) \/ CommitEnd(ok)
            \/ Mount(ok) \/ RecoverEnd(ok)
    \/ \E ok \in BOOLEAN, t \in Tails : Replay(ok, t)
    \/ Crash

Spec == Init /\ [][Next]_vars

----------------------------------------------------------------------------
(* Properties *)

\* The last of the first n entries of es for block b.
Last(es, n, b) ==
    CHOOSE i \in 1 .. n :
        es[i].target = b /\ \A j \in i + 1 .. n : es[j].target # b

\* What a recovery of the device, as it is, would leave in the bodies.
Durable ==
    [b \in Blocks |-> IF Committed /\ b \in Logged
                      THEN log[Last(log, hdr.count, b)].body
                      ELSE disk[b].body]

\* The updates the open operation has logged, the newest of each block.
Pending ==
    [b \in IF pc \in {"open", "log"} THEN Targets(txn) ELSE {} |->
        txn[Last(txn, Len(txn), b)].data.body]

\* Pages whose contents are in no committed transaction.
StrayPages == dirty \ (IF pc = "apply" THEN Targets(txn) ELSE {})

Home == [b \in Blocks |-> disk[b].body]
Stray == [b \in StrayPages |-> page[b].body]

\* The updates of the open operation, and those of the committed one, as pairs.
Logging ==
    IF pc \in {"open", "log"}
    THEN {<<txn[i].target, txn[i].data.body>> : i \in DOMAIN txn}
    ELSE {}
Settling ==
    IF Committed THEN {<<log[i].target, log[i].body>> : i \in 1 .. hdr.count} ELSE {}

Atomic == INSTANCE AtomicStore
    WITH Blank <- Blank.body, store <- Durable, home <- Home, txn <- Pending,
         logged <- Logging, settling <- Settling, stray <- Stray

\* The journal and the page cache implement the atomic store: whatever stops,
\* fails or is abandoned when, an operation's updates become durable all at once
\* and by its commit mark, and a block changes otherwise only for the reasons
\* AtomicStore names.
Implements == Atomic!Spec

\* Every variable has a value of its type.
TypeOK ==
    /\ disk \in [Blocks -> Data]
    /\ hdr \in [magic : BOOLEAN, commit : {0, 1}, count : 0 .. MaxTxn]
    /\ DOMAIN log \subseteq 1 .. room
    /\ \A i \in DOMAIN log : log[i] \in [target : Blocks, body : Bodies]
    /\ room \in Rooms
    /\ page \in [Blocks -> Data \cup {None}]
    /\ dirty \subseteq Cached
    /\ txn \in Seq([target : Blocks, data : Data]) /\ Len(txn) <= MaxTxn
    /\ active \in BOOLEAN
    /\ pc \in Stages
    /\ at \in 1 .. MaxTxn + 1
    /\ missed \in 0 .. Extra
    /\ behind \subseteq Blocks

\* Blocks whose committed update is still to be written home.
Unapplied ==
    CASE pc = "apply"  -> {txn[i].target : i \in at .. Len(txn)}
      [] pc = "replay" -> {log[i].target : i \in at .. hdr.count}
      [] OTHER -> {}

\* A clean page shows what is on the device, so dropping it loses nothing and
\* reading it is reading the file system, although commits and recoveries write
\* home past the cache.
CacheCoherent ==
    \A b \in (Cached \ dirty) \ (behind \cup Unapplied) : page[b] = disk[b]

\* The one transaction is given back whichever way an operation ends; were it
\* not, every later operation would fail with -EAGAIN.
TransactionReleased ==
    active <=> pc \in {"open", "log", "apply"}

\* A header that is marked committed counts only entries that are in the log, and
\* is gone before the log of the next transaction is written over them: cleaning
\* it may have failed.
LogBacksHeader ==
    Committed => /\ pc # "log"
                 /\ hdr.count > 0
                 /\ 1 .. hdr.count \subseteq DOMAIN log

\* What journal.c 6 takes for granted, an entry is 4 KB and one block of the log
\* holds it: a block then never holds what no operation wrote, replayed or not.
NoTornBlock == \A b \in Blocks : disk[b] \in Contents

============================================================================
