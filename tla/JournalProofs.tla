--------------------------- MODULE JournalProofs ---------------------------
(***************************************************************************)
(* For every set of blocks and contents, every length of the log and of a  *)
(* transaction: the journal's types, the safety of its header, the release *)
(* of its transaction and the coherence of the page cache; and that the    *)
(* journal and the cache implement the atomic store, Spec => Implements.   *)
(***************************************************************************)
EXTENDS Journal, WellFoundedInduction, TLAPS

Entry == [target : Blocks, data : Data]

\* Where the code is, and what it knows there of the log: a loop starts at 1; while
\* the log is written the entries before at are in it; nobody replays a log that
\* is not committed.
Placed ==
    /\ pc \in {"down", "idle", "open"} => at = 1
    /\ pc = "log" => txn # << >> /\ 1 .. at - 1 \subseteq DOMAIN log
    /\ pc = "replay" => Committed

IInv ==
    /\ TypeOK
    /\ Placed
    /\ LogBacksHeader
    /\ TransactionReleased
    /\ CacheCoherent

----------------------------------------------------------------------------

LEMMA DataFacts == None \notin Data /\ Contents \subseteq Data /\ Blank \in Data
BY JournalAssumption

LEMMA ZeroedType == Zeroed \in [magic : BOOLEAN, commit : {0, 1}, count : 0 .. MaxTxn]
<1>1. 0 \in 0 .. MaxTxn
    BY JournalAssumption
<1> QED
    BY <1>1 DEF Zeroed

LEMMA EntryAt ==
    ASSUME NEW es \in Seq(Entry), NEW i \in 1 .. Len(es) PROVE es[i] \in Entry
OBVIOUS

\* What the end of an operation keeps, whatever led to it.
LEMMA ReleaseTypes ==
    ASSUME TypeOK, Release
    PROVE  /\ txn' \in Seq(Entry) /\ Len(txn') <= MaxTxn
           /\ active' \in BOOLEAN /\ pc' \in Stages
           /\ at' \in 1 .. MaxTxn + 1 /\ missed' \in 0 .. Extra
           /\ pc' = "idle" /\ at' = 1 /\ ~active'
<1>1. << >> \in Seq(Entry) /\ Len(<< >>) = 0
    BY SMT
<1>2. 1 \in 1 .. MaxTxn + 1 /\ 0 <= MaxTxn /\ 0 \in 0 .. Extra
    BY JournalAssumption
<1> QED
    BY <1>1, <1>2 DEF Release, Stages

\* journal_add keeps the transaction within its array.
LEMMA journal_addTypes ==
    ASSUME TypeOK, NEW b \in Blocks, NEW d \in Contents, journal_add(b, d)
    PROVE  /\ txn' \in Seq(Entry) /\ Len(txn') <= MaxTxn
           /\ missed' \in 0 .. Extra
<1> USE JournalAssumption
<1>1. [target |-> b, data |-> d] \in Entry
    BY DataFacts DEF Entry
<1>2. txn \in Seq(Entry) /\ Len(txn) <= MaxTxn /\ missed \in 0 .. Extra
    BY DEF TypeOK, Entry
<1>3. CASE Len(txn) < MaxTxn
    BY <1>1, <1>2, <1>3 DEF journal_add
<1>4. CASE ~(Len(txn) < MaxTxn)
    BY <1>2, <1>4 DEF journal_add
<1> QED
    BY <1>3, <1>4

LEMMA InitIInv == Init => IInv
<1> SUFFICES ASSUME Init PROVE IInv
    OBVIOUS
<1> USE JournalAssumption, DataFacts
<1>1. TypeOK
    <2>1. /\ disk \in [Blocks -> Data] /\ page \in [Blocks -> Data \cup {None}]
          /\ dirty \subseteq Cached
        BY DEF Init
    <2>2. hdr \in [magic : BOOLEAN, commit : {0, 1}, count : 0 .. MaxTxn]
        BY DEF Init, Zeroed
    <2>3. DOMAIN log = {}
        BY DEF Init
    <2>4. << >> \in Seq([target : Blocks, data : Data]) /\ Len(<< >>) = 0
        BY SMT
    <2>5. 1 \in 1 .. MaxTxn + 1 /\ 0 <= MaxTxn /\ 0 \in 0 .. Extra
        OBVIOUS
    <2> QED
        BY <2>1, <2>2, <2>3, <2>4, <2>5 DEF Init, TypeOK, Stages
<1>2. Placed /\ LogBacksHeader /\ TransactionReleased /\ CacheCoherent
    BY DEF Init, Placed, LogBacksHeader, TransactionReleased, CacheCoherent, Committed,
           Zeroed, Cached
<1> QED
    BY <1>1, <1>2 DEF IInv

----------------------------------------------------------------------------
(* The page cache's own steps *)

LEMMA ReadIInv == ASSUME IInv, NEW b \in Blocks, Read(b) PROVE IInv'
<1> USE JournalAssumption, DataFacts DEF IInv
<1>1. /\ page' \in [Blocks -> Data \cup {None}]
      /\ \A c \in Blocks : page'[c] = IF page[c] = None /\ c = b THEN disk[c] ELSE page[c]
    BY DEF Read, pcache_get, TypeOK, Cached
<1>2. \A c \in Blocks : disk[c] # None
    BY DEF TypeOK
<1>3. TypeOK'
    BY <1>1, <1>2 DEF Read, TypeOK, Cached, device, history
<1>4. Placed' /\ LogBacksHeader' /\ TransactionReleased'
    BY DEF Read, Placed, LogBacksHeader, TransactionReleased, Committed, device, history
<1>5. CacheCoherent'
    <2>1. Unapplied' = Unapplied
        BY DEF Read, Unapplied, device, history
    <2> QED
        BY <1>1, <2>1 DEF Read, CacheCoherent, Cached, device, history
<1> QED
    BY <1>3, <1>4, <1>5

LEMMA EvictIInv == ASSUME IInv, NEW b \in Blocks, pc_evict_locked(b) PROVE IInv'
<1> USE JournalAssumption, DataFacts DEF IInv
<1>1. /\ page' \in [Blocks -> Data \cup {None}]
      /\ \A c \in Blocks : page'[c] = IF c = b THEN None ELSE page[c]
    BY DEF pc_evict_locked, TypeOK
<1>2. TypeOK'
    BY <1>1 DEF pc_evict_locked, TypeOK, Cached, device, history
<1>3. Placed' /\ LogBacksHeader' /\ TransactionReleased'
    BY DEF pc_evict_locked, Placed, LogBacksHeader, TransactionReleased, Committed,
           device, history
<1>4. CacheCoherent'
    <2>1. Unapplied' = Unapplied
        BY DEF pc_evict_locked, Unapplied, device, history
    <2> QED
        BY <1>1, <2>1 DEF pc_evict_locked, CacheCoherent, Cached, device, history
<1> QED
    BY <1>2, <1>3, <1>4

LEMMA WritebackIInv ==
    ASSUME IInv, NEW b \in Blocks, NEW ok \in BOOLEAN, Writeback(b, ok)
    PROVE  IInv'
<1> USE JournalAssumption, DataFacts DEF IInv
<1>1. page[b] \in Data
    BY DEF Writeback, TypeOK, Cached
<1>2. /\ disk' \in [Blocks -> Data]
      /\ \A c \in Blocks : disk'[c] = IF ok /\ c = b THEN page[c] ELSE disk[c]
    BY <1>1 DEF Writeback, TypeOK
<1>3. TypeOK'
    BY <1>2 DEF Writeback, TypeOK, Cached
<1>4. Placed' /\ LogBacksHeader' /\ TransactionReleased'
    BY DEF Writeback, Placed, LogBacksHeader, TransactionReleased, Committed
<1>5. CacheCoherent'
    <2>1. Unapplied' = Unapplied
        BY DEF Writeback, Unapplied
    <2>2. behind \ {b} \subseteq behind' /\ (~ok => b \in behind')
        BY DEF Writeback
    <2> QED
        BY <1>2, <2>1, <2>2 DEF Writeback, CacheCoherent, Cached
<1> QED
    BY <1>3, <1>4, <1>5

----------------------------------------------------------------------------
(* An operation *)

\* Steps of an operation that touch neither the device nor the place in the code.
LEMMA OpenStep ==
    ASSUME IInv, pc = "open", UNCHANGED <<device, active, pc, at>>,
           page' \in [Blocks -> Data \cup {None}], dirty' \subseteq Cached',
           txn' \in Seq(Entry), Len(txn') <= MaxTxn, missed' \in 0 .. Extra,
           behind' = behind,
           \A c \in Blocks : page'[c] # None /\ c \notin dirty' =>
                                page'[c] = disk[c] \/ (page'[c] = page[c] /\ c \notin dirty)
    PROVE  IInv'
<1> USE DEF IInv, device
<1>1. TypeOK'
    BY DEF TypeOK, Entry
<1>2. Placed' /\ LogBacksHeader' /\ TransactionReleased'
    BY DEF Placed, LogBacksHeader, TransactionReleased, Committed
<1>3. CacheCoherent'
    BY DEF CacheCoherent, Cached, Unapplied
<1> QED
    BY <1>1, <1>2, <1>3

LEMMA BeginIInv == ASSUME IInv, journal_begin PROVE IInv'
<1> USE JournalAssumption DEF IInv
<1>1. << >> \in Seq(Entry) /\ Len(<< >>) = 0 /\ 0 <= MaxTxn
    OBVIOUS
<1>2. TypeOK'
    BY <1>1 DEF journal_begin, TypeOK, Entry, Stages, Cached, device, cache, history
<1>3. Placed' /\ LogBacksHeader' /\ TransactionReleased'
    BY DEF journal_begin, Placed, LogBacksHeader, TransactionReleased, Committed,
           device, cache, history
<1>4. CacheCoherent'
    BY DEF journal_begin, CacheCoherent, Cached, Unapplied, device, cache, history
<1> QED
    BY <1>2, <1>3, <1>4

LEMMA UpdateIInv ==
    ASSUME IInv, NEW b \in Blocks, NEW d \in Contents,
           Update(b, d) \/ rw_log_inode(b, d)
    PROVE  IInv'
<1>1. /\ txn' \in Seq(Entry) /\ Len(txn') <= MaxTxn
      /\ missed' \in 0 .. Extra
    BY journal_addTypes DEF IInv, Update, rw_log_inode
<1>2. PICK v \in Data : page' = [page EXCEPT ![b] = v] \/ (page' = page /\ page[b] # None)
    BY DataFacts DEF IInv, Update, rw_log_inode, pcache_get, TypeOK, Cached
<1>3. page \in [Blocks -> Data \cup {None}] /\ dirty \subseteq Cached
    BY DEF IInv, TypeOK
<1>4. dirty' = dirty \cup {b}
    BY DEF Update, rw_log_inode
<1>5. page' \in [Blocks -> Data \cup {None}] /\ dirty' \subseteq Cached'
    BY <1>2, <1>3, <1>4, DataFacts DEF Cached
<1>6. \A c \in Blocks : c \notin dirty' => page'[c] = page[c] /\ c \notin dirty
    BY <1>2, <1>3, <1>4
<1>7. pc = "open" /\ UNCHANGED <<device, active, pc, at>> /\ behind' = behind
    BY DEF Update, rw_log_inode
<1> QED
    BY <1>1, <1>5, <1>6, <1>7, OpenStep

LEMMA LogFreshIInv ==
    ASSUME IInv, NEW b \in Blocks, NEW d \in Contents, NEW drop \in BOOLEAN,
           LogFresh(b, d, drop)
    PROVE  IInv'
<1>1. /\ txn' \in Seq(Entry) /\ Len(txn') <= MaxTxn
      /\ missed' \in 0 .. Extra
    BY journal_addTypes DEF IInv, LogFresh
<1>2. page \in [Blocks -> Data \cup {None}] /\ dirty \subseteq Cached
    BY DEF IInv, TypeOK
<1>3. \A c \in Blocks : page'[c] = IF drop /\ c = b THEN None ELSE page[c]
    BY <1>2 DEF LogFresh
<1>4. page' \in [Blocks -> Data \cup {None}] /\ dirty' \subseteq Cached'
    BY <1>2, <1>3 DEF LogFresh, Cached
<1>5. \A c \in Blocks : page'[c] # None /\ c \notin dirty' =>
                            page'[c] = page[c] /\ c \notin dirty
    BY <1>2, <1>3 DEF LogFresh
<1>6. pc = "open" /\ UNCHANGED <<device, active, pc, at>> /\ behind' = behind
    BY DEF LogFresh
<1> QED
    BY <1>1, <1>4, <1>5, <1>6, OpenStep

\* The ways in which an operation ends before its commit mark.
LEMMA ReleaseStep ==
    ASSUME IInv, Release, pc \in {"open", "log"},
           UNCHANGED <<device, behind>>,
           page' \in [Blocks -> Data \cup {None}], dirty \subseteq dirty',
           dirty' \subseteq Cached',
           \A c \in Blocks : c \notin dirty' => page'[c] = page[c]
    PROVE  IInv'
<1> USE DEF IInv, device
<1>1. /\ txn' \in Seq(Entry) /\ Len(txn') <= MaxTxn
      /\ active' \in BOOLEAN /\ pc' \in Stages
      /\ at' \in 1 .. MaxTxn + 1 /\ missed' \in 0 .. Extra
      /\ pc' = "idle" /\ at' = 1 /\ ~active'
    BY ReleaseTypes
<1>2. TypeOK'
    BY <1>1 DEF TypeOK, Entry
<1>3. Placed' /\ LogBacksHeader' /\ TransactionReleased'
    BY <1>1 DEF Placed, LogBacksHeader, TransactionReleased, Committed
<1>4. CacheCoherent'
    BY <1>1 DEF CacheCoherent, Cached, Unapplied
<1> QED
    BY <1>2, <1>3, <1>4

LEMMA AbortIInv ==
    ASSUME IInv, Abort \/ \E b \in Blocks, d \in Contents : AllocateAndAbort(b, d)
    PROVE  IInv'
<1>1. page \in [Blocks -> Data \cup {None}] /\ dirty \subseteq Cached
    BY DEF IInv, TypeOK
<1>2. CASE Abort
    <2>1. Release /\ pc = "open" /\ UNCHANGED <<device, behind>> /\ UNCHANGED <<page, dirty>>
        BY <1>2 DEF Abort, cache
    <2>2. Cached' = Cached
        BY <2>1 DEF Cached
    <2> QED
        BY <1>1, <2>1, <2>2, ReleaseStep
<1>3. ASSUME NEW b \in Blocks, NEW d \in Contents, AllocateAndAbort(b, d) PROVE IInv'
    <2>1. Release /\ pc = "open" /\ UNCHANGED <<device, behind>>
        BY <1>3 DEF AllocateAndAbort
    <2>2. page' = [page EXCEPT ![b] = d] /\ dirty' = dirty \cup {b}
        BY <1>3 DEF AllocateAndAbort
    <2>3. page' \in [Blocks -> Data \cup {None}] /\ dirty' \subseteq Cached'
        BY <1>1, <2>2, DataFacts DEF Cached
    <2>4. \A c \in Blocks : c \notin dirty' => page'[c] = page[c]
        BY <1>1, <2>2
    <2>5. dirty \subseteq dirty'
        BY <2>2
    <2> QED
        BY <2>1, <2>3, <2>4, <2>5, ReleaseStep
<1> QED
    BY <1>2, <1>3

----------------------------------------------------------------------------
(* journal_commit *)

LEMMA CommitBeginIInv ==
    ASSUME IInv, NEW ok \in BOOLEAN, CommitBegin(ok) PROVE IInv'
<1> USE JournalAssumption DEF IInv
<1>1. UNCHANGED <<disk, log, room, page, dirty, behind>> /\ pc = "open" /\ at = 1
    BY DEF CommitBegin, Placed, cache
<1>2. Cached' = Cached /\ dirty \subseteq Cached /\ page \in [Blocks -> Data \cup {None}]
    BY <1>1 DEF Cached, TypeOK
<1>3. CASE txn = << >> \/ ~ok
    <2>1. Release /\ hdr' = hdr
        BY <1>3 DEF CommitBegin
    <2> QED
        BY <1>1, <1>2, <2>1, ReleaseStep DEF device
<1>4. CASE ~(txn = << >> \/ ~ok)
    <2>1. /\ hdr' = [magic |-> TRUE, commit |-> 0, count |-> Len(txn)]
          /\ pc' = "log" /\ UNCHANGED <<txn, active, at, missed>>
        BY <1>4 DEF CommitBegin, Header
    <2>2. Len(txn) \in 0 .. MaxTxn
        BY DEF TypeOK
    <2>3. hdr' \in [magic : BOOLEAN, commit : {0, 1}, count : 0 .. MaxTxn] /\ ~Committed'
        BY <2>1, <2>2 DEF Committed
    <2>4. TypeOK'
        BY <1>1, <1>2, <2>1, <2>3 DEF TypeOK, Stages
    <2>5. Placed'
        BY <1>1, <1>4, <2>1 DEF Placed
    <2>6. LogBacksHeader' /\ TransactionReleased'
        BY <1>1, <2>1, <2>3 DEF LogBacksHeader, TransactionReleased
    <2>7. CacheCoherent'
        BY <1>1, <1>2, <2>1 DEF CacheCoherent, Unapplied
    <2> QED
        BY <2>4, <2>5, <2>6, <2>7
<1> QED
    BY <1>3, <1>4

LEMMA WriteEntryIInv ==
    ASSUME IInv, NEW ok \in BOOLEAN, WriteEntry(ok) PROVE IInv'
<1> USE JournalAssumption DEF IInv
<1>1. UNCHANGED <<disk, hdr, room, page, dirty, behind>> /\ pc = "log" /\ at <= Len(txn)
    BY DEF WriteEntry, cache
<1>2. Cached' = Cached /\ dirty \subseteq Cached /\ page \in [Blocks -> Data \cup {None}]
    BY <1>1 DEF Cached, TypeOK
<1>3. CASE at > room \/ ~ok
    <2>1. Release /\ log' = log
        BY <1>3 DEF WriteEntry
    <2> QED
        BY <1>1, <1>2, <2>1, ReleaseStep DEF device
<1>4. CASE ~(at > room \/ ~ok)
    <2>1. /\ DOMAIN log' = DOMAIN log \cup {at}
          /\ \A i \in DOMAIN log' :
                log'[i] = IF i = at
                          THEN [target |-> txn[at].target, body |-> txn[at].data.body]
                          ELSE log[i]
          /\ at' = at + 1 /\ UNCHANGED <<txn, active, pc, missed>>
        BY <1>4 DEF WriteEntry
    <2>2. at \in 1 .. MaxTxn /\ at \in 1 .. Len(txn) /\ at + 1 \in 1 .. MaxTxn + 1
        BY <1>1 DEF TypeOK
    <2>3. txn[at] \in [target : Blocks, data : Data]
        BY <2>2, EntryAt DEF TypeOK, Entry
    <2>4. txn[at].target \in Blocks /\ txn[at].data.body \in Bodies
        BY <2>3 DEF Data
    <2>5. at \in 1 .. room
        BY <1>4, <2>2 DEF TypeOK
    <2>6. /\ DOMAIN log' \subseteq 1 .. room
          /\ \A i \in DOMAIN log' : log'[i] \in [target : Blocks, body : Bodies]
        BY <2>1, <2>4, <2>5 DEF TypeOK
    <2>7. TypeOK'
        BY <1>1, <1>2, <2>1, <2>2, <2>6 DEF TypeOK
    <2>8. Placed'
        BY <1>1, <2>1, <2>2 DEF Placed
    <2>9. LogBacksHeader' /\ TransactionReleased'
        BY <1>1, <2>1 DEF LogBacksHeader, TransactionReleased, Committed
    <2>10. CacheCoherent'
        BY <1>1, <1>2, <2>1 DEF CacheCoherent, Unapplied
    <2> QED
        BY <2>7, <2>8, <2>9, <2>10
<1> QED
    BY <1>3, <1>4

LEMMA WriteCommitIInv ==
    ASSUME IInv, NEW ok \in BOOLEAN, WriteCommit(ok) PROVE IInv'
<1> USE JournalAssumption DEF IInv
<1>1. UNCHANGED <<disk, log, room, page, dirty>> /\ pc = "log" /\ at > Len(txn)
    BY DEF WriteCommit, cache
<1>2. Cached' = Cached /\ dirty \subseteq Cached /\ page \in [Blocks -> Data \cup {None}]
    BY <1>1 DEF Cached, TypeOK
<1>3. CASE ~ok
    <2>1. Release /\ UNCHANGED <<hdr, behind>>
        BY <1>3 DEF WriteCommit
    <2> QED
        BY <1>1, <1>2, <2>1, ReleaseStep DEF device
<1>4. CASE ok
    <2>1. /\ hdr' = [magic |-> TRUE, commit |-> 1, count |-> Len(txn)]
          /\ pc' = "apply" /\ at' = 1 /\ behind' = behind \ Targets(txn)
          /\ UNCHANGED <<txn, active, missed>>
        BY <1>4 DEF WriteCommit, Header
    <2>2. Len(txn) \in 1 .. MaxTxn /\ 1 .. Len(txn) \subseteq DOMAIN log
        BY <1>1 DEF TypeOK, Placed
    <2>3. TypeOK'
        BY <1>1, <1>2, <2>1, <2>2 DEF TypeOK, Stages
    <2>4. Placed' /\ LogBacksHeader' /\ TransactionReleased'
        BY <1>1, <2>1, <2>2 DEF Placed, LogBacksHeader, TransactionReleased, Committed
    <2>5. Unapplied = {} /\ Unapplied' = Targets(txn)
        BY <1>1, <2>1 DEF Unapplied, Targets, TypeOK
    <2>6. CacheCoherent'
        BY <1>1, <1>2, <2>1, <2>5 DEF CacheCoherent
    <2> QED
        BY <2>3, <2>4, <2>6
<1> QED
    BY <1>3, <1>4

LEMMA ApplyIInv ==
    ASSUME IInv, NEW ok \in BOOLEAN, Apply(ok) PROVE IInv'
<1> USE JournalAssumption DEF IInv
<1> DEFINE b == txn[at].target
<1>1. /\ pc = "apply" /\ at <= Len(txn) /\ at' = at + 1
      /\ UNCHANGED <<hdr, log, room, txn, active, pc, missed>>
    BY DEF Apply
<1>2. at \in 1 .. Len(txn) /\ at + 1 \in 1 .. MaxTxn + 1
    BY <1>1 DEF TypeOK
<1>3. txn[at] \in [target : Blocks, data : Data]
    BY <1>2, EntryAt DEF TypeOK, Entry
<1>4. b \in Blocks /\ txn[at].data \in Data
    BY <1>3
<1>5. /\ disk' \in [Blocks -> Data]
      /\ \A c \in Blocks : c # b => disk'[c] = disk[c]
    BY <1>4 DEF Apply, TypeOK
<1>6. /\ page' \in [Blocks -> Data \cup {None}]
      /\ \A c \in Blocks : page'[c] = IF c = b THEN None ELSE page[c]
      /\ dirty' = dirty \ {b}
    BY <1>4 DEF Apply, TypeOK
<1>7. behind' \subseteq Blocks /\ behind \ {b} \subseteq behind'
    BY <1>4 DEF Apply, TypeOK
<1>8. TypeOK'
    BY <1>1, <1>2, <1>5, <1>6, <1>7 DEF TypeOK, Cached
<1>9. Placed' /\ LogBacksHeader' /\ TransactionReleased'
    BY <1>1 DEF Placed, LogBacksHeader, TransactionReleased, Committed
<1>10. Unapplied \subseteq Unapplied' \cup {b}
    <2>1. at' = at + 1 /\ txn' = txn /\ pc' = "apply" /\ at \in Nat /\ Len(txn) \in Nat
        BY <1>1 DEF TypeOK
    <2> QED
        BY <1>1, <2>1 DEF Unapplied
<1> HIDE DEF b
<1>11. CacheCoherent'
    BY <1>5, <1>6, <1>7, <1>10 DEF CacheCoherent, Cached
<1> QED
    BY <1>8, <1>9, <1>11

LEMMA CommitEndIInv ==
    ASSUME IInv, NEW ok \in BOOLEAN, CommitEnd(ok) PROVE IInv'
<1> USE JournalAssumption DEF IInv
<1>1. /\ UNCHANGED <<disk, log, room, page, dirty, behind>> /\ pc = "apply"
      /\ at > Len(txn) /\ Release /\ hdr' \in {Zeroed, hdr}
    BY DEF CommitEnd, cache
<1>2. /\ txn' \in Seq(Entry) /\ Len(txn') <= MaxTxn
      /\ active' \in BOOLEAN /\ pc' \in Stages
      /\ at' \in 1 .. MaxTxn + 1 /\ missed' \in 0 .. Extra
      /\ pc' = "idle" /\ at' = 1 /\ ~active'
    BY <1>1, ReleaseTypes
<1>3. hdr' \in [magic : BOOLEAN, commit : {0, 1}, count : 0 .. MaxTxn]
    BY <1>1, ZeroedType DEF TypeOK
<1>4. hdr' = hdr \/ ~Committed'
    BY <1>1 DEF Zeroed, Committed
<1>5. Cached' = Cached
    BY <1>1 DEF Cached
<1>6. TypeOK'
    BY <1>1, <1>2, <1>3, <1>5 DEF TypeOK, Entry
<1>7. Placed' /\ LogBacksHeader' /\ TransactionReleased'
    BY <1>1, <1>2, <1>4 DEF Placed, LogBacksHeader, TransactionReleased, Committed
<1>8. Unapplied = {} /\ Unapplied' = {}
    BY <1>1, <1>2 DEF Unapplied, TypeOK
<1>9. CacheCoherent'
    BY <1>1, <1>5, <1>8 DEF CacheCoherent
<1> QED
    BY <1>6, <1>7, <1>9

----------------------------------------------------------------------------
(* Crash and recovery *)

LEMMA CrashIInv == ASSUME IInv, Crash PROVE IInv'
<1> USE JournalAssumption DEF IInv
<1>1. << >> \in Seq(Entry) /\ Len(<< >>) = 0 /\ 0 <= MaxTxn
    OBVIOUS
<1>2. /\ page' \in [Blocks -> Data \cup {None}]
      /\ \A c \in Blocks : page'[c] = None
    BY DEF Crash
<1>3. 1 \in 1 .. MaxTxn + 1 /\ 0 \in 0 .. Extra
    OBVIOUS
<1>4. TypeOK'
    <2>1. /\ disk' = disk /\ hdr' = hdr /\ log' = log /\ room' = room /\ behind' = behind
          /\ txn' = << >> /\ dirty' = {} /\ active' = FALSE /\ pc' = "down"
          /\ at' = 1 /\ missed' = 0
        BY DEF Crash, device
    <2> QED
        BY <1>1, <1>2, <1>3, <2>1 DEF TypeOK, Entry, Stages
<1>5. Placed' /\ LogBacksHeader' /\ TransactionReleased'
    BY DEF Crash, Placed, LogBacksHeader, TransactionReleased, Committed, device
<1>6. CacheCoherent'
    BY <1>2 DEF CacheCoherent, Cached
<1> QED
    BY <1>4, <1>5, <1>6

LEMMA LoggedBlocks ==
    ASSUME TypeOK, LogBacksHeader, Committed
    PROVE  \A i \in 1 .. hdr.count : i \in DOMAIN log /\ log[i].target \in Blocks
<1>1. \A i \in 1 .. hdr.count : i \in DOMAIN log
    BY DEF LogBacksHeader
<1>2. \A i \in DOMAIN log : log[i] \in [target : Blocks, body : Bodies]
    BY DEF TypeOK
<1> QED
    BY <1>1, <1>2

LEMMA MountIInv ==
    ASSUME IInv, NEW ok \in BOOLEAN, Mount(ok) PROVE IInv'
<1> USE JournalAssumption DEF IInv
<1>1. /\ UNCHANGED <<disk, log, room, page, dirty, txn, at, missed>>
      /\ pc \in {"down", "idle"} /\ active' = FALSE /\ at = 1
    BY DEF Mount, cache, Placed
<1>2. pc' = "idle" \/ (pc' = "replay" /\ Committed /\ ok)
    BY DEF Mount
<1>3. hdr' \in [magic : BOOLEAN, commit : {0, 1}, count : 0 .. MaxTxn]
    BY ZeroedType DEF Mount, TypeOK
<1>4. hdr' = hdr \/ (~Committed /\ ~Committed')
    BY DEF Mount, Zeroed, Committed
<1>5. behind \subseteq behind' /\ behind' \subseteq Blocks
    BY LoggedBlocks DEF Mount, Logged, TypeOK
<1>6. Cached' = Cached
    BY <1>1 DEF Cached
<1>7. TypeOK'
    BY <1>1, <1>2, <1>3, <1>5, <1>6 DEF TypeOK, Stages
<1>8. Placed' /\ LogBacksHeader' /\ TransactionReleased'
    BY <1>1, <1>2, <1>4 DEF Placed, LogBacksHeader, TransactionReleased, Committed
<1>9. Unapplied = {}
    BY <1>1 DEF Unapplied
<1>10. CacheCoherent'
    BY <1>1, <1>5, <1>6, <1>9 DEF CacheCoherent
<1> QED
    BY <1>7, <1>8, <1>10

LEMMA ReplayIInv ==
    ASSUME IInv, NEW ok \in BOOLEAN, NEW t \in Tails, Replay(ok, t) PROVE IInv'
<1> USE JournalAssumption DEF IInv
<1> DEFINE b == log[at].target
<1>1. /\ pc = "replay" /\ at <= hdr.count
      /\ UNCHANGED <<hdr, log, room, txn, active, missed>>
    BY DEF Replay
<1>2. Committed
    BY <1>1 DEF Placed
<1>3. at \in 1 .. hdr.count /\ hdr.count \in 0 .. MaxTxn /\ at + 1 \in 1 .. MaxTxn + 1
    BY <1>1 DEF TypeOK
<1>4. log[at] \in [target : Blocks, body : Bodies]
    BY <1>2, <1>3 DEF TypeOK, LogBacksHeader
<1>5. b \in Blocks /\ [body |-> log[at].body, tail |-> t] \in Data
    BY <1>4 DEF Data
<1>6. CASE ok
    <2>1. /\ disk' = [disk EXCEPT ![b] = [body |-> log[at].body, tail |-> t]]
          /\ page' = [page EXCEPT ![b] = None]
          /\ dirty' = dirty \ {b} /\ behind' = behind \ {b}
          /\ at' = at + 1 /\ pc' = pc
        BY <1>6 DEF Replay
    <2>2. Unapplied \subseteq Unapplied' \cup {b}
        <3>1. at \in Nat /\ hdr.count \in Nat /\ hdr' = hdr /\ log' = log
            BY <1>1, <1>3
        <3> QED
            BY <1>1, <2>1, <3>1 DEF Unapplied
    <2> HIDE DEF b
    <2>3. /\ disk' \in [Blocks -> Data]
          /\ \A c \in Blocks : c # b => disk'[c] = disk[c]
        BY <1>5, <2>1 DEF TypeOK
    <2>4. /\ page' \in [Blocks -> Data \cup {None}]
          /\ \A c \in Blocks : page'[c] = IF c = b THEN None ELSE page[c]
        BY <1>5, <2>1 DEF TypeOK
    <2>5. TypeOK'
        BY <1>1, <1>3, <2>1, <2>3, <2>4 DEF TypeOK, Cached
    <2>6. Placed' /\ LogBacksHeader' /\ TransactionReleased'
        BY <1>1, <2>1 DEF Placed, LogBacksHeader, TransactionReleased, Committed
    <2>7. CacheCoherent'
        BY <2>1, <2>2, <2>3, <2>4 DEF CacheCoherent, Cached
    <2> QED
        BY <2>5, <2>6, <2>7
<1>7. CASE ~ok
    <2>1. /\ behind' = behind \cup {log[i].target : i \in at .. hdr.count}
          /\ pc' = "idle" /\ at' = 1 /\ UNCHANGED <<disk, page, dirty>>
        BY <1>7 DEF Replay, cache
    <2>2. Cached' = Cached
        BY <2>1 DEF Cached
    <2>3. \A i \in at .. hdr.count : log[i].target \in Blocks
        BY <1>2, <1>3, LoggedBlocks
    <2>4. TypeOK'
        BY <1>1, <2>1, <2>2, <2>3 DEF TypeOK, Stages
    <2>5. Placed' /\ LogBacksHeader' /\ TransactionReleased'
        BY <1>1, <2>1 DEF Placed, LogBacksHeader, TransactionReleased, Committed
    <2>6. behind' = behind \cup Unapplied
        BY <1>1, <2>1 DEF Unapplied
    <2>7. CacheCoherent'
        BY <2>1, <2>2, <2>6 DEF CacheCoherent
    <2> QED
        BY <2>4, <2>5, <2>7
<1> QED
    BY <1>6, <1>7

LEMMA RecoverEndIInv ==
    ASSUME IInv, NEW ok \in BOOLEAN, RecoverEnd(ok) PROVE IInv'
<1> USE JournalAssumption DEF IInv
<1>1. /\ UNCHANGED <<disk, log, room, page, dirty, txn, active, missed, behind>>
      /\ pc = "replay" /\ at > hdr.count /\ pc' = "idle" /\ at' = 1
      /\ hdr' \in {Zeroed, hdr}
    BY DEF RecoverEnd, cache, history
<1>2. hdr' \in [magic : BOOLEAN, commit : {0, 1}, count : 0 .. MaxTxn]
    BY <1>1, ZeroedType DEF TypeOK
<1>3. hdr' = hdr \/ ~Committed'
    BY <1>1 DEF Zeroed, Committed
<1>4. Cached' = Cached
    BY <1>1 DEF Cached
<1>5. TypeOK'
    BY <1>1, <1>2, <1>4 DEF TypeOK, Stages
<1>6. Placed' /\ LogBacksHeader' /\ TransactionReleased'
    BY <1>1, <1>3 DEF Placed, LogBacksHeader, TransactionReleased, Committed
<1>7. Unapplied = {}
    BY <1>1 DEF Unapplied, TypeOK
<1>8. CacheCoherent'
    BY <1>1, <1>4, <1>7 DEF CacheCoherent
<1> QED
    BY <1>5, <1>6, <1>8

----------------------------------------------------------------------------
(* The invariant *)

LEMMA NextIInv == IInv /\ [Next]_vars => IInv'
<1> SUFFICES ASSUME IInv, [Next]_vars PROVE IInv'
    OBVIOUS
<1>1. CASE UNCHANGED vars
    BY <1>1 DEF vars, IInv, TypeOK, Placed, LogBacksHeader, TransactionReleased,
                CacheCoherent, Committed, Cached, Unapplied
<1>2. ASSUME NEW b \in Blocks, Read(b) PROVE IInv'
    BY <1>2, ReadIInv
<1>3. ASSUME NEW b \in Blocks, pc_evict_locked(b) PROVE IInv'
    BY <1>3, EvictIInv
<1>4. ASSUME NEW b \in Blocks, NEW ok \in BOOLEAN, Writeback(b, ok) PROVE IInv'
    BY <1>4, WritebackIInv
<1>5. CASE journal_begin
    BY <1>5, BeginIInv
<1>6. ASSUME NEW b \in Blocks, NEW d \in Contents, Update(b, d) \/ rw_log_inode(b, d)
      PROVE IInv'
    BY <1>6, UpdateIInv
<1>7. ASSUME NEW b \in Blocks, NEW d \in Contents, NEW drop \in BOOLEAN, LogFresh(b, d, drop)
      PROVE IInv'
    BY <1>7, LogFreshIInv
<1>8. CASE Abort \/ \E b \in Blocks, d \in Contents : AllocateAndAbort(b, d)
    BY <1>8, AbortIInv
<1>9. ASSUME NEW ok \in BOOLEAN,
             CommitBegin(ok) \/ WriteEntry(ok) \/ WriteCommit(ok) \/ Apply(ok) \/ CommitEnd(ok)
      PROVE IInv'
    BY <1>9, CommitBeginIInv, WriteEntryIInv, WriteCommitIInv, ApplyIInv, CommitEndIInv
<1>10. ASSUME NEW ok \in BOOLEAN, Mount(ok) \/ RecoverEnd(ok) PROVE IInv'
    BY <1>10, MountIInv, RecoverEndIInv
<1>11. ASSUME NEW ok \in BOOLEAN, NEW t \in Tails, Replay(ok, t) PROVE IInv'
    BY <1>11, ReplayIInv
<1>12. CASE Crash
    BY <1>12, CrashIInv
<1> QED
    BY <1>1, <1>2, <1>3, <1>4, <1>5, <1>6, <1>7, <1>8, <1>9, <1>10, <1>11, <1>12 DEF Next

\* The inductive invariant that the theorems below are parts of.
THEOREM JournalInvariant == Spec => []IInv
BY InitIInv, NextIInv, PTL DEF Spec

\* Every variable of the journal and the page cache keeps its type, whatever stops,
\* fails or is given up: no loop of commit or recovery leaves its array.
THEOREM TypeCorrect == Spec => []TypeOK
<1>1. IInv => TypeOK
    BY DEF IInv
<1> QED
    BY <1>1, JournalInvariant, PTL

\* A committed header counts entries that are in the log, and is gone before the log
\* is written over (journal_commit, journal_recover).
THEOREM HeaderSafe == Spec => []LogBacksHeader
<1>1. IInv => LogBacksHeader
    BY DEF IInv
<1> QED
    BY <1>1, JournalInvariant, PTL

\* Every way out of an operation gives the one transaction back (journal_begin,
\* journal_abort and the error returns of journal_commit).
THEOREM Released == Spec => []TransactionReleased
<1>1. IInv => TransactionReleased
    BY DEF IInv
<1> QED
    BY <1>1, JournalInvariant, PTL

\* A clean page is what the device holds, unless the device refused a write
\* (page_cache.c against the writes of journal.c that go past it).
THEOREM Coherent == Spec => []CacheCoherent
<1>1. IInv => CacheCoherent
    BY DEF IInv
<1> QED
    BY <1>1, JournalInvariant, PTL

-----------------------------------------------------------------------------
(* Refinement *)

\* The log's entry of an update.
Line(e) == [target |-> e.target, body |-> e.data.body]

\* What is in the log while it is written, and until it is given up, is the
\* transaction.
LogMirrors ==
    /\ pc = "log" => /\ at <= Len(txn) + 1
                     /\ \A i \in 1 .. at - 1 : log[i] = Line(txn[i])
    /\ pc = "apply" => /\ Committed /\ hdr.count = Len(txn)
                       /\ at <= Len(txn) + 1
                       /\ \A i \in 1 .. Len(txn) : log[i] = Line(txn[i])

\* Entry i is the last one of its block.
IsLast(es, n, i) == \A j \in i + 1 .. n : es[j].target # es[i].target

\* The last committed update of a block is at home once its turn has come, unless
\* the device refused it: cleaning the header then loses nothing else.
AtHome ==
    pc # "down" /\ Committed =>
        \A i \in 1 .. hdr.count :
            /\ IsLast(log, hdr.count, i)
            /\ log[i].target \notin behind
            /\ pc \in {"apply", "replay"} => i < at
            => disk[log[i].target].body = log[i].body

\* A page whose update has been written home is not dirty.
PagesDropped ==
    pc = "apply" => \A i \in 1 .. at - 1 : txn[i].target \notin dirty

RInv == IInv /\ LogMirrors /\ AtHome /\ PagesDropped

----------------------------------------------------------------------------
(* The last entry of a block *)

LEMMA HasMin ==
    ASSUME NEW T, T \subseteq Nat, T # {}
    PROVE  \E x \in T : \A y \in T : x <= y
<1>1. IsWellFoundedOn(OpToRel(<, Nat), Nat)
    BY NatLessThanWellFounded
<1>2. PICK x \in T : \A y \in T : <<y, x>> \notin OpToRel(<, Nat)
    BY <1>1, WFMin
<1>3. \A y \in T : ~(y < x)
    BY <1>2 DEF OpToRel
<1> QED
    BY <1>3

\* Among the first n entries, a block that has one has a last one.
LEMMA LastExists ==
    ASSUME NEW n \in Nat, NEW es, NEW m \in 1 .. n
    PROVE  \E i \in 1 .. n : es[i].target = es[m].target /\ IsLast(es, n, i)
<1> DEFINE T == {k \in 0 .. n : es[n - k].target = es[m].target /\ n - k \in 1 .. n}
<1>1. n - m \in T
    <2>1. n - m \in 0 .. n /\ n - (n - m) = m
        OBVIOUS
    <2> QED
        BY <2>1
<1>2. PICK k \in T : \A y \in T : k <= y
    <2>1. T \subseteq Nat
        BY SMT
    <2>2. T # {}
        BY <1>1
    <2> HIDE DEF T
    <2> QED
        BY <2>1, <2>2, HasMin
<1>3. /\ n - k \in 1 .. n /\ es[n - k].target = es[m].target /\ k \in 0 .. n
    BY <1>2
<1>4. ASSUME NEW j \in (n - k) + 1 .. n, es[j].target = es[n - k].target PROVE FALSE
    <2>1. n - j \in 0 .. n /\ n - (n - j) = j /\ j \in 1 .. n /\ n - j < k
        BY <1>3, <1>4
    <2>2. n - j \in T
        BY <2>1, <1>3, <1>4
    <2> QED
        BY <1>2, <2>1, <2>2
<1> QED
    BY <1>3, <1>4 DEF IsLast

\* Last finds it.
LEMMA LastIs ==
    ASSUME NEW n \in Nat, NEW es, NEW b, NEW i \in 1 .. n,
           es[i].target = b, IsLast(es, n, i)
    PROVE  Last(es, n, b) = i
<1> DEFINE k == Last(es, n, b)
<1>1. /\ k \in 1 .. n /\ es[k].target = b
      /\ \A j \in k + 1 .. n : es[j].target # b
    <2>1. \E l \in 1 .. n : es[l].target = b /\ \A j \in l + 1 .. n : es[j].target # b
        BY DEF IsLast
    <2> QED
        BY <2>1 DEF Last
<1> HIDE DEF k
<1>2. ~(k < i) /\ ~(i < k)
    BY <1>1 DEF IsLast
<1>3. k = i
    BY <1>1, <1>2
<1> QED
    BY <1>3 DEF k

----------------------------------------------------------------------------
(* The invariant of the refinement *)

LEMMA InitRInv == Init => RInv
BY InitIInv DEF RInv, Init, LogMirrors, AtHome, PagesDropped

\* Steps that leave the log and its header alone, outside the loops.
LEMMA RestStep ==
    ASSUME RInv, UNCHANGED <<hdr, log>>, pc' \in {"idle", "open"},
           pc = "apply" => at > Len(txn),
           pc = "replay" => at > hdr.count,
           pc # "down" \/ ~Committed,
           \A b \in Blocks \ behind' : disk'[b] = disk[b] /\ b \notin behind
    PROVE  LogMirrors' /\ AtHome' /\ PagesDropped'
<1>1. LogMirrors' /\ PagesDropped'
    BY DEF LogMirrors, PagesDropped
<1>2. CASE ~Committed
    BY <1>1, <1>2 DEF AtHome, Committed
<1>3. CASE Committed
    <2>1. ASSUME NEW i \in 1 .. hdr.count, IsLast(log, hdr.count, i),
                 log[i].target \notin behind'
          PROVE  disk'[log[i].target].body = log[i].body
        <3>1. log[i].target \in Blocks
            BY <1>3, LoggedBlocks DEF RInv, IInv
        <3>2. pc \in {"apply", "replay"} => i < at
            BY <2>1 DEF RInv, LogMirrors, IInv, TypeOK
        <3>3. pc # "down" /\ log[i].target \notin behind
            BY <1>3, <2>1, <3>1
        <3>4. disk[log[i].target].body = log[i].body
            BY <1>3, <2>1, <3>2, <3>3 DEF RInv, AtHome
        <3> QED
            BY <2>1, <3>1, <3>4
    <2> QED
        BY <1>1, <2>1 DEF AtHome
<1> QED
    BY <1>2, <1>3

LEMMA ReadMirror ==
    ASSUME RInv, (\E b \in Blocks : Read(b) \/ pc_evict_locked(b)) \/ UNCHANGED vars
    PROVE  LogMirrors' /\ AtHome' /\ PagesDropped'
<1>1. UNCHANGED <<disk, hdr, log, dirty, txn, pc, at, behind>>
    BY DEF Read, pc_evict_locked, device, history, vars
<1> QED
    BY <1>1 DEF RInv, LogMirrors, AtHome, PagesDropped, Committed

LEMMA OpenMirror ==
    ASSUME RInv,
           \/ journal_begin \/ Abort
           \/ \E b \in Blocks, d \in Contents :
                \/ Update(b, d) \/ rw_log_inode(b, d) \/ AllocateAndAbort(b, d)
                \/ \E drop \in BOOLEAN : LogFresh(b, d, drop)
    PROVE  LogMirrors' /\ AtHome' /\ PagesDropped'
<1>1. /\ UNCHANGED <<disk, hdr, log, behind>>
      /\ pc \in {"idle", "open"} /\ pc' \in {"idle", "open"}
    BY DEF journal_begin, Abort, Update, rw_log_inode, AllocateAndAbort, LogFresh, Release,
           device, history
<1> QED
    BY <1>1, RestStep

LEMMA WritebackMirror ==
    ASSUME RInv, NEW b \in Blocks, NEW ok \in BOOLEAN, Writeback(b, ok)
    PROVE  LogMirrors' /\ AtHome' /\ PagesDropped'
<1>1. UNCHANGED <<hdr, log, pc>> /\ pc = "idle"
    BY DEF Writeback
<1>2. \A c \in Blocks : c # b => disk'[c] = disk[c]
    BY DEF Writeback, RInv, IInv, TypeOK
<1>3. CASE Committed
    <2>1. behind' = behind \cup {b}
        BY <1>3 DEF Writeback
    <2> QED
        BY <1>1, <1>2, <2>1, RestStep
<1>4. CASE ~Committed
    BY <1>1, <1>4 DEF LogMirrors, AtHome, PagesDropped, Committed
<1> QED
    BY <1>3, <1>4

LEMMA CommitBeginMirror ==
    ASSUME RInv, NEW ok \in BOOLEAN, CommitBegin(ok)
    PROVE  LogMirrors' /\ AtHome' /\ PagesDropped'
<1>1. UNCHANGED <<disk, log, behind>> /\ pc = "open" /\ at = 1
    BY DEF CommitBegin, RInv, IInv, Placed
<1>2. CASE txn = << >> \/ ~ok
    <2>1. hdr' = hdr /\ pc' = "idle"
        BY <1>2 DEF CommitBegin, Release
    <2> QED
        BY <1>1, <2>1, RestStep
<1>3. CASE ~(txn = << >> \/ ~ok)
    <2>1. pc' = "log" /\ at' = 1 /\ txn' = txn /\ ~Committed' /\ Len(txn) \in Nat
        BY <1>1, <1>3 DEF CommitBegin, Header, Committed, RInv, IInv, TypeOK
    <2> QED
        BY <2>1 DEF LogMirrors, AtHome, PagesDropped
<1> QED
    BY <1>2, <1>3

LEMMA WriteEntryMirror ==
    ASSUME RInv, NEW ok \in BOOLEAN, WriteEntry(ok)
    PROVE  LogMirrors' /\ AtHome' /\ PagesDropped'
<1>1. /\ hdr' = hdr /\ pc = "log" /\ at <= Len(txn) /\ ~Committed
    BY DEF WriteEntry, RInv, IInv, LogBacksHeader
<1>2. CASE at > room \/ ~ok
    <2>1. pc' = "idle"
        BY <1>2 DEF WriteEntry, Release
    <2> QED
        BY <1>1, <2>1 DEF LogMirrors, AtHome, PagesDropped, Committed
<1>3. CASE ~(at > room \/ ~ok)
    <2>1. /\ DOMAIN log' = DOMAIN log \cup {at}
          /\ \A i \in DOMAIN log' : log'[i] = IF i = at THEN Line(txn[at]) ELSE log[i]
          /\ at' = at + 1 /\ UNCHANGED <<txn, pc>>
        BY <1>3 DEF WriteEntry, Line
    <2>2. at \in 1 .. Len(txn) /\ Len(txn) \in Nat /\ 1 .. at - 1 \subseteq DOMAIN log
        BY <1>1 DEF RInv, IInv, TypeOK, Placed
    <2>3. \A i \in 1 .. at - 1 : log[i] = Line(txn[i])
        BY <1>1 DEF RInv, LogMirrors
    <2>4. \A i \in 1 .. at' - 1 : log'[i] = Line(txn[i])
        BY <2>1, <2>2, <2>3
    <2>5. LogMirrors'
        BY <1>1, <2>1, <2>2, <2>4 DEF LogMirrors
    <2> QED
        BY <1>1, <2>1, <2>5 DEF AtHome, PagesDropped, Committed
<1> QED
    BY <1>2, <1>3

LEMMA WriteCommitMirror ==
    ASSUME RInv, NEW ok \in BOOLEAN, WriteCommit(ok)
    PROVE  LogMirrors' /\ AtHome' /\ PagesDropped'
<1>1. /\ log' = log /\ pc = "log" /\ at > Len(txn) /\ ~Committed
    BY DEF WriteCommit, RInv, IInv, LogBacksHeader
<1>2. CASE ~ok
    <2>1. pc' = "idle" /\ hdr' = hdr
        BY <1>2 DEF WriteCommit, Release
    <2> QED
        BY <1>1, <2>1 DEF LogMirrors, AtHome, PagesDropped, Committed
<1>3. CASE ok
    <2>1. /\ hdr' = [magic |-> TRUE, commit |-> 1, count |-> Len(txn)]
          /\ pc' = "apply" /\ at' = 1 /\ txn' = txn
        BY <1>3 DEF WriteCommit, Header
    <2>2. Len(txn) \in Nat /\ at \in Nat
        BY DEF RInv, IInv, TypeOK
    <2>3. at = Len(txn) + 1 /\ \A i \in 1 .. Len(txn) : log[i] = Line(txn[i])
        BY <1>1, <2>2 DEF RInv, LogMirrors
    <2>4. LogMirrors'
        BY <1>1, <2>1, <2>2, <2>3 DEF LogMirrors, Committed
    <2> QED
        BY <2>1, <2>2, <2>4 DEF AtHome, PagesDropped
<1> QED
    BY <1>2, <1>3

\* One more entry, whose index was at, has been written home or refused.
LEMMA HomeStep ==
    ASSUME RInv, Committed, pc \in {"apply", "replay"}, at \in 1 .. hdr.count,
           UNCHANGED <<hdr, log, pc>>, at' = at + 1,
           \A c \in Blocks : c # log[at].target =>
                                disk'[c] = disk[c] /\ (c \in behind => c \in behind'),
           \/ disk'[log[at].target].body = log[at].body
           \/ log[at].target \in behind'
    PROVE  AtHome'
<1>1. ASSUME NEW i \in 1 .. hdr.count, IsLast(log, hdr.count, i),
             log[i].target \notin behind', i < at + 1
      PROVE  disk'[log[i].target].body = log[i].body
    <2>1. at \in Nat /\ hdr.count \in Nat
        BY DEF RInv, IInv, TypeOK
    <2>2. CASE i = at
        BY <1>1, <2>2
    <2>3. CASE i # at
        <3>1. i < at /\ at \in i + 1 .. hdr.count
            BY <1>1, <2>1, <2>3
        <3>2. log[i].target # log[at].target
            BY <1>1, <3>1 DEF IsLast
        <3>3. log[i].target \in Blocks
            BY LoggedBlocks DEF RInv, IInv
        <3>4. log[i].target \notin behind
            BY <1>1, <3>2, <3>3
        <3>5. disk[log[i].target].body = log[i].body
            BY <1>1, <3>1, <3>4 DEF RInv, AtHome
        <3> QED
            BY <3>2, <3>3, <3>5
    <2> QED
        BY <2>2, <2>3
<1> QED
    BY <1>1 DEF AtHome

LEMMA ApplyMirror ==
    ASSUME RInv, NEW ok \in BOOLEAN, Apply(ok)
    PROVE  LogMirrors' /\ AtHome' /\ PagesDropped'
<1> DEFINE b == txn[at].target
<1>1. /\ pc = "apply" /\ at <= Len(txn) /\ at' = at + 1
      /\ UNCHANGED <<hdr, log, txn, pc>>
      /\ dirty' = dirty \ {b}
    BY DEF Apply
<1>2. /\ Committed /\ hdr.count = Len(txn)
      /\ \A i \in 1 .. Len(txn) : log[i] = Line(txn[i])
    BY <1>1 DEF RInv, LogMirrors
<1>3. at \in 1 .. Len(txn) /\ Len(txn) \in Nat /\ disk \in [Blocks -> Data]
    BY <1>1 DEF RInv, IInv, TypeOK
<1>4. txn[at] \in Entry
    BY <1>3, EntryAt DEF RInv, IInv, TypeOK, Entry
<1>5. b \in Blocks
    BY <1>4 DEF Entry
<1>6. /\ log[at].target = b /\ log[at].body = txn[at].data.body
    <2>1. log[at] = [target |-> txn[at].target, body |-> txn[at].data.body]
        BY <1>2, <1>3 DEF Line
    <2> QED
        BY <2>1
<1>7. LogMirrors'
    BY <1>1, <1>2, <1>3 DEF LogMirrors, Committed
<1>8. PagesDropped'
    BY <1>1, <1>3 DEF RInv, PagesDropped
<1>9. disk' = (IF ok THEN [disk EXCEPT ![b] = txn[at].data] ELSE disk)
    BY DEF Apply
<1>10. behind' = (IF ok THEN behind \ {b} ELSE behind \cup {b})
    BY DEF Apply
<1> HIDE DEF b
<1>11. /\ \A c \in Blocks : c # b => disk'[c] = disk[c] /\ (c \in behind => c \in behind')
       /\ disk'[b].body = txn[at].data.body \/ b \in behind'
    BY <1>3, <1>5, <1>9, <1>10
<1>12. AtHome'
    BY <1>1, <1>2, <1>3, <1>6, <1>11, HomeStep
<1> QED
    BY <1>7, <1>8, <1>12

LEMMA ReplayMirror ==
    ASSUME RInv, NEW ok \in BOOLEAN, NEW t \in Tails, Replay(ok, t)
    PROVE  LogMirrors' /\ AtHome' /\ PagesDropped'
<1>1. pc = "replay" /\ at <= hdr.count /\ UNCHANGED <<hdr, log>> /\ Committed
    BY DEF Replay, RInv, IInv, Placed
<1>2. at \in 1 .. hdr.count /\ hdr.count \in Nat /\ disk \in [Blocks -> Data]
    BY <1>1 DEF RInv, IInv, TypeOK
<1>3. log[at].target \in Blocks
    BY <1>1, <1>2, LoggedBlocks DEF RInv, IInv
<1>4. CASE ok
    <2>1. /\ disk' = [disk EXCEPT ![log[at].target] = [body |-> log[at].body, tail |-> t]]
          /\ behind' = behind \ {log[at].target}
          /\ at' = at + 1 /\ pc' = pc
        BY <1>4 DEF Replay
    <2>2. /\ \A c \in Blocks : c # log[at].target =>
                    disk'[c] = disk[c] /\ (c \in behind => c \in behind')
          /\ disk'[log[at].target].body = log[at].body
        BY <1>2, <1>3, <2>1
    <2>3. AtHome'
        BY <1>1, <1>2, <2>1, <2>2, HomeStep
    <2> QED
        BY <1>1, <2>1, <2>3 DEF LogMirrors, PagesDropped
<1>5. CASE ~ok
    <2>1. /\ behind' = behind \cup {log[i].target : i \in at .. hdr.count}
          /\ pc' = "idle" /\ disk' = disk
        BY <1>5 DEF Replay
    <2>2. ASSUME NEW i \in 1 .. hdr.count, IsLast(log, hdr.count, i),
                 log[i].target \notin behind'
          PROVE  disk[log[i].target].body = log[i].body
        <3>1. i < at /\ log[i].target \notin behind
            BY <1>2, <2>1, <2>2
        <3> QED
            BY <1>1, <2>2, <3>1 DEF RInv, AtHome
    <2> QED
        BY <1>1, <2>1, <2>2 DEF LogMirrors, PagesDropped, AtHome
<1> QED
    BY <1>4, <1>5

LEMMA EndMirror ==
    ASSUME RInv, NEW ok \in BOOLEAN, CommitEnd(ok) \/ RecoverEnd(ok)
    PROVE  LogMirrors' /\ AtHome' /\ PagesDropped'
<1>1. /\ UNCHANGED <<disk, log, behind>> /\ pc' = "idle"
      /\ pc = "apply" => at > Len(txn)
      /\ pc = "replay" => at > hdr.count
      /\ pc # "down"
      /\ hdr' = hdr \/ hdr' = Zeroed
    BY DEF CommitEnd, RecoverEnd, Release, history
<1>2. CASE hdr' = hdr
    BY <1>1, <1>2, RestStep
<1>3. CASE hdr' = Zeroed
    BY <1>1, <1>3 DEF LogMirrors, AtHome, PagesDropped, Committed, Zeroed
<1> QED
    BY <1>1, <1>2, <1>3

LEMMA MountMirror ==
    ASSUME RInv, NEW ok \in BOOLEAN, Mount(ok)
    PROVE  LogMirrors' /\ AtHome' /\ PagesDropped'
<1>1. /\ UNCHANGED <<disk, log, at>> /\ pc' \in {"idle", "replay"} /\ at = 1
      /\ hdr' = hdr \/ (~Committed /\ ~Committed')
    BY DEF Mount, RInv, IInv, Placed, Committed, Zeroed
<1>2. LogMirrors' /\ PagesDropped'
    BY <1>1 DEF LogMirrors, PagesDropped
<1>3. CASE ~Committed
    BY <1>1, <1>2, <1>3 DEF AtHome, Committed
<1>4. CASE Committed /\ ok
    BY <1>1, <1>2, <1>4 DEF AtHome, Mount
<1>5. CASE Committed /\ ~ok
    <2>1. behind' = behind \cup Logged /\ hdr' = hdr
        BY <1>5 DEF Mount
    <2> QED
        BY <1>1, <1>2, <2>1 DEF AtHome, Logged
<1> QED
    BY <1>3, <1>4, <1>5

LEMMA CrashMirror == ASSUME Crash PROVE LogMirrors' /\ AtHome' /\ PagesDropped'
BY DEF Crash, LogMirrors, AtHome, PagesDropped

LEMMA NextRInv == RInv /\ [Next]_vars => RInv'
<1> SUFFICES ASSUME RInv, [Next]_vars PROVE LogMirrors' /\ AtHome' /\ PagesDropped'
    BY NextIInv DEF RInv
<1>3. ASSUME (\E b \in Blocks : Read(b) \/ pc_evict_locked(b)) \/ UNCHANGED vars
      PROVE  LogMirrors' /\ AtHome' /\ PagesDropped'
    BY <1>3, ReadMirror
<1>4. ASSUME NEW b \in Blocks, NEW ok \in BOOLEAN, Writeback(b, ok)
      PROVE  LogMirrors' /\ AtHome' /\ PagesDropped'
    BY <1>4, WritebackMirror
<1>5. ASSUME \/ journal_begin \/ Abort
             \/ \E b \in Blocks, d \in Contents :
                  \/ Update(b, d) \/ rw_log_inode(b, d) \/ AllocateAndAbort(b, d)
                  \/ \E drop \in BOOLEAN : LogFresh(b, d, drop)
      PROVE  LogMirrors' /\ AtHome' /\ PagesDropped'
    BY <1>5, OpenMirror
<1>6. ASSUME NEW ok \in BOOLEAN,
             CommitBegin(ok) \/ WriteEntry(ok) \/ WriteCommit(ok) \/ Apply(ok) \/ CommitEnd(ok)
      PROVE  LogMirrors' /\ AtHome' /\ PagesDropped'
    BY <1>6, CommitBeginMirror, WriteEntryMirror, WriteCommitMirror, ApplyMirror, EndMirror
<1>7. ASSUME NEW ok \in BOOLEAN, Mount(ok) \/ RecoverEnd(ok)
      PROVE  LogMirrors' /\ AtHome' /\ PagesDropped'
    BY <1>7, MountMirror, EndMirror
<1>8. ASSUME NEW ok \in BOOLEAN, NEW t \in Tails, Replay(ok, t)
      PROVE  LogMirrors' /\ AtHome' /\ PagesDropped'
    BY <1>8, ReplayMirror
<1>9. CASE Crash
    BY <1>9, CrashMirror
<1> QED
    BY <1>3, <1>4, <1>5, <1>6, <1>7, <1>8, <1>9 DEF Next

----------------------------------------------------------------------------
(* The mapping *)

LEMMA Facts ==
    ASSUME RInv
    PROVE  /\ disk \in [Blocks -> Data] /\ page \in [Blocks -> Data \cup {None}]
           /\ dirty \subseteq Cached /\ Cached \subseteq Blocks
           /\ txn \in Seq(Entry) /\ Len(txn) \in Nat /\ DOMAIN txn = 1 .. Len(txn)
           /\ hdr.count \in Nat /\ at \in Nat /\ behind \subseteq Blocks
           /\ \A b \in Blocks : disk[b].body \in Bodies
           /\ \A b \in dirty : page[b].body \in Bodies
<1>1. /\ disk \in [Blocks -> Data] /\ page \in [Blocks -> Data \cup {None}]
      /\ dirty \subseteq Cached /\ txn \in Seq(Entry) /\ behind \subseteq Blocks
      /\ hdr.count \in Nat /\ at \in Nat
    BY DEF RInv, IInv, TypeOK, Entry
<1>2. \A d \in Data : d.body \in Bodies
    BY DEF Data
<1>3. \A b \in dirty : page[b] \in Data
    BY <1>1 DEF Cached
<1> QED
    BY <1>1, <1>2, <1>3 DEF Cached

\* Without a committed log the disk is what a recovery leaves.
LEMMA Uncommitted == ~Committed => Durable = Home /\ Settling = {}
BY DEF Durable, Home, Settling

\* With one, its last entries replace what is at home.
Recovers ==
    Committed =>
        /\ \A b \in Blocks \ Logged : Durable[b] = Home[b]
        /\ \A i \in 1 .. hdr.count :
                IsLast(log, hdr.count, i) => Durable[log[i].target] = log[i].body
        /\ \A b \in Logged : \E i \in 1 .. hdr.count :
                IsLast(log, hdr.count, i) /\ log[i].target = b

LEMMA DurableAt == RInv => Recovers
<1> SUFFICES ASSUME RInv, Committed
             PROVE  /\ \A b \in Blocks \ Logged : Durable[b] = Home[b]
                    /\ \A i \in 1 .. hdr.count :
                            IsLast(log, hdr.count, i) => Durable[log[i].target] = log[i].body
                    /\ \A b \in Logged : \E i \in 1 .. hdr.count :
                            IsLast(log, hdr.count, i) /\ log[i].target = b
    BY DEF Recovers
<1>1. \A b \in Blocks \ Logged : Durable[b] = Home[b]
    BY DEF Durable, Home
<1>2. ASSUME NEW i \in 1 .. hdr.count, IsLast(log, hdr.count, i)
      PROVE  Durable[log[i].target] = log[i].body
    <2>1. log[i].target \in Blocks /\ log[i].target \in Logged
        BY LoggedBlocks DEF RInv, IInv, Logged
    <2>2. Last(log, hdr.count, log[i].target) = i
        BY <1>2, Facts, LastIs
    <2> QED
        BY <2>1, <2>2 DEF Durable
<1>3. ASSUME NEW b \in Logged
      PROVE  \E i \in 1 .. hdr.count : IsLast(log, hdr.count, i) /\ log[i].target = b
    <2>1. PICK m \in 1 .. hdr.count : log[m].target = b
        BY DEF Logged
    <2> QED
        BY <2>1, Facts, LastExists
<1> QED
    BY <1>1, <1>2, <1>3

\* When the log is given up, a block the device did not refuse loses nothing.
LEMMA GivenUp ==
    ASSUME RInv, Committed, pc # "down",
           pc \in {"apply", "replay"} => at > hdr.count
    PROVE  \A b \in Blocks \ behind : Durable[b] = Home[b]
<1> TAKE b \in Blocks \ behind
<1>1. CASE b \notin Logged
    BY <1>1, DurableAt DEF Recovers
<1>2. CASE b \in Logged
    <2>1. PICK i \in 1 .. hdr.count : IsLast(log, hdr.count, i) /\ log[i].target = b
        BY <1>2, DurableAt DEF Recovers
    <2>2. disk[b].body = log[i].body
        BY <2>1, Facts DEF RInv, AtHome
    <2>3. Durable[b] = log[i].body
        BY <2>1, DurableAt DEF Recovers
    <2> QED
        BY <2>2, <2>3 DEF Home
<1> QED
    BY <1>1, <1>2

\* The log and the header, and with them what is committed, stay as they are.
LEMMA SameLog ==
    ASSUME UNCHANGED <<hdr, log>>
    PROVE  /\ Settling' = Settling /\ Logged' = Logged /\ Committed' = Committed
           /\ disk' = disk => Durable' = Durable /\ Home' = Home
           /\ Committed => \A b \in Logged \cap Blocks : Durable'[b] = Durable[b]
BY DEF Settling, Logged, Committed, Durable, Home

\* No operation has logged anything.
LEMMA NothingLogged ==
    txn = << >> \/ pc \notin {"open", "log"} => Pending = Atomic!Nothing /\ Logging = {}
<1>1. txn = << >> => DOMAIN txn = {}
    OBVIOUS
<1> QED
    BY <1>1 DEF Pending, Logging, Targets, Atomic!Nothing

LEMMA NothingLoggedNext ==
    txn' = << >> \/ pc' \notin {"open", "log"} => Pending' = Atomic!Nothing /\ Logging' = {}
<1>1. (txn = << >> \/ pc \notin {"open", "log"} => Pending = Atomic!Nothing /\ Logging = {})'
    BY NothingLogged, PTL
<1> QED
    BY <1>1

LEMMA UncommittedNext == ~Committed' => Durable' = Home' /\ Settling' = {}
<1>1. (~Committed => Durable = Home /\ Settling = {})'
    BY Uncommitted, PTL
<1> QED
    BY <1>1

LEMMA SameTxn == ASSUME UNCHANGED <<txn, pc>> PROVE UNCHANGED <<Pending, Logging>>
BY DEF Pending, Logging

\* The stray pages stay, one more is changed, or some are dropped.
LEMMA StraySame ==
    ASSUME StrayPages' = StrayPages, \A c \in StrayPages : page'[c] = page[c]
    PROVE  Stray' = Stray
BY DEF Stray

LEMMA StrayWith ==
    ASSUME NEW b, StrayPages' = StrayPages \cup {b},
           \A c \in StrayPages : c # b => page'[c] = page[c]
    PROVE  Stray' = Atomic!With(Stray, b, page'[b].body)
BY DEF Stray, Atomic!With

LEMMA StrayWithout ==
    ASSUME NEW bs, StrayPages' = StrayPages \ bs,
           \A c \in StrayPages \ bs : page'[c] = page[c]
    PROVE  Stray' = Atomic!Without(Stray, bs)
BY DEF Stray, Atomic!Without

LEMMA StrayIsDirty ==
    /\ pc # "apply" => StrayPages = dirty
    /\ pc' # "apply" => StrayPages' = dirty'
BY DEF StrayPages

\* What journal_add does to the pending updates.
LEMMA journal_addMaps ==
    ASSUME RInv, pc = "open", pc' = "open", NEW b \in Blocks, NEW d \in Contents,
           journal_add(b, d)
    PROVE  IF Len(txn) < MaxTxn
           THEN /\ Pending' = Atomic!With(Pending, b, d.body)
                /\ Logging' = Logging \cup {<<b, d.body>>}
           ELSE UNCHANGED <<Pending, Logging>>
<1>1. CASE ~(Len(txn) < MaxTxn)
    BY <1>1, SameTxn DEF journal_add
<1>2. CASE Len(txn) < MaxTxn
    <2> DEFINE e == [target |-> b, data |-> d]
               n == Len(txn)
    <2>1. txn \in Seq(Entry) /\ n \in Nat /\ txn' = Append(txn, e) /\ e \in Entry
        BY <1>2, Facts, DataFacts DEF journal_add, Entry
    <2>2. /\ Len(txn') = n + 1 /\ DOMAIN txn' = 1 .. n + 1 /\ DOMAIN txn = 1 .. n
          /\ \A i \in 1 .. n : txn'[i] = txn[i]
          /\ txn'[n + 1] = e
        BY <2>1
    <2>3. e.target = b /\ e.data.body = d.body
        OBVIOUS
    <2> HIDE DEF e, n
    <2>4. Targets(txn') = Targets(txn) \cup {b}
        BY <2>1, <2>2, <2>3 DEF Targets
    <2>5. Logging' = Logging \cup {<<b, d.body>>}
        BY <2>1, <2>2, <2>3 DEF Logging
    <2>6. Last(txn', n + 1, b) = n + 1
        <3>1. IsLast(txn', n + 1, n + 1) /\ n + 1 \in 1 .. n + 1 /\ n + 1 \in Nat
            BY <2>1 DEF IsLast
        <3>2. txn'[n + 1].target = b
            BY <2>2, <2>3
        <3> QED
            BY <3>1, <3>2, LastIs
    <2>7. ASSUME NEW c \in Targets(txn), c # b
          PROVE  txn'[Last(txn', n + 1, c)] = txn[Last(txn, n, c)]
        <3>1. PICK m \in 1 .. n : txn[m].target = c
            BY <2>2 DEF Targets
        <3>2. PICK i \in 1 .. n : txn[i].target = c /\ IsLast(txn, n, i)
            BY <2>1, <3>1, LastExists
        <3>3. i \in 1 .. n + 1 /\ IsLast(txn', n + 1, i) /\ txn'[i].target = c
            BY <2>1, <2>2, <2>3, <2>7, <3>2 DEF IsLast
        <3>4. n \in Nat /\ n + 1 \in Nat
            BY <2>1
        <3>5. Last(txn', n + 1, c) = i
            BY <3>3, <3>4, LastIs
        <3>6. Last(txn, n, c) = i
            BY <3>2, <3>4, LastIs
        <3> QED
            BY <2>2, <3>2, <3>5, <3>6
    <2>8. Pending' = Atomic!With(Pending, b, d.body)
        <3>1. Pending = [c \in Targets(txn) |-> txn[Last(txn, n, c)].data.body]
            BY DEF Pending, n
        <3>2. Pending' = [c \in Targets(txn) \cup {b} |->
                                txn'[Last(txn', n + 1, c)].data.body]
            BY <2>2, <2>4 DEF Pending
        <3> QED
            BY <2>2, <2>3, <2>6, <2>7, <3>1, <3>2 DEF Atomic!With
    <2> QED
        BY <1>2, <2>5, <2>8
<1> QED
    BY <1>1, <1>2

----------------------------------------------------------------------------
(* Every step of the journal is a step of the atomic store, or none *)

LEMMA InitMaps == Init => Atomic!Init
<1> SUFFICES ASSUME Init PROVE Atomic!Init
    OBVIOUS
<1>1. ~Committed /\ StrayPages = {} /\ txn = << >>
    BY DEF Init, Committed, Zeroed, StrayPages
<1>2. Home = [b \in Blocks |-> Blank.body]
    BY DEF Init, Home
<1>3. Stray = Atomic!Nothing
    BY <1>1 DEF Stray, Atomic!Nothing
<1> QED
    BY <1>1, <1>2, <1>3, Uncommitted, NothingLogged DEF Init, Atomic!Init

LEMMA QuietMaps ==
    ASSUME RInv,
           (\E b \in Blocks : Read(b) \/ pc_evict_locked(b)) \/ journal_begin \/ UNCHANGED vars
    PROVE  UNCHANGED Atomic!vars
<1>1. UNCHANGED <<disk, hdr, log, dirty, behind>>
    BY DEF Read, pc_evict_locked, journal_begin, vars, device, cache, history
<1>2. UNCHANGED <<Pending, Logging>>
    <2>1. CASE journal_begin
        BY <2>1, NothingLogged, NothingLoggedNext DEF journal_begin
    <2>2. CASE ~journal_begin
        BY <2>2, SameTxn DEF Read, pc_evict_locked, vars
    <2> QED
        BY <2>1, <2>2
<1>3. StrayPages' = StrayPages /\ \A c \in StrayPages : page'[c] = page[c]
    <2>1. CASE journal_begin
        BY <2>1 DEF journal_begin, StrayPages, cache
    <2>2. CASE UNCHANGED vars
        BY <2>2 DEF vars, StrayPages
    <2>3. CASE \E b \in Blocks : Read(b) \/ pc_evict_locked(b)
        <3>1. pc' = pc /\ pc # "apply" /\ StrayPages = dirty /\ StrayPages' = dirty'
            BY <2>3, StrayIsDirty DEF Read, pc_evict_locked
        <3>2. \A c \in dirty : page'[c] = page[c]
            BY <2>3, Facts DEF Read, pc_evict_locked, pcache_get, Cached
        <3> QED
            BY <1>1, <3>1, <3>2
    <2> QED
        BY <2>1, <2>2, <2>3
<1> QED
    BY <1>1, <1>2, <1>3, SameLog, StraySame DEF Atomic!vars

LEMMA WritebackMaps ==
    ASSUME RInv, NEW b \in Blocks, NEW ok \in BOOLEAN, Writeback(b, ok)
    PROVE  Atomic!Next
<1>1. /\ UNCHANGED <<hdr, log, room, page, txn, active, pc, at, missed>>
      /\ pc = "idle" /\ b \in dirty /\ dirty' = dirty \ {b}
    BY DEF Writeback
<1>2. UNCHANGED <<Pending, Logging, Settling>> /\ Committed' = Committed
    BY <1>1, SameTxn, SameLog
<1>3. b \in DOMAIN Stray /\ Stray[b] = page[b].body
    BY <1>1, StrayIsDirty DEF Stray
<1>4. Stray' = Atomic!Without(Stray, {b})
    BY <1>1, StrayIsDirty, StrayWithout
<1>5. CASE ~ok
    <2>1. disk' = disk /\ behind' = behind \cup {b}
        BY <1>5 DEF Writeback
    <2> QED
        BY <1>1, <1>2, <1>3, <1>4, <2>1, SameLog DEF Atomic!Next, Atomic!WriteBack
<1>6. CASE ok
    <2>1. Home' = [Home EXCEPT ![b] = page[b].body]
        BY <1>6, Facts DEF Writeback, Home
    <2>2. CASE ~Committed
        <3>1. Settling = {} /\ Durable' = Home' /\ behind' = behind \ {b}
            BY <1>2, <1>6, <2>2, Uncommitted, UncommittedNext DEF Writeback
        <3> QED
            BY <1>2, <1>3, <1>4, <2>1, <3>1 DEF Atomic!Next, Atomic!WriteBack
    <2>3. CASE Committed
        <3>1. behind' = behind \cup {b}
            BY <1>6, <2>3 DEF Writeback
        <3>2. Settling # {}
            <4>1. 1 \in 1 .. hdr.count
                BY <2>3, Facts DEF RInv, IInv, LogBacksHeader
            <4>2. <<log[1].target, log[1].body>> \in Settling
                BY <2>3, <4>1 DEF Settling
            <4> QED
                BY <4>2
        <3>3. \A c \in Blocks : Durable'[c] = IF c \in Logged THEN Durable[c] ELSE Home'[c]
            BY <1>1, <1>2, <2>3, SameLog DEF Durable, Home, Logged
        <3>4. \A c \in Blocks : Durable[c] = IF c \in Logged THEN Durable[c] ELSE Home[c]
            BY <2>3 DEF Durable, Home
        <3>5. Durable' \in {Durable, [Durable EXCEPT ![b] = page[b].body]}
            <4>1. /\ Durable = [c \in Blocks |-> Durable[c]]
                  /\ Durable' = [c \in Blocks |-> Durable'[c]]
                  /\ Home = [c \in Blocks |-> Home[c]]
                BY DEF Durable, Home
            <4>2. CASE b \in Logged
                <5>1. \A c \in Blocks : Durable'[c] = Durable[c]
                    BY <2>1, <3>3, <3>4, <4>1, <4>2
                <5> QED
                    BY <4>1, <5>1
            <4>3. CASE b \notin Logged
                <5>1. \A c \in Blocks :
                        Durable'[c] = IF c = b THEN page[b].body ELSE Durable[c]
                    BY <2>1, <3>3, <3>4, <4>1, <4>3
                <5> QED
                    BY <4>1, <5>1
            <4> QED
                BY <4>2, <4>3
        <3> QED
            BY <1>2, <1>3, <1>4, <2>1, <3>1, <3>2, <3>5 DEF Atomic!Next, Atomic!WriteBack
    <2> QED
        BY <2>2, <2>3
<1> QED
    BY <1>5, <1>6

\* An operation is open: the device keeps what it has.
LEMMA OpenKeeps ==
    ASSUME UNCHANGED <<disk, hdr, log, behind>>
    PROVE  UNCHANGED <<Durable, Home, Settling, behind>>
BY SameLog

LEMMA UpdateMaps ==
    ASSUME RInv, NEW b \in Blocks, NEW d \in Contents,
           Update(b, d) \/ rw_log_inode(b, d)
    PROVE  Atomic!Next
<1>1. /\ UNCHANGED <<disk, hdr, log, behind>> /\ pc = "open" /\ pc' = "open"
      /\ dirty' = dirty \cup {b} /\ journal_add(b, d)
    BY DEF Update, rw_log_inode, device
<1>2. d \in Data /\ d.body \in Bodies
    BY DataFacts DEF Data
<1>3. /\ \A c \in dirty : c # b => page'[c] = page[c]
      /\ page'[b].body \in Bodies
      /\ Len(txn) < MaxTxn => page'[b] = d
    <2>1. CASE page' = [page EXCEPT ![b] = d]
        BY <1>2, <2>1, Facts
    <2>2. CASE page' = pcache_get(b) /\ ~(Len(txn) < MaxTxn)
        <3>1. b \in Cached => page[b] \in Data
            BY Facts DEF Cached
        <3>2. b \in Cached => page[b].body \in Bodies
            BY <3>1 DEF Data
        <3> QED
            BY <2>2, <3>2, Facts DEF pcache_get
    <2> QED
        BY <2>1, <2>2 DEF Update, rw_log_inode
<1>4. Stray' = Atomic!With(Stray, b, page'[b].body)
    BY <1>1, <1>3, StrayIsDirty, StrayWith
<1>5. CASE Len(txn) < MaxTxn
    BY <1>1, <1>2, <1>3, <1>4, <1>5, journal_addMaps, OpenKeeps DEF Atomic!Next, Atomic!Log
<1>6. CASE ~(Len(txn) < MaxTxn)
    BY <1>1, <1>3, <1>4, <1>6, journal_addMaps, OpenKeeps DEF Atomic!Next, Atomic!Stray
<1> QED
    BY <1>5, <1>6

LEMMA LogFreshMaps ==
    ASSUME RInv, NEW b \in Blocks, NEW d \in Contents, NEW drop \in BOOLEAN,
           LogFresh(b, d, drop)
    PROVE  Atomic!Next \/ UNCHANGED Atomic!vars
<1>1. /\ UNCHANGED <<disk, hdr, log, behind>> /\ pc = "open" /\ pc' = "open"
      /\ journal_add(b, d)
    BY DEF LogFresh, device
<1>2. d \in Data /\ d.body \in Bodies
    BY DataFacts DEF Data
<1>3. CASE drop
    <2>1. dirty' = dirty \ {b} /\ \A c \in dirty \ {b} : page'[c] = page[c]
        BY <1>3, Facts DEF LogFresh
    <2>2. Stray' = Atomic!Without(Stray, {b})
        BY <1>1, <2>1, StrayIsDirty, StrayWithout
    <2>3. CASE Len(txn) < MaxTxn
        BY <1>1, <1>2, <2>2, <2>3, journal_addMaps, OpenKeeps DEF Atomic!Next, Atomic!Log
    <2>4. CASE ~(Len(txn) < MaxTxn)
        BY <1>1, <1>2, <2>2, <2>4, journal_addMaps, OpenKeeps DEF Atomic!Next, Atomic!Stray
    <2> QED
        BY <2>3, <2>4
<1>4. CASE ~drop
    <2>1. UNCHANGED <<dirty, page>>
        BY <1>4 DEF LogFresh
    <2>2. Stray' = Stray
        BY <1>1, <2>1, StrayIsDirty, StraySame
    <2>3. CASE Len(txn) < MaxTxn
        BY <1>1, <1>2, <2>2, <2>3, journal_addMaps, OpenKeeps DEF Atomic!Next, Atomic!Log
    <2>4. CASE ~(Len(txn) < MaxTxn)
        BY <1>1, <2>2, <2>4, journal_addMaps, OpenKeeps DEF Atomic!vars
    <2> QED
        BY <2>3, <2>4
<1> QED
    BY <1>3, <1>4

\* The open operation is given up, or has nothing to commit.
LEMMA ReleaseMaps ==
    ASSUME RInv, Release, pc \in {"open", "log"},
           UNCHANGED <<disk, hdr, log, page, dirty, behind>>
    PROVE  Atomic!Next \/ UNCHANGED Atomic!vars
<1>1. Pending' = Atomic!Nothing /\ Logging' = {}
    BY NothingLoggedNext DEF Release
<1>2. Stray' = Stray
    BY StrayIsDirty, StraySame DEF Release
<1>3. CASE txn = << >>
    BY <1>1, <1>2, <1>3, NothingLogged, OpenKeeps DEF Atomic!vars
<1>4. CASE txn # << >>
    <2>1. txn[1] \in Entry
        <3>1. Len(txn) # 0
            BY <1>4, Facts
        <3> QED
            BY <3>1, Facts, EntryAt
    <2>2. txn[1].target \in Blocks /\ txn[1].data.body \in Bodies
        BY <2>1 DEF Entry, Data
    <2>3. Atomic!Abandon(txn[1].target, txn[1].data.body)
        BY <1>1, <1>2, OpenKeeps DEF Atomic!Abandon
    <2> QED
        BY <2>2, <2>3 DEF Atomic!Next
<1> QED
    BY <1>3, <1>4

LEMMA AllocateAndAbortMaps ==
    ASSUME RInv, NEW b \in Blocks, NEW d \in Contents, AllocateAndAbort(b, d)
    PROVE  Atomic!Next
<1>1. /\ UNCHANGED <<disk, hdr, log, behind>> /\ pc = "open" /\ pc' = "idle"
      /\ txn' = << >> /\ dirty' = dirty \cup {b} /\ page' = [page EXCEPT ![b] = d]
    BY DEF AllocateAndAbort, Release, device
<1>2. d \in Data /\ d.body \in Bodies
    BY DataFacts DEF Data
<1>3. page'[b] = d /\ \A c \in dirty : c # b => page'[c] = page[c]
    BY <1>1, Facts
<1>4. Stray' = Atomic!With(Stray, b, d.body)
    BY <1>1, <1>3, StrayIsDirty, StrayWith
<1>5. Atomic!Abandon(b, d.body)
    BY <1>1, <1>4, NothingLoggedNext, OpenKeeps DEF Atomic!Abandon
<1> QED
    BY <1>2, <1>5 DEF Atomic!Next

\* The header of the log is overwritten or zeroed.
LEMMA ForgetMaps ==
    ASSUME RInv, Committed, pc # "down",
           pc \in {"apply", "replay"} => at > hdr.count,
           ~Committed', UNCHANGED <<disk, behind, Pending, Logging, Stray>>
    PROVE  Atomic!Next
<1>1. Durable' = Home' /\ Settling' = {} /\ Home' = Home
    BY UncommittedNext DEF Home
<1>2. Durable' = [b \in Blocks |-> IF b \in behind THEN Home[b] ELSE Durable[b]]
    <2>1. Home = [b \in Blocks |-> Home[b]]
        BY DEF Home
    <2> QED
        BY <1>1, <2>1, GivenUp
<1>3. Atomic!Forget
    BY <1>1, <1>2 DEF Atomic!Forget
<1> QED
    BY <1>3 DEF Atomic!Next

LEMMA CommitBeginMaps ==
    ASSUME RInv, NEW ok \in BOOLEAN, CommitBegin(ok)
    PROVE  Atomic!Next \/ UNCHANGED Atomic!vars
<1>1. UNCHANGED <<disk, log, page, dirty, behind>> /\ pc = "open"
    BY DEF CommitBegin, cache
<1>2. CASE txn = << >> \/ ~ok
    BY <1>1, <1>2, ReleaseMaps DEF CommitBegin
<1>3. CASE ~(txn = << >> \/ ~ok)
    <2>1. pc' = "log" /\ txn' = txn /\ ~Committed'
        BY <1>3 DEF CommitBegin, Header, Committed
    <2>2. UNCHANGED <<Pending, Logging>>
        BY <1>1, <2>1 DEF Pending, Logging
    <2>3. Stray' = Stray
        BY <1>1, <2>1, StrayIsDirty, StraySame
    <2>4. CASE Committed
        BY <1>1, <2>1, <2>2, <2>3, <2>4, ForgetMaps
    <2>5. CASE ~Committed
        <3>1. UNCHANGED <<Durable, Home, Settling>>
            BY <1>1, <2>1, <2>5, Uncommitted, UncommittedNext DEF Home
        <3> QED
            BY <1>1, <2>2, <2>3, <3>1 DEF Atomic!vars
    <2> QED
        BY <2>4, <2>5
<1> QED
    BY <1>2, <1>3

LEMMA WriteEntryMaps ==
    ASSUME RInv, NEW ok \in BOOLEAN, WriteEntry(ok)
    PROVE  Atomic!Next \/ UNCHANGED Atomic!vars
<1>1. UNCHANGED <<disk, hdr, page, dirty, behind>> /\ pc = "log"
    BY DEF WriteEntry, cache
<1>2. CASE at > room \/ ~ok
    BY <1>1, <1>2, ReleaseMaps DEF WriteEntry
<1>3. CASE ~(at > room \/ ~ok)
    <2>1. UNCHANGED <<txn, pc>>
        BY <1>3 DEF WriteEntry
    <2>2. ~Committed /\ ~Committed'
        BY <1>1 DEF RInv, IInv, LogBacksHeader, Committed
    <2>3. UNCHANGED <<Durable, Home, Settling>>
        BY <1>1, <2>2, Uncommitted, UncommittedNext DEF Home
    <2>4. Stray' = Stray
        BY <1>1, <2>1, StrayIsDirty, StraySame
    <2> QED
        BY <1>1, <2>1, <2>3, <2>4, SameTxn DEF Atomic!vars
<1> QED
    BY <1>2, <1>3

LEMMA RecoversNext == ASSUME RInv, [Next]_vars PROVE Recovers'
<1>1. RInv'
    BY NextRInv
<1>2. (RInv => Recovers)'
    BY DurableAt, PTL
<1> QED
    BY <1>1, <1>2

\* The commit mark: every logged update appears at once.
LEMMA WriteCommitMaps ==
    ASSUME RInv, NEW ok \in BOOLEAN, WriteCommit(ok)
    PROVE  Atomic!Next \/ UNCHANGED Atomic!vars
<1>1. UNCHANGED <<disk, log, page, dirty>> /\ pc = "log" /\ at > Len(txn)
    BY DEF WriteCommit, cache
<1>2. CASE ~ok
    BY <1>1, <1>2, ReleaseMaps DEF WriteCommit
<1>3. CASE ok
    <2> DEFINE n == Len(txn)
    <2>1. /\ hdr' = Header(1, n) /\ pc' = "apply" /\ txn' = txn
          /\ behind' = behind \ Targets(txn)
        BY <1>3 DEF WriteCommit
    <2>2. ~Committed /\ Committed' /\ hdr'.count = n /\ n \in Nat
        BY <1>1, <2>1, Facts DEF RInv, IInv, LogBacksHeader, Committed, Header
    <2>3. \A i \in 1 .. n : log[i] = Line(txn[i])
        BY <1>1, Facts DEF RInv, LogMirrors, IInv, TypeOK
    <2>4. ASSUME NEW i \in 1 .. n
          PROVE  log[i].target = txn[i].target /\ log[i].body = txn[i].data.body
        <3>1. log[i] = Line(txn[i])
            BY <2>3
        <3> QED
            BY <3>1 DEF Line
    <2>5. DOMAIN txn = 1 .. n
        BY Facts
    <2> HIDE DEF n
    <2>6. /\ Logged' = Targets(txn) /\ DOMAIN Pending = Targets(txn)
          /\ Pending = [b \in Targets(txn) |-> txn[Last(txn, n, b)].data.body]
        BY <1>1, <2>2, <2>4, <2>5 DEF Logged, Targets, Pending, n
    <2>7. Settling' = Logging
        BY <1>1, <2>2, <2>4, <2>5 DEF Settling, Logging
    <2>8. Pending' = Atomic!Nothing /\ Logging' = {}
        BY <2>1, NothingLoggedNext
    <2>9. Stray' = Atomic!Without(Stray, DOMAIN Pending)
        <3>1. StrayPages = dirty /\ StrayPages' = dirty \ Targets(txn)
            BY <1>1, <2>1 DEF StrayPages
        <3> QED
            BY <1>1, <2>6, <3>1, StrayWithout
    <2>10. Recovers'
        <3>1. Next
            BY <1>3 DEF Next
        <3> QED
            BY <3>1, RecoversNext
    <2>11. ASSUME NEW b \in Targets(txn) PROVE Durable'[b] = Pending[b]
        <3>1. PICK i \in 1 .. n : IsLast(log, n, i) /\ log[i].target = b
            BY <1>1, <2>2, <2>6, <2>10 DEF Recovers
        <3>2. Durable'[b] = log[i].body
            BY <1>1, <2>2, <2>10, <3>1 DEF Recovers
        <3>3. IsLast(txn, n, i) /\ txn[i].target = b
            BY <2>2, <2>4, <3>1 DEF IsLast
        <3>4. Last(txn, n, b) = i
            BY <2>2, <3>3, LastIs
        <3> QED
            BY <2>4, <2>6, <3>2, <3>4
    <2>12. Durable' = [b \in Blocks |-> IF b \in DOMAIN Pending THEN Pending[b] ELSE Durable[b]]
        <3>1. Durable' = [b \in Blocks |-> Durable'[b]]
            BY DEF Durable
        <3>2. \A b \in Blocks \ Targets(txn) : Durable'[b] = Home'[b]
            BY <2>2, <2>6, <2>10 DEF Recovers
        <3>3. Durable = Home /\ Home' = Home
            BY <1>1, <2>2, Uncommitted DEF Home
        <3> QED
            BY <2>6, <2>11, <3>1, <3>2, <3>3
    <2>13. Atomic!Commit
        BY <1>1, <2>1, <2>6, <2>7, <2>8, <2>9, <2>12 DEF Atomic!Commit, Home
    <2> QED
        BY <2>13 DEF Atomic!Next
<1> QED
    BY <1>2, <1>3

\* A committed update is written home: no more is durable than was.
LEMMA SettleMaps ==
    ASSUME RInv, Committed, UNCHANGED <<hdr, log, txn, pc>>, pc \in {"apply", "replay"},
           NEW i \in 1 .. hdr.count, NEW d,
           d.body = log[i].body, disk' = [disk EXCEPT ![log[i].target] = d],
           behind' = behind \ {log[i].target},
           dirty' = dirty \ {log[i].target},
           page' = [page EXCEPT ![log[i].target] = None]
    PROVE  Atomic!Next
<1> DEFINE b == log[i].target
<1>1. b \in Blocks /\ b \in Logged
    BY LoggedBlocks DEF RInv, IInv, Logged
<1>2. log[i].body \in Bodies
    BY LoggedBlocks DEF RInv, IInv, TypeOK
<1>3. <<b, log[i].body>> \in Settling
    BY DEF Settling
<1>4. Home' = [Home EXCEPT ![b] = log[i].body]
    BY <1>1, Facts DEF Home
<1>5. Stray' = Atomic!Without(Stray, {b})
    <2>1. StrayPages' = StrayPages \ {b}
        BY DEF StrayPages
    <2>2. StrayPages \ {b} \subseteq Blocks \ {b}
        BY Facts DEF StrayPages
    <2>3. \A c \in StrayPages \ {b} : page'[c] = page[c]
        BY <1>1, <2>2, Facts
    <2> QED
        BY <2>1, <2>3, StrayWithout
<1>6. Durable' = Durable
    <2>1. Logged' = Logged /\ Committed'
        BY SameLog
    <2>2. \A c \in Blocks \ {b} : disk'[c] = disk[c]
        BY Facts
    <2> HIDE DEF b
    <2> QED
        BY <1>1, <2>1, <2>2 DEF Durable
<1> HIDE DEF b
<1>7. Atomic!Settle(b, log[i].body)
    BY <1>3, <1>4, <1>5, <1>6, SameTxn, SameLog DEF Atomic!Settle, b
<1> QED
    BY <1>1, <1>2, <1>7 DEF Atomic!Next

\* The device refuses committed updates: nothing changes but what is behind.
LEMMA RefuseMaps ==
    ASSUME RInv, NEW bs \in SUBSET Blocks, behind' = behind \cup bs,
           UNCHANGED <<disk, hdr, log, Pending, Logging, Stray>>
    PROVE  Atomic!Next
<1>1. Atomic!Refuse(bs)
    BY SameLog DEF Atomic!Refuse
<1> QED
    BY <1>1 DEF Atomic!Next

LEMMA ApplyMaps ==
    ASSUME RInv, NEW ok \in BOOLEAN, Apply(ok)
    PROVE  Atomic!Next
<1> DEFINE b == txn[at].target
<1>1. /\ pc = "apply" /\ at <= Len(txn) /\ UNCHANGED <<hdr, log, txn, pc>>
      /\ page' = [page EXCEPT ![b] = None] /\ dirty' = dirty \ {b}
    BY DEF Apply
<1>2. at \in 1 .. hdr.count /\ Committed /\ log[at] = Line(txn[at])
    BY <1>1, Facts DEF RInv, LogMirrors, IInv, TypeOK
<1>3. log[at].target = b /\ log[at].body = txn[at].data.body
    BY <1>2 DEF Line
<1>4. b \in Blocks
    BY <1>2, <1>3, LoggedBlocks DEF RInv, IInv
<1>5. CASE ok
    <2>1. disk' = [disk EXCEPT ![b] = txn[at].data] /\ behind' = behind \ {b}
        BY <1>5 DEF Apply
    <2> HIDE DEF b
    <2> QED
        BY <1>1, <1>2, <1>3, <2>1, SettleMaps
<1>6. CASE ~ok
    <2>1. disk' = disk /\ behind' = behind \cup {b}
        BY <1>6 DEF Apply
    <2>2. b \in Targets(txn)
        BY <1>1, Facts DEF Targets, RInv, IInv, TypeOK
    <2> HIDE DEF b
    <2>3. StrayPages' = StrayPages /\ b \notin StrayPages
        BY <1>1, <2>2 DEF StrayPages
    <2>4. \A c \in StrayPages : page'[c] = page[c]
        BY <1>1, <2>3, Facts DEF StrayPages
    <2> QED
        BY <1>1, <1>4, <2>1, <2>3, <2>4, StraySame, SameTxn, RefuseMaps
<1> QED
    BY <1>5, <1>6

LEMMA CommitEndMaps ==
    ASSUME RInv, NEW ok \in BOOLEAN, CommitEnd(ok)
    PROVE  Atomic!Next \/ UNCHANGED Atomic!vars
<1>1. /\ UNCHANGED <<disk, log, page, dirty, behind>> /\ pc = "apply" /\ at > Len(txn)
      /\ txn' = << >> /\ pc' = "idle"
    BY DEF CommitEnd, Release, cache
<1>2. Committed /\ hdr.count = Len(txn)
    BY <1>1 DEF RInv, LogMirrors
<1>3. UNCHANGED <<Pending, Logging>>
    BY <1>1, NothingLogged, NothingLoggedNext
<1>4. Stray' = Stray
    <2>1. \A i \in DOMAIN txn : txn[i].target \notin dirty
        BY <1>1, Facts DEF RInv, PagesDropped
    <2>2. StrayPages = dirty /\ StrayPages' = dirty
        BY <1>1, <2>1 DEF StrayPages, Targets
    <2> QED
        BY <1>1, <2>2, StraySame
<1>5. CASE ok
    <2>1. ~Committed'
        BY <1>5 DEF CommitEnd, Zeroed, Committed
    <2> QED
        BY <1>1, <1>2, <1>3, <1>4, <2>1, ForgetMaps
<1>6. CASE ~ok
    BY <1>1, <1>3, <1>4, <1>6, OpenKeeps DEF CommitEnd, Atomic!vars
<1> QED
    BY <1>5, <1>6

LEMMA CrashMaps == ASSUME RInv, Crash PROVE Atomic!Next
<1>1. /\ UNCHANGED <<disk, hdr, log, behind>> /\ txn' = << >> /\ dirty' = {} /\ pc' = "down"
    BY DEF Crash, device
<1>2. Stray' = Atomic!Nothing
    BY <1>1 DEF Stray, StrayPages, Atomic!Nothing
<1>3. Atomic!Crash
    BY <1>1, <1>2, NothingLoggedNext, OpenKeeps DEF Atomic!Crash
<1> QED
    BY <1>3 DEF Atomic!Next

LEMMA MountMaps ==
    ASSUME RInv, NEW ok \in BOOLEAN, Mount(ok)
    PROVE  Atomic!Next \/ UNCHANGED Atomic!vars
<1>1. /\ UNCHANGED <<disk, log, page, dirty, txn>>
      /\ pc \notin {"open", "log", "apply"} /\ pc' \notin {"open", "log", "apply"}
      /\ hdr' = hdr \/ (~Committed /\ ~Committed')
    BY DEF Mount, cache, Committed, Zeroed
<1>2. UNCHANGED <<Pending, Logging>>
    BY <1>1, NothingLogged, NothingLoggedNext
<1>3. Stray' = Stray
    BY <1>1, StrayIsDirty, StraySame
<1>4. CASE Committed /\ ~ok
    <2>1. behind' = behind \cup Logged /\ hdr' = hdr
        BY <1>4 DEF Mount
    <2>2. Logged \in SUBSET Blocks
        BY <1>4, LoggedBlocks DEF RInv, IInv, Logged
    <2> QED
        BY <1>1, <1>2, <1>3, <2>1, <2>2, RefuseMaps
<1>5. CASE ~(Committed /\ ~ok)
    <2>1. behind' = behind
        BY <1>5 DEF Mount
    <2>2. UNCHANGED <<Durable, Home, Settling>>
        <3>1. CASE hdr' = hdr
            BY <1>1, <3>1, SameLog
        <3>2. CASE ~Committed /\ ~Committed'
            BY <1>1, <3>2, Uncommitted, UncommittedNext DEF Home
        <3> QED
            BY <1>1, <3>1, <3>2
    <2> QED
        BY <1>2, <1>3, <2>1, <2>2 DEF Atomic!vars
<1> QED
    BY <1>4, <1>5

LEMMA ReplayMaps ==
    ASSUME RInv, NEW ok \in BOOLEAN, NEW t \in Tails, Replay(ok, t)
    PROVE  Atomic!Next
<1>1. UNCHANGED <<hdr, log, txn>> /\ pc = "replay" /\ Committed /\ at \in 1 .. hdr.count
    BY Facts DEF Replay, RInv, IInv, Placed, TypeOK
<1>2. CASE ok
    <2> DEFINE d == [body |-> log[at].body, tail |-> t]
    <2>1. /\ disk' = [disk EXCEPT ![log[at].target] = d]
          /\ page' = [page EXCEPT ![log[at].target] = None]
          /\ dirty' = dirty \ {log[at].target}
          /\ behind' = behind \ {log[at].target} /\ pc' = pc
        BY <1>2 DEF Replay
    <2>2. d.body = log[at].body
        OBVIOUS
    <2> HIDE DEF d
    <2> QED
        BY <1>1, <2>1, <2>2, SettleMaps
<1>3. CASE ~ok
    <2> DEFINE bs == {log[i].target : i \in at .. hdr.count}
    <2>1. behind' = behind \cup bs /\ pc' = "idle" /\ UNCHANGED <<disk, page, dirty>>
        BY <1>3 DEF Replay, cache
    <2>2. bs \in SUBSET Blocks
        <3>1. \A i \in at .. hdr.count : i \in 1 .. hdr.count
            BY <1>1, Facts
        <3> QED
            BY <1>1, <3>1, LoggedBlocks DEF RInv, IInv
    <2> HIDE DEF bs
    <2>3. UNCHANGED <<Pending, Logging>>
        BY <1>1, <2>1, NothingLogged, NothingLoggedNext
    <2>4. Stray' = Stray
        BY <1>1, <2>1, StrayIsDirty, StraySame
    <2> QED
        BY <1>1, <2>1, <2>2, <2>3, <2>4, RefuseMaps
<1> QED
    BY <1>2, <1>3

LEMMA RecoverEndMaps ==
    ASSUME RInv, NEW ok \in BOOLEAN, RecoverEnd(ok)
    PROVE  Atomic!Next \/ UNCHANGED Atomic!vars
<1>1. /\ UNCHANGED <<disk, log, page, dirty, behind>> /\ pc = "replay" /\ pc' = "idle"
      /\ at > hdr.count /\ Committed
    BY DEF RecoverEnd, cache, history, RInv, IInv, Placed
<1>2. UNCHANGED <<Pending, Logging>>
    BY <1>1, NothingLogged, NothingLoggedNext
<1>3. Stray' = Stray
    BY <1>1, StrayIsDirty, StraySame
<1>4. CASE ok
    <2>1. ~Committed'
        BY <1>4 DEF RecoverEnd, Zeroed, Committed
    <2> QED
        BY <1>1, <1>2, <1>3, <2>1, ForgetMaps
<1>5. CASE ~ok
    BY <1>1, <1>2, <1>3, <1>5, OpenKeeps DEF RecoverEnd, Atomic!vars
<1> QED
    BY <1>4, <1>5

LEMMA NextMaps == RInv /\ [Next]_vars => [Atomic!Next]_(Atomic!vars)
<1> SUFFICES ASSUME RInv, [Next]_vars PROVE Atomic!Next \/ UNCHANGED Atomic!vars
    OBVIOUS
<1>1. ASSUME (\E b \in Blocks : Read(b) \/ pc_evict_locked(b)) \/ journal_begin
             \/ UNCHANGED vars
      PROVE  Atomic!Next \/ UNCHANGED Atomic!vars
    BY <1>1, QuietMaps
<1>2. ASSUME NEW b \in Blocks, NEW ok \in BOOLEAN, Writeback(b, ok)
      PROVE  Atomic!Next \/ UNCHANGED Atomic!vars
    BY <1>2, WritebackMaps
<1>3. ASSUME NEW b \in Blocks, NEW d \in Contents,
             \/ Update(b, d) \/ rw_log_inode(b, d) \/ AllocateAndAbort(b, d)
             \/ \E drop \in BOOLEAN : LogFresh(b, d, drop)
      PROVE  Atomic!Next \/ UNCHANGED Atomic!vars
    BY <1>3, UpdateMaps, AllocateAndAbortMaps, LogFreshMaps
<1>4. ASSUME Abort
      PROVE  Atomic!Next \/ UNCHANGED Atomic!vars
    BY <1>4, ReleaseMaps DEF Abort, device, cache
<1>5. ASSUME NEW ok \in BOOLEAN,
             CommitBegin(ok) \/ WriteEntry(ok) \/ WriteCommit(ok) \/ Apply(ok) \/ CommitEnd(ok)
      PROVE  Atomic!Next \/ UNCHANGED Atomic!vars
    BY <1>5, CommitBeginMaps, WriteEntryMaps, WriteCommitMaps, ApplyMaps, CommitEndMaps
<1>6. ASSUME NEW ok \in BOOLEAN, Mount(ok) \/ RecoverEnd(ok)
      PROVE  Atomic!Next \/ UNCHANGED Atomic!vars
    BY <1>6, MountMaps, RecoverEndMaps
<1>7. ASSUME NEW ok \in BOOLEAN, NEW t \in Tails, Replay(ok, t)
      PROVE  Atomic!Next \/ UNCHANGED Atomic!vars
    BY <1>7, ReplayMaps
<1>8. CASE Crash
    BY <1>8, CrashMaps
<1> QED
    BY <1>1, <1>2, <1>3, <1>4, <1>5, <1>6, <1>7, <1>8 DEF Next

\* The journal and the page cache implement the atomic store, wherever the machine
\* stops and whatever the device refuses: an operation's updates become durable all
\* at once and by its commit mark.
THEOREM Refinement == Spec => Implements
<1>1. Init => Atomic!Init
    BY InitMaps
<1>2. RInv /\ [Next]_vars => [Atomic!Next]_(Atomic!vars)
    BY NextMaps
<1>3. Spec => []RInv
    BY InitRInv, NextRInv, PTL DEF Spec
<1> QED
    BY <1>1, <1>2, <1>3, PTL DEF Spec, Implements, Atomic!Spec

============================================================================
