---------------------------- MODULE AtomicStore ----------------------------
(***************************************************************************)
(* What the journal (kernel/arch/x64/block/journal.c) and the page cache   *)
(* together promise of the disk, told without log, header or replay.       *)
(*                                                                         *)
(* store is what the next mount would find if the machine stopped now.  It *)
(* changes for three reasons only: an operation commits, and all the       *)
(* updates it logged appear at once; a page that an operation changed      *)
(* without committing it is written back; or the device had refused to     *)
(* write a block home, and that block falls back to what is there.         *)
(***************************************************************************)
CONSTANTS Blocks, Bodies, Blank

VARIABLES
    store,    \* block -> the contents a recovery now would leave
    home,     \* block -> the contents at the block's own place
    txn,      \* the updates the open operation has logged, the newest per block
    logged,   \* all of them, as pairs <<block, contents>>
    settling, \* those of the committed operation that is being written home
    stray,    \* contents that operations have put into memory and not committed
    behind    \* blocks whose home the device has left behind

vars == <<store, home, txn, logged, settling, stray, behind>>

Nothing == [b \in {} |-> Blank]

Init ==
    /\ store = [b \in Blocks |-> Blank]
    /\ home = store
    /\ txn = Nothing
    /\ logged = {} /\ settling = {}
    /\ stray = Nothing
    /\ behind = {}

\* f with b mapped to v; f without the blocks bs.
With(f, b, v) == [c \in DOMAIN f \cup {b} |-> IF c = b THEN v ELSE f[c]]
Without(f, bs) == [c \in DOMAIN f \ bs |-> f[c]]

\* An operation logs an update of b, and changes b's page, drops it, or neither.
Log(b, v) ==
    /\ txn' = With(txn, b, v)
    /\ logged' = logged \cup {<<b, v>>}
    /\ stray' \in {stray, With(stray, b, v), Without(stray, {b})}
    /\ UNCHANGED <<store, home, settling, behind>>

\* An operation changes a page, or drops it, without logging anything.
Stray(b, v) ==
    /\ stray' \in {With(stray, b, v), Without(stray, {b})}
    /\ UNCHANGED <<store, home, txn, logged, settling, behind>>

\* It gives up, and may leave one more page changed.
Abandon(b, v) ==
    /\ txn' = Nothing
    /\ logged' = {}
    /\ stray' \in {stray, With(stray, b, v)}
    /\ UNCHANGED <<store, home, settling, behind>>

\* The commit point: everything that was logged, at once.
Commit ==
    /\ store' = [b \in Blocks |-> IF b \in DOMAIN txn THEN txn[b] ELSE store[b]]
    /\ txn' = Nothing
    /\ logged' = {}
    /\ settling' = logged
    /\ stray' = Without(stray, DOMAIN txn)
    /\ behind' = behind \ DOMAIN txn
    /\ UNCHANGED home

\* A committed update, perhaps not the newest of its block, reaches its home; a
\* page of that block is dropped.
Settle(b, v) ==
    /\ <<b, v>> \in settling
    /\ home' = [home EXCEPT ![b] = v]
    /\ behind' = behind \ {b}
    /\ stray' = Without(stray, {b})
    /\ UNCHANGED <<store, txn, logged, settling>>

\* The device refuses to write, or on recovery to read, committed updates.
Refuse(bs) ==
    /\ behind' = behind \cup bs
    /\ UNCHANGED <<store, home, txn, logged, settling, stray>>

\* A stray page is written home, or the device refuses that.  It is what a recovery
\* finds, unless a log that could not be cleaned covers the block.
WriteBack(b) ==
    /\ b \in DOMAIN stray
    /\ stray' = Without(stray, {b})
    /\ \/ /\ home' = [home EXCEPT ![b] = stray[b]]
          /\ IF settling = {}
             THEN store' = home' /\ behind' = behind \ {b}
             ELSE store' \in {store, [store EXCEPT ![b] = stray[b]]}
                  /\ behind' = behind \cup {b}
       \/ behind' = behind \cup {b} /\ UNCHANGED <<store, home>>
    /\ UNCHANGED <<txn, logged, settling>>

\* The log is given up: what was left behind falls back to what is at home.
Forget ==
    /\ settling' = {}
    /\ store' = [b \in Blocks |-> IF b \in behind THEN home[b] ELSE store[b]]
    /\ UNCHANGED <<home, txn, logged, stray, behind>>

\* Memory is lost; what is durable is not.
Crash ==
    /\ txn' = Nothing
    /\ logged' = {}
    /\ stray' = Nothing
    /\ UNCHANGED <<store, home, settling, behind>>

Next ==
    \/ \E b \in Blocks, v \in Bodies :
            Log(b, v) \/ Stray(b, v) \/ Abandon(b, v) \/ Settle(b, v)
    \/ \E b \in Blocks : WriteBack(b)
    \/ \E bs \in SUBSET Blocks : Refuse(bs)
    \/ Commit \/ Forget \/ Crash

Spec == Init /\ [][Next]_vars

============================================================================
