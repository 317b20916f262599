------------------------------- MODULE Futex -------------------------------
(***************************************************************************)
(* Futexes (futex.c) under the mutex and the condition variable of the     *)
(* user library (pthread.c): the threads of one process share one mutex    *)
(* and one condition variable.  User code is preempted between any two     *)
(* instructions, so each atomic access is a step; a system call runs with  *)
(* interrupts disabled up to schedule(), so it is one step, and so is the  *)
(* tick.                                                                   *)
(***************************************************************************)
EXTENDS Integers, Sequences, FiniteSets, SequencesExt, Lists

CONSTANTS Threads,      \* the threads of the process; each is a task
          Killable,     \* those the out-of-memory killer may choose
          KillSleeping, \* whether it may choose one that sleeps here
          Buckets,      \* indices of g_buckets
          Bucket,       \* the bucket of each of the two words
          Timeout,      \* 100000 ticks in the library
          Wrap,         \* 2^32: the sequence word wraps
          None

Addrs == {"lock", "seq"}

ASSUME FutexAssumption ==
    /\ IsFiniteSet(Threads) /\ Killable \subseteq Threads
    /\ KillSleeping \in BOOLEAN
    /\ Bucket \in [Addrs -> Buckets]
    /\ Timeout \in Nat /\ Timeout >= Cardinality(Threads)
    /\ Wrap \in Nat /\ Wrap > 1
    /\ None \notin Nat

VARIABLES
    mem,        \* the words: lock, waiters (pthread_mutex_t), seq (pthread_cond_t)
    g_futex_tick, \* the tick counter, modulo 2
    g_buckets,  \* the wait nodes of each bucket, by thread: a node is on its stack
    node,       \* uaddr and ticks left of the node of each thread
    state,      \* ready, blocked, dead, freed
    pc,         \* what the thread does next
    call,       \* a wake in progress: count and where the library returns to
    snap        \* the seq that pthread_cond_wait read, None outside it

fvars == <<mem, g_futex_tick, g_buckets, node, state, pc, call, snap>>

Idle == [count |-> 0, back |-> "idle"]
NoNode == [uaddr |-> "lock", left |-> 0]

Init ==
    /\ mem = [lock |-> 0, waiters |-> 0, seq |-> 0]
    /\ g_futex_tick = 0
    /\ g_buckets = [b \in Buckets |-> <<>>]
    /\ node = [t \in Threads |-> NoNode]
    /\ state = [t \in Threads |-> "ready"]
    /\ pc = [t \in Threads |-> "idle"]
    /\ call = [t \in Threads |-> Idle]
    /\ snap = [t \in Threads |-> None]

\* user_thread_spawn makes every thread a task of its own, and alloc_pid gives
\* every task a pid of its own: w.pid and self_pid are the thread's.
pid(t) == t

At(t, p) == state[t] = "ready" /\ pc[t] = p
Goto(t, p) == pc' = [pc EXCEPT ![t] = p]

-----------------------------------------------------------------------------
(* The kernel's side *)

\* The word still has the expected value: the thread links a node and blocks.
futex_wait(t, a, expected, passed) ==
    LET b == Bucket[a] IN
    IF mem[a] # expected
    THEN /\ Goto(t, passed)
         /\ UNCHANGED <<g_buckets, node, state>>
    ELSE /\ g_buckets' = [g_buckets EXCEPT ![b] = <<t>> \o @]
         /\ node' = [node EXCEPT ![t] = [uaddr |-> a, left |-> Timeout]]
         /\ state' = [state EXCEPT ![t] = "blocked"]
         /\ Goto(t, "resume")

\* sched_enqueue_thread does nothing to a dead thread.
Enqueue(T) == [t \in Threads |-> IF t \in T /\ state[t] = "blocked"
                                 THEN "ready" ELSE state[t]]
Unlink(b, T) == [g_buckets EXCEPT ![b] = Without(@, T)]

\* futex_wake takes the first count nodes with this address and the caller's pid.
futex_wake(t, a, count) ==
    LET others == { u \in Threads : node[u].uaddr # a \/ pid(u) # pid(t) }
        mine == Without(g_buckets[Bucket[a]], others)
        chosen == { mine[i] : i \in { j \in DOMAIN mine : j <= count } }
    IN  /\ g_buckets' = Unlink(Bucket[a], chosen)
        /\ state' = Enqueue(chosen)

\* The thread runs again and unlinks its node should it still be linked.
Resume(t) ==
    LET a == node[t].uaddr IN
    /\ At(t, "resume")
    /\ g_buckets' = Unlink(Bucket[a], {t})
    /\ node' = [node EXCEPT ![t] = NoNode]
    /\ Goto(t, IF a = "lock" THEN "sub" ELSE "cas")
    /\ UNCHANGED <<mem, g_futex_tick, state, call, snap>>

\* futex_tick ends every wait of a bucket whose time has come; where the batch
\* cannot be allocated the rescan runs to the end of the list after the first.
Expired(left, b) == { t \in ToSet(g_buckets[b]) : left[t] = 0 }
FirstExpired(left, b) == Head(Without(g_buckets[b], { t \in Threads : left[t] > 0 }))
\* Mutant: without memory the bucket is left for a better time.
Ended_Skipped(left, b, allocated) == IF allocated THEN Expired(left, b) ELSE {}

Ended(left, b, allocated) ==
    IF Expired(left, b) = {} THEN {}
    ELSE IF allocated THEN Expired(left, b) ELSE {FirstExpired(left, b)}

\* Mutant: the batch array of one thread, as the fixed array of 16 once was: the
\* threads past its end lose their node and are not woken.
futex_tick_ShortBatch(allocated) ==
    LET left == [t \in Threads |-> IF node[t].left > 0 THEN node[t].left - 1 ELSE 0]
        late == { b \in Buckets : Expired(left, b) # {} }
    IN  /\ node' = [t \in Threads |-> [node[t] EXCEPT !.left = left[t]]]
        /\ g_buckets' = [b \in Buckets |->
                            Without(g_buckets[b], { t \in Threads : left[t] = 0 })]
        /\ state' = Enqueue({ FirstExpired(left, b) : b \in late })

futex_tick(allocated) ==
    LET left == [t \in Threads |-> IF node[t].left > 0 THEN node[t].left - 1 ELSE 0]
        ended == [b \in Buckets |-> Ended(left, b, allocated[b])]
    IN  /\ node' = [t \in Threads |-> [node[t] EXCEPT !.left = left[t]]]
        /\ g_buckets' = [b \in Buckets |-> Without(g_buckets[b], ended[b])]
        /\ state' = Enqueue(UNION { ended[b] : b \in Buckets })

Tick ==
    /\ g_futex_tick' = 1 - g_futex_tick
    /\ \E allocated \in [Buckets -> BOOLEAN] : futex_tick(allocated)
    /\ UNCHANGED <<mem, pc, call, snap>>

\* oom_tick_reap marks the victim dead and takes it out of the ready list, but
\* leaves its wait node; its parent's join frees its stack afterwards.
Kill(t) ==
    /\ t \in Killable /\ state[t] \in {"ready", "blocked"}
    /\ state[t] = "blocked" => KillSleeping
    /\ state' = [state EXCEPT ![t] = "dead"]
    /\ UNCHANGED <<mem, g_futex_tick, g_buckets, node, pc, call, snap>>

Free(t) ==
    /\ state[t] = "dead"
    /\ state' = [state EXCEPT ![t] = "freed"]
    /\ UNCHANGED <<mem, g_futex_tick, g_buckets, node, pc, call, snap>>

-----------------------------------------------------------------------------
(* The library's side.  pthread_mutex_lock: *)

Cas(t) ==
    /\ At(t, "idle") \/ At(t, "cas")
    /\ IF mem.lock = 0
       THEN mem' = [mem EXCEPT !.lock = 1] /\ Goto(t, "cs")
       ELSE mem' = mem /\ Goto(t, "add")
    /\ UNCHANGED <<g_futex_tick, g_buckets, node, state, call, snap>>

AddWaiter(t) ==
    /\ At(t, "add")
    /\ mem' = [mem EXCEPT !.waiters = @ + 1]
    /\ Goto(t, "lockwait")
    /\ UNCHANGED <<g_futex_tick, g_buckets, node, state, call, snap>>

LockWait(t) ==
    /\ At(t, "lockwait")
    /\ futex_wait(t, "lock", 1, "sub")
    /\ UNCHANGED <<mem, g_futex_tick, call, snap>>

SubWaiter(t) ==
    /\ At(t, "sub")
    /\ mem' = [mem EXCEPT !.waiters = @ - 1]
    /\ Goto(t, "cas")
    /\ UNCHANGED <<g_futex_tick, g_buckets, node, state, call, snap>>

(* pthread_mutex_unlock, called on its own or by pthread_cond_wait: *)

Unlock(t) ==
    /\ At(t, "cs")
    /\ mem' = [mem EXCEPT !.lock = 0]
    /\ Goto(t, "load")
    /\ UNCHANGED <<g_futex_tick, g_buckets, node, state, call, snap>>

AfterUnlock(t) == IF snap[t] = None THEN "idle" ELSE "condwait"

LoadWaiters(t) ==
    /\ At(t, "load")
    /\ IF mem.waiters > 0
       THEN /\ Goto(t, "wake")
            /\ call' = [call EXCEPT ![t] = [count |-> 1, back |-> AfterUnlock(t)]]
       ELSE Goto(t, AfterUnlock(t)) /\ UNCHANGED call
    /\ UNCHANGED <<mem, g_futex_tick, g_buckets, node, state, snap>>

UnlockWake(t) ==
    /\ At(t, "wake")
    /\ futex_wake(t, "lock", call[t].count)
    /\ Goto(t, call[t].back)
    /\ call' = [call EXCEPT ![t] = Idle]
    /\ UNCHANGED <<mem, g_futex_tick, node, snap>>

(* pthread_cond_wait reads seq, unlocks, sleeps while seq is the same, locks. *)

CondWait(t) ==
    /\ At(t, "cs") /\ snap[t] = None
    /\ snap' = [snap EXCEPT ![t] = mem.seq]
    /\ UNCHANGED <<mem, g_futex_tick, g_buckets, node, state, pc, call>>

\* Mutant: pthread_cond_wait takes a changed seq for the end and does not relock.
CondSleep_NoRelock(t) ==
    /\ At(t, "condwait")
    /\ futex_wait(t, "seq", snap[t], "cs")
    /\ snap' = [snap EXCEPT ![t] = None]
    /\ UNCHANGED <<mem, g_futex_tick, call>>

CondSleep(t) ==
    /\ At(t, "condwait")
    /\ futex_wait(t, "seq", snap[t], "cas")
    /\ snap' = [snap EXCEPT ![t] = None]
    /\ UNCHANGED <<mem, g_futex_tick, call>>

(* pthread_cond_signal and pthread_cond_broadcast, with or without the mutex. *)

Signal(t, count) ==
    /\ At(t, "idle") \/ (At(t, "cs") /\ snap[t] = None)
    /\ mem' = [mem EXCEPT !.seq = (@ + 1) % Wrap]
    /\ call' = [call EXCEPT ![t] = [count |-> count, back |-> pc[t]]]
    /\ Goto(t, "condwake")
    /\ UNCHANGED <<g_futex_tick, g_buckets, node, state, snap>>

CondWake(t) ==
    /\ At(t, "condwake")
    /\ futex_wake(t, "seq", call[t].count)
    /\ Goto(t, call[t].back)
    /\ call' = [call EXCEPT ![t] = Idle]
    /\ UNCHANGED <<mem, g_futex_tick, node, snap>>

-----------------------------------------------------------------------------
Step(t) ==
    \/ Cas(t) \/ AddWaiter(t) \/ LockWait(t) \/ SubWaiter(t)
    \/ Unlock(t) \/ LoadWaiters(t) \/ UnlockWake(t)
    \/ CondWait(t) \/ CondSleep(t)
    \/ Signal(t, 1) \/ Signal(t, Cardinality(Threads)) \/ CondWake(t)
    \/ Resume(t)

Next == Tick \/ \E t \in Threads : Step(t) \/ Kill(t) \/ Free(t)

Spec == Init /\ [][Next]_fvars /\ WF_fvars(Tick)

-----------------------------------------------------------------------------
(* Properties *)

\* A node is in the bucket of its address, once, exactly while its thread is
\* asleep: a lost node is a sleep without end, a stale one is an entry for a
\* stack frame that is gone (futex_wait, futex_wake, futex_tick).
SleepersLinked ==
    \A b \in Buckets : \A t \in Threads :
        Cardinality({ i \in DOMAIN g_buckets[b] : g_buckets[b][i] = t })
            = IF state[t] = "blocked" /\ Bucket[node[t].uaddr] = b THEN 1 ELSE 0

\* The lock word counts the owners: at most one thread is between a successful
\* compare-and-swap and its store of 0, a killed owner included, through every
\* sleep, time-out, unlock inside pthread_cond_wait and relock.
Owners == { t \in Threads : pc[t] = "cs" \/ (pc[t] = "condwake" /\ call[t].back = "cs") }
LockCountsOwners == Cardinality(Owners) = mem.lock

\* Every sleep ends, whoever forgets to wake: the tick finds the deadline even
\* when it never gets the memory for its batch (futex_tick).
SleepEnds == \A t \in Threads : state[t] = "blocked" ~> state[t] # "blocked"

\* futex.h: the pid in a node keeps the same address in different processes
\* apart; in one process FutexWake wakes somebody who sleeps on the address.
WakeReaches ==
    [][\A t \in Threads :
         UnlockWake(t) /\ (\E u \in Threads : state[u] = "blocked" /\ node[u].uaddr = "lock")
            => \E u \in Threads : state[u] = "blocked" /\ state'[u] = "ready"]_fvars

============================================================================
