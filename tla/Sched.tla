------------------------------- MODULE Sched -------------------------------
(***************************************************************************)
(* The kernel scheduler, kernel/arch/x64/sched.c: three ready queues with  *)
(* strict priority between them, a time slice per thread, one CPU.         *)
(*                                                                         *)
(* The scheduler's memory is one record, sch.  Every C function of sched.c *)
(* that changes it is an operator from such a record to its successor, so  *)
(* an action that calls several of them composes them in the order of the  *)
(* code.  The doubly linked ready lists are sequences; in_rq is kept apart *)
(* from them because the code tests the flag and never the links.          *)
(*                                                                         *)
(* Interrupts.  A system call, an exception and the timer run with IF = 0; *)
(* a kernel thread (Preemptible) runs with IF = 1 and the timer may strike *)
(* between any two of its steps outside a spin_lock_irqsave section.       *)
(***************************************************************************)
EXTENDS Naturals, Sequences, FiniteSets

CONSTANTS
    Threads,      \* every struct thread there can be
    Boot,         \* g_bootstrap, the placeholder sched_init makes current
    Idle,         \* the thread main.c creates under the name "idle"
    Preemptible,  \* kernel threads: they run with interrupts enabled
    Killable,     \* threads of tasks an OOM kill may select
    Throttled,    \* threads whose task SYS_OB_SetCpuQuota may be aimed at
    Prios,        \* priorities that are asked of thread_create, within 0..9
    Slice,        \* queue -> SCHED_SLICE_{LOW,MID,HIGH}_TICKS
    Window,       \* length of the quota window in ticks (100 in the code)
    Quotas,       \* quotas that are set; 0 and Window mean "no limit"
    None          \* the null thread pointer

LOW == 0
MID == 1
HIGH == 2
Queues == {LOW, MID, HIGH}

ASSUME ThreadsAssumption ==
    /\ Boot \in Threads /\ Idle \in Threads /\ Boot # Idle
    /\ None \notin Threads
    /\ Preemptible \subseteq Threads
    /\ Killable \subseteq Threads \ {Boot, Idle}
    /\ Throttled \subseteq Threads \ {Boot, Idle}

ASSUME NumbersAssumption ==
    /\ Prios \subseteq 0 .. 9
    /\ Slice \in [Queues -> Nat \ {0}]
    /\ Window \in Nat \ {0}
    /\ Quotas \subseteq 0 .. Window

VARIABLES
    sch,      \* the scheduler's memory, see SchedState
    prio,     \* thread.priority, set once by thread_create
    ticks,    \* thread.total_ticks, of which only the rest modulo Window is used
    quota,    \* cpu_usage_quota of the thread's task
    pc,       \* "run"; "sched": about to call schedule(); "exit", "halt": see there
    waiters,  \* threads with a wait node on some list: futex, join, pipe, poll
    waking    \* target of a sched_enqueue_thread that has passed its DEAD test

vars == <<sch, prio, ticks, quota, pc, waiters, waking>>

States == {"NONE", "READY", "RUNNING", "BLOCKED", "DEAD"}

SchedState ==
    [rq    : [Queues -> Seq(Threads)],   \* g_rq_head / g_rq_tail
     in_rq : [Threads -> BOOLEAN],
     state : [Threads -> States],        \* "NONE": not created yet
     queue : [Threads -> Queues],
     slice : [Threads -> Nat],           \* slice_remaining
     cur   : Threads]                    \* g_current

----------------------------------------------------------------------------
(* Sequences as ready lists *)

Members(s) == {s[i] : i \in DOMAIN s}

\* The list s without its i-th link.
Unlink(s, i) == [j \in 1 .. Len(s) - 1 |-> IF j < i THEN s[j] ELSE s[j + 1]]

prio_to_queue(p) == IF p < 3 THEN LOW ELSE IF p < 6 THEN MID ELSE HIGH

\* Mutant: the list push trusts its callers, as it did before in_rq existed.
rq_push_Trusting(s, q, t) ==
    [s EXCEPT !.rq[q] = Append(@, t), !.queue[t] = q, !.in_rq[t] = TRUE]

rq_push(s, q, t) ==
    IF s.in_rq[t]
    THEN s
    ELSE [s EXCEPT !.rq[q] = Append(@, t), !.queue[t] = q, !.in_rq[t] = TRUE]

\* Mutant: no test of in_rq; null links of a thread that is in no list make the
\* code clear the list's head and tail.
rq_remove_Untested(s, q, t) ==
    [s EXCEPT !.rq[q] = IF t \in Members(@)
                        THEN Unlink(@, CHOOSE i \in DOMAIN @ : @[i] = t)
                        ELSE << >>,
              !.in_rq[t] = FALSE]

\* The code trusts in_rq and unlinks t from the list q it is told.
rq_remove(s, q, t) ==
    IF ~s.in_rq[t]
    THEN s
    ELSE [s EXCEPT !.rq[q] = IF t \in Members(@)
                             THEN Unlink(@, CHOOSE i \in DOMAIN @ : @[i] = t)
                             ELSE @,
                   !.in_rq[t] = FALSE]

----------------------------------------------------------------------------
(* schedule() *)

Live(s, t) == s.state[t] # "DEAD"

\* Mutant: a used-up slice does not end a thread's turn.
KeepsCpu_SliceIgnored(s) ==
    /\ s.state[s.cur] = "RUNNING"
    /\ \A q \in Queues : q > s.queue[s.cur] => s.rq[q] = << >>

\* sched.c 237-247: the caller keeps the CPU.
KeepsCpu(s) ==
    /\ s.state[s.cur] = "RUNNING"
    /\ s.slice[s.cur] > 0
    /\ \A q \in Queues : q > s.queue[s.cur] => s.rq[q] = << >>

\* sched.c 248-250: a caller that is still RUNNING goes to the tail of its queue.
Requeue(s) ==
    LET p == s.cur
    IN  IF s.state[p] = "RUNNING"
        THEN rq_push([s EXCEPT !.state[p] = "READY",
                               !.slice[p] = Slice[s.queue[p]]],
                     s.queue[p], p)
        ELSE s

\* Mutant: the pop loop starts at the lowest list.
StopsAt_LowestFirst(s, q, i) ==
    /\ Live(s, s.rq[q][i])
    /\ \A j \in 1 .. i - 1 : ~Live(s, s.rq[q][j])
    /\ \A h \in Queues : h < q => \A j \in DOMAIN s.rq[h] : ~Live(s, s.rq[h][j])

\* The pop loop, which starts at the highest list and drops DEAD threads on the
\* way, stops at the i-th thread of list q.
StopsAt(s, q, i) ==
    /\ Live(s, s.rq[q][i])
    /\ \A j \in 1 .. i - 1 : ~Live(s, s.rq[q][j])
    /\ \A h \in Queues : h > q => \A j \in DOMAIN s.rq[h] : ~Live(s, s.rq[h][j])

\* t is one of the threads that loop has popped.
Popped(s, q, i, t) ==
    \/ \E h \in Queues : h > q /\ t \in Members(s.rq[h])
    \/ \E j \in 1 .. i : s.rq[q][j] = t

\* sched.c 253-273: the popped thread gets the CPU.
Dispatch(s, q, i) ==
    [s EXCEPT !.rq    = [h \in Queues |->
                            IF h > q THEN << >>
                            ELSE IF h = q THEN SubSeq(@[q], i + 1, Len(@[q]))
                            ELSE @[h]],
              !.in_rq = [t \in Threads |-> @[t] /\ ~Popped(s, q, i, t)],
              !.state[s.rq[q][i]] = "RUNNING",
              !.cur = s.rq[q][i]]

\* s2 is what schedule() leaves when it is called in s.  g_idle is never
\* assigned by any file, so with no live thread in any list next is null: that
\* case has no successor here, and IdleAvailable says it never arises.
schedule(s, s2) ==
    IF KeepsCpu(s)
    THEN s2 = s
    ELSE \E r \in {Requeue(s)} : \E q \in Queues : \E i \in DOMAIN r.rq[q] :
            StopsAt(r, q, i) /\ s2 = Dispatch(r, q, i)

----------------------------------------------------------------------------
(* The remaining functions of sched.c *)

\* Mutant: a woken thread is linked without becoming READY.
enqueue_locked_NoState(s, t) ==
    IF s.in_rq[t]
    THEN s
    ELSE rq_push([s EXCEPT !.slice[t] = Slice[s.queue[t]]], s.queue[t], t)

\* sched_enqueue_thread 474-485, the part under g_sched_lock.
enqueue_locked(s, t) ==
    IF s.in_rq[t]
    THEN s
    ELSE rq_push([s EXCEPT !.state[t] = "READY", !.slice[t] = Slice[s.queue[t]]],
                 s.queue[t], t)

\* Mutant: a thread that was killed while it waited is woken like any other.
sched_enqueue_thread_AnyState(s, t) == enqueue_locked(s, t)

\* The whole of sched_enqueue_thread where nothing can come between its parts.
sched_enqueue_thread(s, t) ==
    IF Live(s, t) THEN enqueue_locked(s, t) ELSE s

sched_remove_from_queue(s, t) ==
    [rq_remove(s, s.queue[t], t) EXCEPT !.state[t] = "DEAD"]

thread_create(s, t, p) ==
    rq_push([s EXCEPT !.state[t] = "READY",
                      !.queue[t] = prio_to_queue(p),
                      !.slice[t] = Slice[prio_to_queue(p)]],
            prio_to_queue(p), t)

\* sched_tick 390-410: the CPU quota of the running thread's task.
Throttle(s, used, limit, p) ==
    LET c == s.cur
    IN  IF limit = 0 \/ limit >= Window THEN s
        ELSE IF used > limit /\ s.queue[c] # LOW
        THEN rq_push([rq_remove(s, s.queue[c], c) EXCEPT !.queue[c] = LOW], LOW, c)
        ELSE IF used = 1 /\ s.queue[c] = LOW
        THEN rq_push(rq_remove([s EXCEPT !.queue[c] = prio_to_queue(p)], LOW, c),
                     prio_to_queue(p), c)
        ELSE s

\* Mutant: the slice is decremented without looking.
Charge_NoFloor(s) == [s EXCEPT !.slice[s.cur] = @ - 1]

Charge(s) == [s EXCEPT !.slice[s.cur] = IF @ > 0 THEN @ - 1 ELSE 0]

----------------------------------------------------------------------------
(* Behaviour *)

Init ==
    /\ sch = [rq    |-> [q \in Queues |-> << >>],
              in_rq |-> [t \in Threads |-> FALSE],
              state |-> [t \in Threads |-> IF t = Boot THEN "DEAD" ELSE "NONE"],
              queue |-> [t \in Threads |-> MID],
              slice |-> [t \in Threads |-> 0],
              cur   |-> Boot]
    /\ prio = [t \in Threads |-> 5]
    /\ ticks = [t \in Threads |-> 0]
    /\ quota = [t \in Threads |-> 0]
    /\ pc = [t \in Threads |-> "run"]
    /\ waiters = {}
    /\ waking = [t \in Threads |-> None]

cur == sch.cur

\* The current thread executes code of its own.  The idle loop calls no function
\* of sched.c: it polls the network, reaps orphans and halts.
Executing ==
    /\ cur # Idle
    /\ sch.state[cur] = "RUNNING"
    /\ pc[cur] = "run"
    /\ waking[cur] = None

\* IF = 1, or CPL 3: the timer may strike.  main.c never sets IF before
\* sched_start, and a thread killed inside the timer handler keeps IF = 0.
InterruptsOn ==
    /\ cur # Boot
    /\ IF cur \in Preemptible
       THEN pc[cur] # "halt"
       ELSE pc[cur] = "run" /\ waking[cur] = None

\* thread_create, called by main.c on the boot stack or by a running thread.
Create(t, p) ==
    /\ cur = Boot \/ Executing
    /\ sch.state[t] = "NONE"
    /\ t = Idle => p = 0 /\ cur = Boot
    /\ sch' = thread_create(sch, t, p)
    /\ prio' = [prio EXCEPT ![t] = p]
    /\ UNCHANGED <<ticks, quota, pc, waiters, waking>>

\* sched_start, which main.c calls after it has created the idle thread.
sched_start ==
    /\ cur = Boot
    /\ sch.state[Idle] # "NONE"
    /\ schedule(sch, sch')
    /\ UNCHANGED <<prio, ticks, quota, pc, waiters, waking>>

\* A thread that has queued its wait node sets its own state to BLOCKED;
\* schedule() is its next call.
Block ==
    /\ Executing
    /\ sch' = [sch EXCEPT !.state[cur] = "BLOCKED"]
    /\ waiters' = waiters \cup {cur}
    /\ pc' = [pc EXCEPT ![cur] = "sched"]
    /\ UNCHANGED <<prio, ticks, quota, waking>>

thread_yield ==
    /\ Executing
    /\ sch' = [sch EXCEPT !.slice[cur] = 0]
    /\ pc' = [pc EXCEPT ![cur] = "sched"]
    /\ UNCHANGED <<prio, ticks, quota, waiters, waking>>

thread_exit ==
    /\ Executing
    /\ sch' = [sch EXCEPT !.state[cur] = "DEAD"]
    /\ pc' = [pc EXCEPT ![cur] = "exit"]
    /\ UNCHANGED <<prio, ticks, quota, waiters, waking>>

\* The call of schedule() that follows; after thread_exit only a hlt loop is left.
CallSchedule ==
    /\ \/ pc[cur] = "sched" /\ pc' = [pc EXCEPT ![cur] = "run"]
       \/ pc[cur] = "exit" /\ sch.state[cur] = "DEAD" /\ pc' = pc
    /\ schedule(sch, sch')
    /\ UNCHANGED <<prio, ticks, quota, waiters, waking>>

\* A waker takes t off its wait list and, interrupts off, calls
\* sched_enqueue_thread: nothing comes between.  A kill leaves the victim's wait
\* node behind, so t may be DEAD.
Wake(t) ==
    /\ Executing /\ cur \notin Preemptible
    /\ t \in waiters \ {cur}
    /\ waiters' = waiters \ {t}
    /\ sch' = sched_enqueue_thread(sch, t)
    /\ UNCHANGED <<prio, ticks, quota, pc, waking>>

\* The same in a kernel thread, up to the test of state, sched.c 471-472, which is
\* made before the lock is taken.
WakeCheck(t) ==
    /\ Executing /\ cur \in Preemptible
    /\ t \in waiters \ {cur}
    /\ waiters' = waiters \ {t}
    /\ waking' = [waking EXCEPT ![cur] = IF Live(sch, t) THEN t ELSE None]
    /\ UNCHANGED <<sch, prio, ticks, quota, pc>>

\* sched_enqueue_thread 474-485.
WakeCommit ==
    /\ waking[cur] # None
    /\ sch' = enqueue_locked(sch, waking[cur])
    /\ waking' = [waking EXCEPT ![cur] = None]
    /\ UNCHANGED <<prio, ticks, quota, pc, waiters>>

\* SYS_OB_SetCpuQuota, issued by whichever thread is running.
SetCpuQuota(t, n) ==
    /\ Executing
    /\ quota[t] # n
    /\ quota' = [quota EXCEPT ![t] = n]
    /\ UNCHANGED <<sch, prio, ticks, pc, waiters, waking>>

\* sched_tick up to the charge: futex_tick wakes w, then oom_tick_reap kills v,
\* a thread other than the running one, and wakes v's joiner j.
Reap(s, w, v, j) ==
    LET s1 == IF w = None THEN s ELSE sched_enqueue_thread(s, w)
        s2 == IF v = None THEN s1 ELSE sched_remove_from_queue(s1, v)
    IN  IF j = None THEN s2 ELSE sched_enqueue_thread(s2, j)

\* oom_tick_reap goes on to kill the running thread: task_exit wakes its joiner k
\* and ends in thread_exit, so the rest of the tick never runs.
TickKillsCurrent(s, k) ==
    /\ cur \in Killable
    /\ \E s1 \in {IF k = None THEN s ELSE sched_enqueue_thread(s, k)} :
            schedule([s1 EXCEPT !.state[cur] = "DEAD"], sch')
    /\ pc' = [pc EXCEPT ![cur] = "halt"]
    /\ waking' = [waking EXCEPT ![cur] = None]
    /\ UNCHANGED <<prio, ticks, quota>>

\* sched_tick 375-417: the running thread is charged, and schedule() is called if
\* its slice is used up.
TickCharges(s) ==
    LET used == (ticks[cur] + 1) % Window
    IN  /\ \E s1 \in {Throttle(Charge(s), used, quota[cur], prio[cur])} :
                IF s1.slice[cur] = 0 THEN schedule(s1, sch') ELSE sch' = s1
        /\ ticks' = [ticks EXCEPT ![cur] = used]
        /\ UNCHANGED <<prio, quota, pc, waking>>

\* One timer interrupt.  Bounds: one futex time-out, and one victim besides the
\* running thread.  A kernel thread waits in task_join, for a pipe or in poll,
\* never on a futex; a thread does not wait for itself.
Tick ==
    /\ InterruptsOn
    /\ \E w \in (waiters \ Preemptible) \cup {None},
          v \in (Killable \ {cur}) \cup {None},
          j, k \in waiters \cup {None} :
        /\ v # None => sch.state[v] \notin {"NONE", "DEAD"}
        /\ j = None \/ (v # None /\ j \notin {v, w})
        /\ k = None \/ k \notin {cur, w, j}
        /\ waiters' = waiters \ {w, j, k}
        /\ \E s \in {Reap(sch, w, v, j)} :
            \/ TickKillsCurrent(s, k)
            \/ k = None /\ TickCharges(s)

Next ==
    \/ \E t \in Threads, p \in Prios : Create(t, p)
    \/ sched_start
    \/ Block
    \/ thread_yield
    \/ thread_exit
    \/ CallSchedule
    \/ \E t \in Threads : Wake(t)
    \/ \E t \in Threads : WakeCheck(t)
    \/ WakeCommit
    \/ \E t \in Throttled, n \in Quotas : SetCpuQuota(t, n)
    \/ Tick

Spec == Init /\ [][Next]_vars

\* The CPU executes the kernel code it is in, main.c reaches sched_start, and
\* the local APIC keeps a timer interrupt pending until interrupts are on.
Fairness ==
    /\ WF_vars(CallSchedule)
    /\ WF_vars(WakeCommit)
    /\ WF_vars(Create(Idle, 0) \/ sched_start)
    /\ SF_vars(Tick)

FairSpec == Spec /\ Fairness

----------------------------------------------------------------------------
(* Properties *)

\* Every field has a value of its type (struct thread and the g_rq arrays).
TypeOK ==
    /\ sch \in SchedState
    /\ prio \in [Threads -> 0 .. 9]
    /\ ticks \in [Threads -> 0 .. Window - 1]
    /\ quota \in [Threads -> 0 .. Window]
    /\ pc \in [Threads -> {"run", "sched", "exit", "halt"}]
    /\ waiters \subseteq Threads
    /\ waking \in [Threads -> Threads \cup {None}]

\* No ready list of s holds a thread twice, and t is linked into the list loc[t]
\* exactly if in_rq says that it is linked at all.
LinkedAs(s, loc) ==
    /\ \A q \in Queues : \A i, j \in DOMAIN s.rq[q] :
            s.rq[q][i] = s.rq[q][j] => i = j
    /\ \A q \in Queues, t \in Threads :
            t \in Members(s.rq[q]) <=> s.in_rq[t] /\ loc[t] = q

\* A thread is linked once, and into the list of its queue field, whatever quotas
\* do to that field: rq_remove unlinks from the list it is told without looking,
\* and would cut another list and lose its other members.
QueueIntegrity == LinkedAs(sch, sch.queue)

\* A READY thread is in a ready list, so no runnable thread is lost; and a thread no
\* quota is ever aimed at that is neither READY nor DEAD is in none, so schedule()
\* cannot pop and run a thread that is blocked.  (thread_exit leaves a DEAD thread
\* linked when one tick kills the task the current thread is about to wait for,
\* waking it, and then kills the current thread.)
QueuedAreRunnable ==
    /\ \A t \in Threads : sch.state[t] = "READY" => sch.in_rq[t]
    /\ \A t \in Threads \ Throttled : sch.in_rq[t] => sch.state[t] \in {"READY", "DEAD"}

\* Whenever schedule() may be called it finds a thread to run: from sched_start
\* on, the idle thread holds the CPU or waits in the LOW list.
IdleAvailable ==
    sch.state[Idle] # "NONE" =>
        \/ cur = Idle /\ sch.state[Idle] = "RUNNING"
        \/ Idle \in Members(sch.rq[LOW]) /\ sch.state[Idle] = "READY"

\* What schedule() takes for granted when it looks for the next thread: what the
\* lists hold can run or is dead, what can run is in them, and they are never
\* all empty, for g_idle is not there to fall back on.
ListsServe == QueuedAreRunnable /\ IdleAvailable

\* A thread that somebody is in the middle of waking.
InFlight(t) == \E u \in Threads : waking[u] = t

\* A dead thread stays dead, and is never given the CPU, unless a wake-up had
\* tested it before it died: OOM reaping relies on it.
DeadStaysDead ==
    [][\A t \in Threads :
        sch.state[t] = "DEAD" /\ ~InFlight(t) => sch'.state[t] = "DEAD"]_vars

\* Strict priority: when the CPU is given to another thread, no READY thread of a
\* higher queue exists, in whatever order wakes, kills, quotas and yields came.
StrictPriority ==
    [][sch'.cur # sch.cur =>
        \A t \in Threads : sch'.state[t] = "READY" =>
                                sch'.queue[t] <= sch'.queue[sch'.cur]]_vars

\* A thread that waits in the HIGH list gets the CPU (or is killed): slices end
\* and the list is first in, first out.
HighRuns ==
    \A t \in Threads \ Throttled :
        (sch.in_rq[t] /\ sch.queue[t] = HIGH) ~> ~(sch.in_rq[t] /\ sch.queue[t] = HIGH)

============================================================================
