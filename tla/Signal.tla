------------------------------- MODULE Signal -------------------------------
(***************************************************************************)
(* Signals (user/signal.c) and the way from an exception of a program      *)
(* through its handler and back (idt.c, syscall.c).  The state of a task's *)
(* signals is in a slot of a table, by its identifier modulo the size of   *)
(* the table.  A signal to another task is recorded and never delivered;   *)
(* what is delivered are exceptions, and signals of a task to itself.      *)
(* Handlers and calls run with interrupts off, so each is one step.        *)
(***************************************************************************)
EXTENDS Integers, FiniteSets, FiniteSetsExt

CONSTANTS SigTasks,     \* identifiers
          SIG_TASK_MAX, \* slots of the table
          Signals,      \* signal numbers that programs use
          Insns,        \* the program: instructions by address
          Compat,       \* tasks of a foreign program type
          Catches,      \* the pairs of task and signal that a program sets a handler for
          Sends,        \* who sends which signal to whom
          FaultsNest    \* whether a handler faults, or signals its own task

SIGFPE == 8
SIGKILL == 9
SIGSEGV == 11

\* An instruction: how many prefixes, what it is, its addressing form.
ASSUME SignalAssumption ==
    /\ SigTasks \subseteq Nat /\ SIG_TASK_MAX \in Nat \ {0}
    /\ {SIGFPE, SIGSEGV} \subseteq Signals /\ Signals \subseteq 1..31
    /\ DOMAIN Insns \subseteq Nat \ {0}
    /\ \E a \in DOMAIN Insns : \A b \in DOMAIN Insns : a <= b
    /\ \A a \in DOMAIN Insns :
          Insns[a] \in [op : {"div", "load"}, prefixes : 0..4, mod : 0..3, rm : 0..7, base : 0..7]
    /\ Compat \subseteq SigTasks
    /\ Catches \subseteq SigTasks \X Signals
    /\ Sends \subseteq SigTasks \X SigTasks \X Signals
    /\ FaultsNest \in BOOLEAN

Slots == 0..(SIG_TASK_MAX - 1)
Handlers == {"default", "ignore", "function"}

VARIABLES
    g_sig,   \* the slots
    rip,     \* address a task is at; 0 if there is no such task
    caught,  \* the signal whose handler a task is in, 0 for none
    due,     \* history: where the program interrupted by that handler goes on
    sentto,    \* history: signals sent to a task
    setby    \* history: signals it has set a handler for

sig_vars == <<g_sig, rip, caught, due, sentto, setby>>

NoState == [valid |-> FALSE, actions |-> [s \in Signals |-> "default"], pending |-> {},
            resume |-> 0, fault_rip |-> 0, fault_insn_len |-> 0]

SignalTypeOK ==
    /\ g_sig \in [Slots -> [valid : BOOLEAN, actions : [Signals -> Handlers],
                            pending : SUBSET Signals, resume : Nat, fault_rip : Nat,
                            fault_insn_len : Nat]]
    /\ rip \in [SigTasks -> Nat] /\ due \in [SigTasks -> Nat]
    /\ caught \in [SigTasks -> {0} \cup Signals]
    /\ sentto \in [SigTasks -> SUBSET Signals] /\ setby \in [SigTasks -> SUBSET Signals]

SignalInit ==
    /\ g_sig = [k \in Slots |-> NoState]
    /\ rip = [t \in SigTasks |-> 0] /\ due = [t \in SigTasks |-> 0]
    /\ caught = [t \in SigTasks |-> 0]
    /\ sentto = [t \in SigTasks |-> {}] /\ setby = [t \in SigTasks |-> {}]

Slot(t) == t % SIG_TASK_MAX
Alive(t) == rip[t] # 0
Start == Min(DOMAIN Insns)

-----------------------------------------------------------------------------
(* Lengths of instructions *)

\* What the processor takes: prefixes, operation, addressing byte, scale byte, displacement.
TrueLen(i) ==
    LET sib == i.mod # 3 /\ i.rm = 4
        wide == i.mod = 2 \/ (i.mod = 0 /\ (i.rm = 5 \/ (sib /\ i.base = 5)))
    IN i.prefixes + 2 + (IF sib THEN 1 ELSE 0)
                      + (IF wide THEN 4 ELSE IF i.mod = 1 THEN 1 ELSE 0)

\* What the kernel takes a division for; 0 for anything else.
decode_div_insn_len(i) ==
    LET tail == CASE i.mod = 0 /\ i.rm = 5 -> 4
                  [] i.mod = 0 /\ i.rm = 4 -> IF i.base = 5 THEN 5 ELSE 1
                  [] i.mod = 1 -> IF i.rm = 4 THEN 2 ELSE 1
                  [] i.mod = 2 -> IF i.rm = 4 THEN 5 ELSE 4
                  [] OTHER -> 0
    IN IF i.op = "div" THEN i.prefixes + 2 + tail ELSE 0

\* Mutant: a page fault at a division counts as a division error.
compute_fault_insn_len_AnyVector(signum, a) == decode_div_insn_len(Insns[a])

\* Only a division error has a length.
compute_fault_insn_len(signum, a) ==
    IF signum = SIGFPE THEN decode_div_insn_len(Insns[a]) ELSE 0

-----------------------------------------------------------------------------
(* Tasks *)

signal_init_task(G, t) ==
    [G EXCEPT ![Slot(t)] = [NoState EXCEPT !.valid = TRUE, !.resume = G[Slot(t)].resume]]
signal_free_task(G, t) == [G EXCEPT ![Slot(t)].valid = FALSE]

\* user_setup or user_thread_spawn of a task, none other of which has its slot.
SigStart(t) ==
    /\ ~Alive(t)
    /\ \A u \in SigTasks : Alive(u) => Slot(u) # Slot(t)
    /\ g_sig' = signal_init_task(g_sig, t)
    /\ rip' = [rip EXCEPT ![t] = Start]
    /\ UNCHANGED <<caught, due, sentto, setby>>

\* task_exit, as far as signals go.
TaskEnds(G, t) ==
    /\ g_sig' = signal_free_task(G, t)
    /\ rip' = [rip EXCEPT ![t] = 0]
    /\ caught' = [caught EXCEPT ![t] = 0]
    /\ due' = [due EXCEPT ![t] = 0]
    /\ sentto' = [sentto EXCEPT ![t] = {}]
    /\ setby' = [setby EXCEPT ![t] = {}]

SigExit(t) == Alive(t) /\ TaskEnds(g_sig, t)

\* The program goes on by itself; it may leave a handler without a return.
Run(t, a) ==
    /\ Alive(t)
    /\ a \in DOMAIN Insns \ {rip[t]}
    /\ rip' = [rip EXCEPT ![t] = a]
    /\ caught' = [caught EXCEPT ![t] = 0]
    /\ due' = [due EXCEPT ![t] = 0]
    /\ UNCHANGED <<g_sig, sentto, setby>>

-----------------------------------------------------------------------------
(* Delivery *)

\* setup_user_handler, as far as the way back goes.
setup_user_handler(G, t, from) == [G EXCEPT ![Slot(t)].resume = from]

\* signal_from_exception: a program that has no function for the signal, or whose
\* stack takes no return address, ends; another enters its handler.
signal_from_exception(t, signum) ==
    LET k == Slot(t)
        a == rip[t]
        G == [g_sig EXCEPT ![k].fault_rip = a,
                           ![k].fault_insn_len = compute_fault_insn_len(signum, a)]
    IN
    \/ TaskEnds(G, t)
    \/ /\ g_sig[k].valid /\ g_sig[k].actions[signum] = "function"
       /\ g_sig' = setup_user_handler(G, t, a)
       /\ caught' = [caught EXCEPT ![t] = signum]
       /\ due' = [due EXCEPT ![t] = IF signum = SIGFPE THEN a + TrueLen(Insns[a]) ELSE a]
       /\ UNCHANGED <<rip, sentto, setby>>

MayFault(t) == Alive(t) /\ (caught[t] = 0 \/ FaultsNest)
\* compat_exception_handle: a foreign program ends.
Faults(t, signum) ==
    IF t \in Compat THEN TaskEnds(g_sig, t) ELSE signal_from_exception(t, signum)

page_fault_handler(t) == MayFault(t) /\ Faults(t, SIGSEGV)
exception_handler(t) == MayFault(t) /\ Insns[rip[t]].op = "div" /\ Faults(t, SIGFPE)

\* signal_fixup_resume: past the division, if the fault was one and resume is still there.
signal_fixup_resume(s) ==
    IF s.fault_insn_len = 0 \/ s.fault_rip = 0 \/ s.resume # s.fault_rip THEN s
    ELSE [s EXCEPT !.resume = @ + s.fault_insn_len, !.fault_rip = 0, !.fault_insn_len = 0]

\* SYS_OB_SigReturn, called by the trampoline when the handler returns.  A program
\* with nothing behind a division goes on at its start.
HandlerReturns(t) ==
    LET s == signal_fixup_resume(g_sig[Slot(t)]) IN
    /\ Alive(t) /\ caught[t] # 0
    /\ IF s.valid
       THEN /\ g_sig' = [g_sig EXCEPT ![Slot(t)] = s]
            /\ rip' = [rip EXCEPT ![t] = IF s.resume \in DOMAIN Insns THEN s.resume ELSE Start]
            /\ caught' = [caught EXCEPT ![t] = 0]
            /\ due' = [due EXCEPT ![t] = 0]
            /\ UNCHANGED <<sentto, setby>>
       ELSE TaskEnds(g_sig, t)

-----------------------------------------------------------------------------
(* Calls *)

\* sys_signal, which gives SIGKILL a handler too.
sys_signal(t, signum, h) ==
    /\ Alive(t) /\ <<t, signum>> \in Catches /\ g_sig[Slot(t)].valid
    /\ g_sig' = [g_sig EXCEPT ![Slot(t)].actions[signum] = h]
    /\ setby' = [setby EXCEPT ![t] = @ \cup {signum}]
    /\ UNCHANGED <<rip, caught, due, sentto>>

\* sys_kill of another task records the signal.
KillOther(t, u, signum) ==
    /\ Alive(t) /\ Alive(u) /\ t # u
    /\ g_sig[Slot(u)].valid /\ signum \notin g_sig[Slot(u)].pending
    /\ g_sig' = [g_sig EXCEPT ![Slot(u)].pending = @ \cup {signum}]
    /\ sentto' = [sentto EXCEPT ![u] = @ \cup {signum}]
    /\ UNCHANGED <<rip, caught, due, setby>>

\* sys_kill of itself, raise: signal_deliver_if_pending takes the lowest signal that
\* is pending, of whomever.  Its handler is prepared and not entered: the call
\* returns to the program, with resume a context at address 0.
KillSelf(t, signum) ==
    LET k == Slot(t)
        first == Min(g_sig[k].pending \cup {signum})
        G == [g_sig EXCEPT ![k].pending = (@ \cup {signum}) \ {first}]
        h == g_sig[k].actions[first]
    IN
    /\ MayFault(t)
    /\ g_sig[k].valid
    /\ IF first = SIGKILL \/ h = "default" THEN TaskEnds(G, t)
       ELSE /\ g_sig' = IF h = "ignore" THEN G ELSE setup_user_handler(G, t, 0)
            /\ sentto' = [sentto EXCEPT ![t] = @ \cup {signum}]
            /\ UNCHANGED <<rip, caught, due, setby>>

Kill(t, u, signum) == IF t = u THEN KillSelf(t, signum) ELSE KillOther(t, u, signum)

SignalNext ==
    \/ \E t \in SigTasks :
        \/ SigStart(t) \/ SigExit(t) \/ HandlerReturns(t)
        \/ \E a \in DOMAIN Insns : Run(t, a)
        \/ page_fault_handler(t) \/ exception_handler(t)
        \/ \E s \in Signals, h \in Handlers : sys_signal(t, s, h)
    \/ \E c \in Sends : Kill(c[1], c[2], c[3])

SignalSpec == SignalInit /\ [][SignalNext]_sig_vars

-----------------------------------------------------------------------------
(* Correctness *)

\* While a program is in its handler, a return would take it to where the fault
\* interrupted it: past the instruction if that was a division, to the same one
\* otherwise, whatever other tasks and earlier handlers, left by a jump, have done
\* (signal_from_exception, signal_fixup_resume).
ReturnsWhereInterrupted ==
    \A t \in SigTasks :
        Alive(t) /\ caught[t] # 0 =>
            /\ g_sig[Slot(t)].valid
            /\ signal_fixup_resume(g_sig[Slot(t)]).resume = due[t]

\* What is pending for a task was sent to it, and the handlers that run for it are
\* its own, not those of the task that had its slot or its identifier before.
SignalsAreOwn ==
    \A t \in SigTasks :
        Alive(t) => /\ g_sig[Slot(t)].valid
                    /\ g_sig[Slot(t)].pending \subseteq sentto[t]
                    /\ \A s \in Signals : g_sig[Slot(t)].actions[s] # "default" => s \in setby[t]

SignalsReachOwner == ReturnsWhereInterrupted /\ SignalsAreOwn

=============================================================================
