--------------------------------- MODULE Gate ---------------------------------
(***************************************************************************)
(* What stands between a program and the kernel: the filter of seccomp.c,  *)
(* the interceptor of see.c, the checks of permission.c, critical.c and    *)
(* task.c in the order of syscall_dispatcher, the audit log of audit.c     *)
(* that refusals go to, and the calls that only change fields of a task    *)
(* (quota, filter, tracer).  A call runs with interrupts off, so it is one *)
(* step; what it does once it has passed is in the module of its           *)
(* component.  At this commit programs have level 5 and identifiers above  *)
(* the reserved ones; callers of other levels, or in a sandbox, are those  *)
(* of the self-tests at boot, which call the same functions.               *)
(***************************************************************************)
EXTENDS Integers, Sequences, FiniteSets

CONSTANTS Untrusted,  \* identifiers of programs that make calls
          Testers,    \* identifiers of the self-tests' callers
          Level,      \* caller -> privilege level
          Boxed,      \* callers with sandbox_flags set
          Reserved,   \* identifiers in 0..99
          Whitelist,  \* the calls of see_whitelist_default
          Filters,    \* the filters that programs install: [allow, action, errno]
          AUDIT_RING_SIZE,
          MaxRefusals \* bound: entries written to the log

Askers == Untrusted \cup Testers
NoFilter == [allow |-> {}, action |-> "none", errno |-> 0]

ASSUME GateAssumption ==
    /\ Askers \subseteq Nat /\ Reserved \subseteq Nat /\ Askers \cap Reserved = {}
    /\ Level \in [Askers -> 0 .. 9] /\ \A t \in Untrusted : Level[t] = 5
    /\ Boxed \subseteq Testers
    /\ AUDIT_RING_SIZE \in Nat \ {0} /\ MaxRefusals \in Nat
    /\ \A f \in Filters : f.action \in {"ALLOW", "ERRNO", "KILL", "other"} /\ f.errno \in Nat

VARIABLES
    audit,   \* [ring, write_idx, current_cnt]
    pcb,     \* caller -> [alive, filter, cpu, tracer]
    refused, \* history: what was written to the log, in order
    owed     \* history: caller -> calls about something protected

gate_vars == <<audit, pcb, refused, owed>>

audit_init == [ring |-> [i \in 0 .. AUDIT_RING_SIZE - 1 |-> [seq |-> 0, what |-> "", who |-> 0]],
               write_idx |-> 0, current_cnt |-> 0]
task_18d_init == [alive |-> TRUE, filter |-> NoFilter, cpu |-> 0, tracer |-> 0]

GateInit ==
    /\ audit = audit_init
    /\ pcb = [t \in Askers |-> task_18d_init]
    /\ refused = <<>> /\ owed = [t \in Askers |-> 0]

-----------------------------------------------------------------------------
(* The log *)

audit_event(A, what, who) ==
    LET i == A.write_idx % AUDIT_RING_SIZE
    IN  [ring |-> [A.ring EXCEPT ![i] = [seq |-> A.write_idx, what |-> what, who |-> who]],
         write_idx |-> A.write_idx + 1,
         current_cnt |-> IF A.current_cnt < AUDIT_RING_SIZE THEN A.current_cnt + 1 ELSE A.current_cnt]

\* What a reader finds under a number, if anything.
audit_peek(A, seq) ==
    LET first == IF A.write_idx > AUDIT_RING_SIZE THEN A.write_idx - AUDIT_RING_SIZE ELSE 0
        e == A.ring[seq % AUDIT_RING_SIZE]
    IN  IF seq >= first /\ seq < A.write_idx /\ e.seq = seq THEN <<e>> ELSE <<>>

-----------------------------------------------------------------------------
(* Checks: an answer, and what they write to the log *)

Answer(rc, log) == [rc |-> rc, log |-> log]
Ok == Answer("ok", <<>>)
Deny(rc) == Answer(rc, <<>>)
Logged(rc, what) == Answer(rc, <<what>>)

\* What a call is about: files by the directory they are in, addresses, processes.
Areas == {"kernel", "critical", "scratch", "own", "elsewhere", "none"}
Thing(type, at, pid, writes) == [type |-> type, at |-> at, pid |-> pid, writes |-> writes]
File(area, writes) == Thing("file", area, 0, writes)
Memory(at) == Thing("memory", at, 0, FALSE)
Process(pid) == Thing("process", "none", pid, FALSE)
Ipc == Thing("ipc", "none", 0, TRUE)
Config(writes) == Thing("config", "none", 0, writes)
Unknown == Thing("unknown", "none", 0, FALSE)

\* Mutant: the refusal is not written down.
check_pid_access_Silent(t, pid) == IF pid \in Reserved THEN Deny("EPERM") ELSE Ok
check_pid_access(t, pid) == IF pid \in Reserved THEN Logged("EPERM", "pid violation") ELSE Ok

\* No caller is the parent of another, so level 1 has no child to look at.
permission_check_process(t, pid) ==
    LET rc == check_pid_access(t, pid)
    IN  IF Level[t] > 1 /\ rc.rc # "ok" THEN rc
        ELSE IF pid = t \/ Level[t] >= 6 THEN Ok ELSE Deny("EPERM")

\* The self-tests' callers of level 0 and 1 have no domain to stay in.
permission_check_memory(t, at) == IF at = "kernel" THEN Logged("EPERM", "kernel memory") ELSE Ok

\* Sandboxed or not, a caller outside the reserved range and without a token is refused.
critical_check_access(t) == Logged("EPERM", "critical access")

permission_check_file(t, area, writes) ==
    CASE area = "none" -> Ok
      [] area = "kernel" -> Logged("EPERM", "critical access")
      [] area = "critical" -> critical_check_access(t)
      [] OTHER ->
           IF Level[t] = 0 THEN Deny("ENOSYS")
           ELSE IF \/ Level[t] = 1 /\ area # "own"
                   \/ writes /\ Level[t] = 2
                   \/ writes /\ Level[t] \in {3, 4} /\ area \notin {"scratch", "own"}
                THEN Deny("EPERM") ELSE Ok

permission_check_ipc(t) == Deny(IF Level[t] <= 1 THEN "EPERM" ELSE "ENOSYS")

permission_check_config(t, writes) ==
    IF ~writes \/ Level[t] > 6 THEN Ok
    ELSE IF Level[t] = 6 THEN Logged("EPERM", "critical access") ELSE Deny("EPERM")

check_permission(t, on) ==
    CASE on.type = "file" -> permission_check_file(t, on.at, on.writes)
      [] on.type = "memory" -> permission_check_memory(t, on.at)
      [] on.type = "process" -> permission_check_process(t, on.pid)
      [] on.type = "ipc" -> permission_check_ipc(t)
      [] on.type = "config" -> permission_check_config(t, on.writes)
      [] OTHER -> Deny("EPERM")

\* The answer of the first check that refuses, else the next one.
Then(a, b) == IF a.rc # "ok" THEN a ELSE b

-----------------------------------------------------------------------------
(* What each call is answered *)

FileThings == {File(a, w) : a \in Areas, w \in BOOLEAN}
ReadThings == {File(a, FALSE) : a \in Areas}
MemoryThings == {Memory("user"), Memory("kernel")}
ProcessThings == {Process(p) : p \in Askers \cup Reserved}
OtherThings == {Ipc, Config(TRUE), Config(FALSE), Unknown}
Things == FileThings \cup MemoryThings \cup ProcessThings \cup OtherThings

ProcessCalls == {"TerminateProcess", "GetProcessInfo", "SendSignal"}
CreateCalls == {"CreateProcess", "CreateSandboxProcess"}
DriverCalls == {"LoadDriver", "LoadDriverSandboxed", "RegisterInterrupt", "Compat_Preload"}
KernelCalls == {"ReadKernelMemory", "WriteKernelMemory", "ReadKernelFile", "InternalSign"}
NetCalls == {"Socket", "Bind", "Listen", "Connect", "Send", "Recv"}
AccessCalls == {"CheckAccess", "CheckAccessNative"}
FileCalls == {"OpenFile", "ReadFile", "WriteFile", "CloseHandle"}
TaskCalls == {"SetCpuQuota", "Seccomp", "Attach", "Detach"}
\* Calls that go on in the module of their component, at once or after a check of an
\* address that is not written down.
HandedOn == {"UserExit", "SigReturn", "GetCurrentToken", "VirtualFree", "Pipe", "Poll", "ShmMap"}
Addressed == {"ThreadCreate", "FutexWait", "FutexWake", "ThreadSpawn"}

OnCreate(t, on, full) ==
    IF Level[t] < 2 THEN Logged("EPERM", "critical access")
    ELSE IF full THEN Deny("EAGAIN")
    ELSE Then(check_permission(t, on), Deny("ENOSYS"))

OnProcess(t, on) == Then(check_permission(t, on), Deny("ENOSYS"))

\* Whatever the check says, the call itself succeeds.
OnAccess(t, nr, on) ==
    LET a == check_permission(t, on)
    IN  [a EXCEPT !.rc = "ok",
                  !.log = IF nr = "CheckAccessNative" /\ a.rc # "ok" THEN Append(@, "compat denied") ELSE @]

OnDriver(t, nr, on) ==
    CASE nr = "RegisterInterrupt" -> Deny(IF Level[t] < 7 THEN "EPERM" ELSE "ENOSYS")
      [] nr = "Compat_Preload" -> Deny("EPERM")
      [] nr = "LoadDriver" -> Then(check_permission(t, on), Deny(IF Level[t] < 7 THEN "EPERM" ELSE "ENOSYS"))
      [] OTHER -> Then(check_permission(t, on), Deny("ENOSYS"))

\* No task has a valid user-interface token at this commit, whatever its level.
OnKernel(nr) ==
    Logged("EPERM", IF nr \in {"ReadKernelMemory", "WriteKernelMemory"} THEN "kernel memory" ELSE "critical access")

\* Sockets are refused by the check of a kind that is not there yet.
OnNet(t, nr, on) ==
    LET a == permission_check_ipc(t)
    IN  CASE nr \in {"Send", "Recv"} -> permission_check_memory(t, on.at)
          [] nr = "Socket" -> [a EXCEPT !.log = Append(@, "net denied")]
          [] OTHER -> a

Reading(t, on) == permission_check_memory(t, on.at)
Opening(t, on) == permission_check_file(t, on.at, on.writes)

Judged(t, nr, on, full) ==
    CASE nr \in CreateCalls -> OnCreate(t, on, full)
      [] nr \in ProcessCalls -> OnProcess(t, on)
      [] nr \in AccessCalls -> OnAccess(t, nr, on)
      [] nr \in DriverCalls -> OnDriver(t, nr, on)
      [] nr \in KernelCalls -> OnKernel(nr)
      [] nr \in NetCalls -> OnNet(t, nr, on)
      [] nr \in Addressed -> IF on = Memory("kernel") THEN Deny("EFAULT") ELSE Ok
      [] nr = "OpenFile" -> Opening(t, on)
      [] nr \in {"ReadFile", "WriteFile"} -> Reading(t, on)
      [] OTHER -> Ok

\* What a call is made about.
About(nr) ==
    CASE nr \in CreateCalls \cup {"LoadDriver", "LoadDriverSandboxed"} -> ReadThings
      [] nr = "OpenFile" -> {f \in FileThings : f.at # "none"}
      [] nr \in ProcessCalls \cup {"SetCpuQuota", "Attach", "Detach"} -> ProcessThings
      [] nr \in {"Send", "Recv", "ReadFile", "WriteFile"} \cup Addressed -> MemoryThings
      [] nr \in AccessCalls -> Things
      [] OTHER -> {Unknown}

-----------------------------------------------------------------------------
(* The filter, the interceptor and the calls on a task's fields *)

\* A filter that refuses with error 0, and one whose action is unknown, let the call
\* through.  Mutant: so does a kill.
seccomp_check_KillPasses(f, nr) ==
    IF f # NoFilter /\ nr \notin f.allow /\ f.action = "ERRNO" /\ f.errno # 0 THEN "refuse" ELSE "pass"
seccomp_check(f, nr) ==
    IF f = NoFilter \/ nr \in f.allow THEN "pass"
    ELSE IF f.action = "KILL" THEN "kill"
    ELSE IF f.action = "ERRNO" /\ f.errno # 0 THEN "refuse" ELSE "pass"

\* The kind of thing the interceptor has checked, of which it names none.
syscall_to_res_type(nr) ==
    CASE nr \in FileCalls \cup {"LoadDriver", "LoadDriverSandboxed", "ReadKernelFile", "InternalSign"} -> File("none", FALSE)
      [] nr \in {"VirtualAlloc", "VirtualFree", "ReadKernelMemory", "WriteKernelMemory"} -> Memory("user")
      [] nr \in ProcessCalls \cup CreateCalls -> Process(0)
      [] nr = "Compat_Preload" -> Config(FALSE)
      [] OTHER -> Unknown

\* An allowed call is answered 0, and not made; any other is the end of the sandbox.
see_syscall_interceptor(t, nr) ==
    LET on == syscall_to_res_type(nr)
        native == IF on = Unknown THEN Ok ELSE check_permission(t, on)
    IN  Then(native, IF nr \in Whitelist THEN Ok ELSE Logged("kill", "sandbox escape"))

seccomp_syscall(t) == {pcb} \cup {[pcb EXCEPT ![t].filter = f] : f \in Filters \cup {NoFilter}}

\* SetCpuQuota.  A self-test's caller is on no list of tasks.
SetQuota(t, u) ==
    IF (Level[t] < 6 /\ u # t) \/ u \notin Untrusted THEN {pcb}
    ELSE {pcb} \cup {[pcb EXCEPT ![u].cpu = q] : q \in {0, 1}}

\* Attaching takes the place of another tracer; the flag "attached" is as the tracer's
\* number is.  What a tracer reads and writes is not modelled.
ptrace_syscall(t, u, nr) ==
    IF \/ u \notin Untrusted \/ ~pcb[u].alive
       \/ nr = "Attach" /\ Level[t] < Level[u]
       \/ nr = "Detach" /\ pcb[u].tracer # t
    THEN {pcb}
    ELSE {[pcb EXCEPT ![u].tracer = IF nr = "Attach" THEN t ELSE 0]}

\* What a call that has passed its checks can do to the tasks; an error changes nothing.
Effects(t, nr, on) ==
    CASE nr = "UserExit" -> {[pcb EXCEPT ![t].alive = FALSE]}
      [] nr = "Seccomp" -> seccomp_syscall(t)
      [] nr = "SetCpuQuota" -> SetQuota(t, on.pid)
      [] nr \in {"Attach", "Detach"} -> ptrace_syscall(t, on.pid, nr)
      [] OTHER -> {pcb}

-----------------------------------------------------------------------------
CallNames == CreateCalls \cup ProcessCalls \cup AccessCalls \cup DriverCalls \cup KernelCalls
                \cup NetCalls \cup FileCalls \cup TaskCalls \cup HandedOn \cup Addressed

Finished(t) == [pcb EXCEPT ![t].alive = FALSE]
\* A call writes at most two entries.
WriteDown(t, log) ==
    LET Put(A, i) == IF i <= Len(log) THEN audit_event(A, log[i], t) ELSE A
    IN  Put(Put(audit, 1), 2)

\* What only the kernel and the reserved processes may touch.  Levels 0 and 1 are
\* confined to themselves without a word, and an address that is handed on is not
\* looked at by permission.c.
Protected(t, nr, on) ==
    /\ nr \notin TaskCalls \cup Addressed
    /\ \/ on.type = "file" /\ on.at \in {"kernel", "critical"}
       \/ on = Memory("kernel")
       \/ on.type = "process" /\ on.pid \in Reserved /\ Level[t] > 1

\* The end of a call: what it was about, what it wrote to the log, what it changed.
Finish(t, nr, on, answer, new) ==
    /\ Len(refused) + Len(answer.log) <= MaxRefusals
    /\ audit' = WriteDown(t, answer.log)
    /\ refused' = refused \o [i \in DOMAIN answer.log |-> <<answer.log[i], t>>]
    /\ owed' = [owed EXCEPT ![t] = IF Protected(t, nr, on) /\ @ < MaxRefusals THEN @ + 1 ELSE @]
    /\ pcb' = new

\* A program's call: the filter, then the checks, then the call itself.
syscall_dispatcher(t, nr) ==
    /\ t \in Untrusted /\ pcb[t].alive
    /\ \E on \in About(nr), full \in IF nr \in CreateCalls THEN BOOLEAN ELSE {FALSE} :
         LET by == seccomp_check(pcb[t].filter, nr)
             a == Judged(t, nr, on, full)
         IN  \/ by = "kill" /\ Finish(t, nr, Unknown, Ok, Finished(t))
             \/ by = "refuse" /\ Finish(t, nr, Unknown, Ok, pcb)
             \/ by = "pass" /\ full /\ Finish(t, nr, Unknown, a, pcb)
             \/ by = "pass" /\ ~full /\ a.rc # "ok" /\ Finish(t, nr, on, a, pcb)
             \/ /\ by = "pass" /\ ~full /\ a.rc = "ok"
                /\ \E e \in Effects(t, nr, on) : Finish(t, nr, on, a, e)

\* The self-tests: check_permission, and the interceptor for a sandboxed caller.
permission_selftest(t, on) ==
    /\ t \in Testers \ Boxed
    /\ Finish(t, "CheckAccess", on, check_permission(t, on), pcb)

sandbox_test(t, nr) ==
    /\ t \in Boxed /\ pcb[t].alive
    /\ LET a == see_syscall_interceptor(t, nr)
       IN  Finish(t, nr, syscall_to_res_type(nr), a, IF a.rc = "kill" THEN Finished(t) ELSE pcb)

GateNext ==
    \E t \in Askers :
        \/ \E nr \in CallNames : syscall_dispatcher(t, nr) \/ sandbox_test(t, nr)
        \/ \E on \in Things : permission_selftest(t, on)

GateSpec == GateInit /\ [][GateNext]_gate_vars

-----------------------------------------------------------------------------
\* audit.c:91-170, 221-243, permission.c, task.c:695-709: the log read by number holds the
\* last entries, in their order, and nothing else; and no call that reached the checks
\* about kernel memory, a protected path or a reserved process, whoever made it and in
\* whatever order, went by without an entry of its caller's.
RefusalsOnRecord ==
    /\ \A seq \in 0 .. Len(refused) :
          LET kept == seq < Len(refused) /\ seq + AUDIT_RING_SIZE >= Len(refused)
          IN  audit_peek(audit, seq) =
                 IF kept THEN <<[seq |-> seq, what |-> refused[seq + 1][1], who |-> refused[seq + 1][2]]>>
                 ELSE <<>>
    /\ \A t \in Askers : owed[t] <= Cardinality({i \in DOMAIN refused : refused[i][2] = t})

\* What a filter in force holds back.
Withheld(t, nr) ==
    LET f == pcb[t].filter
    IN  f # NoFilter /\ nr \notin f.allow /\ (f.action = "KILL" \/ (f.action = "ERRNO" /\ f.errno # 0))

\* seccomp.c:14-111, syscall.c:258-261, 923-945: a program whose filter holds back the call
\* that installs filters keeps it to its end, and one that may not set its quota keeps that:
\* no call of its own and no other program's changes them.
FilterHolds ==
    [][ \A t \in Untrusted :
          /\ Withheld(t, "Seccomp") => pcb'[t].filter = pcb[t].filter
          /\ Withheld(t, "SetCpuQuota") => pcb'[t].cpu = pcb[t].cpu ]_gate_vars
=============================================================================
