------------------------------ MODULE MCTasks ------------------------------
(* Tasks in aspects that share no variable: their life, their descriptors,      *)
(* their namespaces, the loading of their programs, their signals, and the checks *)
(* that their calls pass: what these write down, and what they let through.  An  *)
(* initial state has one of them, and the states add up.                        *)
(*                                                                              *)
(* Life:                                                                        *)
(* A service S with a reserved identifier; the driver D, which starts program A *)
(* and joins it; A starts threads B and C and joins them.  Three identifiers    *)
(* above the reserved range: C is created only once one of the others is free.  *)
EXTENDS TaskLife, Calls, Namespaces, Loader, Signal, FileIo, Gate

CONSTANTS S, D, A, B, C

VARIABLE present

mcAspects == {"life", "calls", "ns", "load", "signal", "files", "log", "gate"}

all_vars == <<task_vars, cvars, ns_vars, lvars, sig_vars, io_vars, gate_vars, present>>

Init == /\ present \in mcAspects
        /\ TaskInit /\ CallsInit /\ NsInit /\ LoaderInit /\ SignalInit /\ FileIoInit /\ GateInit
        /\ (present = "load" \/ taken = {})
        /\ (present = "files" \/ interface = [p \in Progs |-> "ob"])

Next ==
    \/ present = "life" /\ TaskNext /\ UNCHANGED <<cvars, ns_vars, lvars, sig_vars, io_vars, gate_vars, present>>
    \/ present = "calls" /\ CallsNext /\ UNCHANGED <<task_vars, ns_vars, lvars, sig_vars, io_vars, gate_vars, present>>
    \/ present = "ns" /\ NsNext /\ UNCHANGED <<task_vars, cvars, lvars, sig_vars, io_vars, gate_vars, present>>
    \/ present = "load" /\ LoaderNext /\ UNCHANGED <<task_vars, cvars, ns_vars, sig_vars, io_vars, gate_vars, present>>
    \/ present = "signal" /\ SignalNext /\ UNCHANGED <<task_vars, cvars, ns_vars, lvars, io_vars, gate_vars, present>>
    \/ present = "files" /\ FileIoNext /\ UNCHANGED <<task_vars, cvars, ns_vars, lvars, sig_vars, gate_vars, present>>
    \/ /\ present = "log" /\ GateNext /\ \A t \in Untrusted : pcb'[t] = pcb[t]
       /\ UNCHANGED <<task_vars, cvars, ns_vars, lvars, sig_vars, io_vars, present>>
    \/ /\ present = "gate" /\ GateNext /\ audit' = audit
       /\ UNCHANGED <<task_vars, cvars, ns_vars, lvars, sig_vars, io_vars, present>>
    \/ present # "life" /\ UNCHANGED all_vars

Spec == Init /\ [][Next]_all_vars

mcSpawns == [t \in Objects |-> CASE t = Boot -> {S, D}
                                 [] t = D -> {A}
                                 [] t = A -> {B, C}
                                 [] OTHER -> {}]
mcMayJoin == [t \in Tasks |-> CASE t = D -> {A} [] t = A -> {B, C} [] OTHER -> {}]
mcQueue == [a \in Actors |-> CASE a = S -> 2 [] a = Idle -> 0 [] OTHER -> 1]
mcRequested == [t \in Tasks |-> IF t = S THEN 1 ELSE 0]
mcChildLimit == [t \in Objects |-> IF t = Boot THEN 3 ELSE 2]

mcProgram == [t \in Callers |-> IF t = 1 THEN "native" ELSE "linux"]
mcParent == [t \in {3} |-> 2]
mcWakes == {1, -1}


(* Programs: with libraries, short, overlapping, ELF, dynamic ELF, PE with an *)
(* import, PE with an unknown import and an empty file.                       *)
mcSeg(o, n, v, mem) == [off |-> o, file |-> n, va |-> v, mem |-> mem]
mcFile(n, ext, size, segs) ==
    [NoFile EXCEPT !.name = n, !.ext = ext, !.magic = ext, !.size = size, !.segs = segs]
mcPrograms == {
  [mcFile("app", "obr", 4, <<mcSeg(1, 1, 0, 3), mcSeg(2, 2, 4, 2)>>) EXCEPT !.deps = <<"foo", "far">>, !.entry = 2],
  mcFile("short", "obr", 4, <<mcSeg(1, 1, 0, 2), mcSeg(3, 2, 4, 2)>>),
  mcFile("clash", "obr", 2, <<mcSeg(0, 1, 0, 3), mcSeg(1, 1, 3, 1)>>),
  mcFile("lin", "elf", 3, <<mcSeg(0, 1, 0, 1), mcSeg(1, 2, 1, 4)>>),
  [mcFile("dyn", "elf", 3, <<mcSeg(0, 1, 0, 1), mcSeg(1, 2, 2, 2)>>) EXCEPT !.interp = 2],
  [mcFile("win", "exe", 4, <<mcSeg(0, 1, 0, 1), mcSeg(1, 2, 2, 2)>>) EXCEPT !.image = 2, !.imports = <<[slot |-> 3, func |-> 1]>>],
  [mcFile("odd", "exe", 4, <<mcSeg(0, 1, 0, 1), mcSeg(1, 2, 1, 3)>>) EXCEPT !.image = 2, !.imports = <<[slot |-> 2, func |-> 0], [slot |-> 3, func |-> 9]>>],
  [mcFile("none", "obr", 0, <<>>) EXCEPT !.magic = "bad"] }
mcLibs == [n \in {"foo", "far"} |-> mcFile(n, "obr", 2, <<mcSeg(1, 1, 0, 1)>>)]
mcLibBase == [n \in {"foo", "far"} |-> 20]
mcStubPages == <<50>>

\* A program of two divisions, of 5 and 6 bytes, and a load.
mcInsn(op, pre, md, r) == [op |-> op, prefixes |-> pre, mod |-> md, rm |-> r, base |-> 0]
mcInsns == [a \in {1, 6, 12} |-> CASE a = 1 -> mcInsn("div", 1, 1, 4)
                                  [] a = 6 -> mcInsn("div", 0, 0, 5)
                                  [] OTHER -> mcInsn("load", 0, 3, 0)]
mcCatches == {<<1, SIGFPE>>, <<1, SIGSEGV>>, <<3, SIGSEGV>>}
mcSends == {<<2, 1, SIGFPE>>, <<1, 1, SIGSEGV>>, <<2, 3, SIGKILL>>}

mcUntrusted == {100, 101}
mcTesters == {5000, 5001, 7001}
mcLevel == [t \in mcUntrusted \cup mcTesters |-> CASE t = 5000 -> 1 [] t = 5001 -> 8 [] OTHER -> 5]
mcWhitelist == {"OpenFile", "ReadFile", "CloseHandle", "VirtualAlloc", "VirtualFree",
                "GetCurrentToken", "CheckAccess", "GetProcessInfo"}
mcFilters == {[allow |-> {"UserExit"}, action |-> "KILL", errno |-> 0],
              [allow |-> {"SetCpuQuota"}, action |-> "ERRNO", errno |-> 1],
              [allow |-> {"UserExit"}, action |-> "ERRNO", errno |-> 0]}

=============================================================================
