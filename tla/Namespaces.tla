----------------------------- MODULE Namespaces -----------------------------
(***************************************************************************)
(* The process-number, mount and IPC namespaces of tasks (namespace.c):    *)
(* reference counts through creation, clone, unshare and the end of a      *)
(* task, any allocation of which may fail half-way.  The calls run with    *)
(* interrupts off, so each is one step.                                    *)
(***************************************************************************)
EXTENDS Integers, FiniteSets

CONSTANTS NsTasks,   \* tasks
          FirstTask, \* the one that is there at the start
          NsIds,     \* namespace objects of each kind; 1 is the root
          RootRefs,  \* 1000 in the code
          FlagSets,  \* the sets of kinds that a clone or an unshare asks for
          Nests      \* whether a task outside the root may make a process-number
                     \* namespace of its own

Kinds == {"pid", "mnt", "ipc"}
Root == 1

ASSUME NamespacesAssumption ==
    /\ IsFiniteSet(NsTasks) /\ FirstTask \in NsTasks
    /\ IsFiniteSet(NsIds) /\ NsIds \subseteq Nat \ {0} /\ Root \in NsIds
    /\ RootRefs \in Nat /\ RootRefs > 2 * Cardinality(NsTasks)
    /\ FlagSets \subseteq SUBSET Kinds
    /\ Nests \in BOOLEAN

VARIABLES
    nstate,     \* unborn, alive, gone
    ns_of,      \* the namespaces of each task, 0 for none
    namespaces  \* refcount and parent of each namespace, and whether it is allocated

ns_vars == <<nstate, ns_of, namespaces>>

NoNamespace == [live |-> FALSE, refcount |-> 0, parent |-> 0]

\* namespace_init, then task_18d_init of the first task.
NsInit ==
    /\ nstate = [t \in NsTasks |-> IF t = FirstTask THEN "alive" ELSE "unborn"]
    /\ ns_of = [t \in NsTasks |-> [k \in Kinds |-> IF t = FirstTask THEN Root ELSE 0]]
    /\ namespaces = [k \in Kinds |-> [n \in NsIds |->
          IF n = Root THEN [live |-> TRUE, refcount |-> RootRefs + 1, parent |-> 0]
          ELSE NoNamespace]]

-----------------------------------------------------------------------------
(* Operations on N, the namespaces of one kind *)

retain(N, n) == [N EXCEPT ![n].refcount = @ + 1]
FreeIds(N) == { n \in NsIds : ~N[n].live }
NewId(N) == CHOOSE n \in FreeIds(N) : TRUE
alloc(N, parent) ==
    [N EXCEPT ![NewId(N)] = [live |-> TRUE, refcount |-> 1, parent |-> parent]]

\* put_mntns, put_ipcns free a namespace that reaches 0; put_pidns never frees
\* the root, and puts the parent of one it frees, which has taken no reference.
Put(N, n) == [N EXCEPT ![n].refcount = IF @ > 0 THEN @ - 1 ELSE 0]
put_one(N, n) ==
    LET M == Put(N, n) IN
    IF M[n].refcount = 0 THEN [M EXCEPT ![n] = NoNamespace] ELSE M

\* PutStep: the namespaces, and the next one to put, 0 for none.
NsTables == [NsIds -> [live : BOOLEAN, refcount : Nat, parent : NsIds \cup {0}]]
PutStep == [s \in NsTables \X (NsIds \cup {0}) |->
    IF s[2] = 0 THEN s
    ELSE LET M == Put(s[1], s[2])
             up == M[s[2]].parent
         IN  IF M[s[2]].refcount = 0 /\ up # 0
             THEN <<[M EXCEPT ![s[2]] = NoNamespace], up>>
             ELSE <<M, 0>>]
put_pidns(N, n) ==
    LET puts[i \in Nat] == IF i = 0 THEN <<N, n>> ELSE PutStep[puts[i - 1]]
    IN  puts[Cardinality(NsIds)][1]

put(k, N, n) ==
    IF n = 0 THEN N ELSE IF k = "pid" THEN put_pidns(N, n) ELSE put_one(N, n)

-----------------------------------------------------------------------------
(* Clone and unshare take the kinds in the order pid, mnt, ipc and leave at the *)
(* first that cannot be allocated; Done is the set of those that were reached.  *)

Earlier == [pid |-> {}, mnt |-> {"pid"}, ipc |-> {"pid", "mnt"}]
\* The kinds handled when the allocation for kind f fails; f = "none" if none does.
Reached(f) == IF f = "none" THEN Kinds ELSE Earlier[f]
MayFail(flags) == flags \cup {"none"}
HasRoom(flags, f) == \A k \in flags \cap Reached(f) : FreeIds(namespaces[k]) # {}

\* namespace_fork puts the new task into its creator's namespaces, or new ones,
\* over the reference to the root that task_18d_init took.
\* Mutant: the inherited mount and IPC namespaces are not counted.
Forked_Uncounted(k, c, new) ==
    LET N == retain(namespaces[k], Root) IN
    IF new THEN alloc(N, ns_of[c][k]) ELSE N

Forked(k, c, new) ==
    LET N == retain(namespaces[k], Root) IN
    IF new THEN alloc(N, ns_of[c][k]) ELSE retain(N, ns_of[c][k])

\* namespace_clone_child; when an allocation fails task_destroy releases what the
\* child has: what was reached, nothing for f itself, the root for the rest.
Clone(c, t, flags, f) ==
    LET child(k) == IF k \notin Reached(f) THEN (IF k = f THEN 0 ELSE Root)
                    ELSE IF k \in flags THEN NewId(namespaces[k])
                    ELSE ns_of[c][k]
        forked(k) == IF k \in Reached(f) THEN Forked(k, c, k \in flags)
                     ELSE retain(namespaces[k], Root)
    IN  /\ nstate[c] = "alive" /\ nstate[t] = "unborn"
        /\ f \in MayFail(flags) /\ HasRoom(flags, f)
        /\ "pid" \in flags /\ ns_of[c]["pid"] # Root => Nests
        /\ IF f = "none"
           THEN /\ nstate' = [nstate EXCEPT ![t] = "alive"]
                /\ ns_of' = [ns_of EXCEPT ![t] = [k \in Kinds |-> child(k)]]
                /\ namespaces' = [k \in Kinds |-> forked(k)]
           ELSE /\ nstate' = [nstate EXCEPT ![t] = "gone"]
                /\ namespaces' = [k \in Kinds |-> put(k, forked(k), child(k))]
                /\ UNCHANGED ns_of

\* A task or thread made by task_create alone is in the root, whoever made it.
Create(t) ==
    /\ nstate[t] = "unborn"
    /\ nstate' = [nstate EXCEPT ![t] = "alive"]
    /\ ns_of' = [ns_of EXCEPT ![t] = [k \in Kinds |-> Root]]
    /\ namespaces' = [k \in Kinds |-> retain(namespaces[k], Root)]

\* namespace_unshare moves the caller, kind by kind; what was moved stays so when
\* a later allocation fails.
\* Mutant: the caller's old namespace is put only when all has succeeded.
namespace_unshare_PutsLate(t, flags, f) ==
    LET moved == flags \cap Reached(f) IN
    /\ nstate[t] = "alive" /\ flags # {}
    /\ f \in MayFail(flags) /\ HasRoom(flags, f)
    /\ "pid" \in moved /\ ns_of[t]["pid"] # Root => Nests
    /\ ns_of' = [ns_of EXCEPT ![t] = [k \in Kinds |->
          IF k \in moved THEN NewId(namespaces[k]) ELSE @[k]]]
    /\ namespaces' = [k \in Kinds |->
          IF k \notin moved THEN namespaces[k]
          ELSE IF f = "none" THEN put(k, alloc(namespaces[k], ns_of[t][k]), ns_of[t][k])
          ELSE alloc(namespaces[k], ns_of[t][k])]
    /\ UNCHANGED nstate

namespace_unshare(t, flags, f) ==
    LET moved == flags \cap Reached(f) IN
    /\ nstate[t] = "alive" /\ flags # {}
    /\ f \in MayFail(flags) /\ HasRoom(flags, f)
    /\ "pid" \in moved /\ ns_of[t]["pid"] # Root => Nests
    /\ ns_of' = [ns_of EXCEPT ![t] = [k \in Kinds |->
          IF k \in moved THEN NewId(namespaces[k]) ELSE @[k]]]
    /\ namespaces' = [k \in Kinds |->
          IF k \in moved THEN put(k, alloc(namespaces[k], ns_of[t][k]), ns_of[t][k])
          ELSE namespaces[k]]
    /\ UNCHANGED nstate

\* namespace_release, from task_18d_cleanup.
Release(t) ==
    /\ nstate[t] = "alive"
    /\ nstate' = [nstate EXCEPT ![t] = "gone"]
    /\ ns_of' = [ns_of EXCEPT ![t] = [k \in Kinds |-> 0]]
    /\ namespaces' = [k \in Kinds |-> put(k, namespaces[k], ns_of[t][k])]

NsNext ==
    \E t \in NsTasks :
        \/ \E c \in NsTasks, flags \in FlagSets, f \in Kinds \cup {"none"} :
               Clone(c, t, flags, f)
        \/ Create(t)
        \/ \E flags \in FlagSets, f \in Kinds \cup {"none"} : namespace_unshare(t, flags, f)
        \/ Release(t)

NsSpec == NsInit /\ [][NsNext]_ns_vars

-----------------------------------------------------------------------------
(* Properties *)

Users(k, n) == { t \in NsTasks : ns_of[t][k] = n }

\* A namespace lasts exactly as long as some task is in it, whatever clones and
\* unshares failed half-way, and its count is the number of those tasks; the
\* root's is never less (namespace_fork, namespace_unshare, namespace_release).
NamespacesHeld ==
    \A k \in Kinds : \A n \in NsIds :
        LET N == namespaces[k][n] IN
        IF n = Root THEN N.live /\ N.refcount >= Cardinality(Users(k, n))
        ELSE /\ N.live <=> Users(k, n) # {}
             /\ N.refcount = Cardinality(Users(k, n))

=============================================================================
