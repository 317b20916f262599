------------------------------ MODULE TasksProofs ------------------------------
(***************************************************************************)
(* What tasks share by number.  Namespaces: for any number of tasks, of    *)
(* namespaces and of failing allocations, when nobody outside the root     *)
(* makes a process-number namespace, a namespace lasts exactly as long as  *)
(* a task is in it.  Signals: for every table of signal states, every      *)
(* program and every set of tasks, what is pending for a task and the      *)
(* handlers that run for it are its own, and a handler returns to where    *)
(* the fault interrupted the program.  Gate: for any callers, levels and   *)
(* filters and a ring of any size, what was refused is on record, and a    *)
(* filter that forbids its own removal stays.                              *)
(***************************************************************************)
EXTENDS Namespaces, Signal, Gate, ListsProofs

-----------------------------------------------------------------------------
(* Namespaces *)

(* The inductive invariant.  The root's excess over its users is what it was *)
(* given at the start, less one for each task that is gone: a task that      *)
(* leaves a process-number namespace as the last puts the root too, which    *)
(* took no reference.                                                        *)

\* How many tasks are in each namespace of kind k.
Counts(k) == [n \in NsIds |-> Cardinality(Users(k, n))]
Gone == {t \in NsTasks : nstate[t] = "gone"}

\* N, the namespaces of kind k, counts c users of each while g tasks are gone.
Counted(k, N, c, g) ==
    /\ N \in NsTables
    /\ N[Root].live /\ N[Root].parent = 0
    /\ N[Root].refcount + g >= RootRefs + c[Root]
    /\ \A n \in NsIds \ {Root} :
        /\ N[n].refcount = c[n]
        /\ N[n].live <=> c[n] # 0
        /\ ~N[n].live => N[n] = NoNamespace
        /\ N[n].live /\ k = "pid" => N[n].parent = Root

NsTypeOK ==
    /\ nstate \in [NsTasks -> {"unborn", "alive", "gone"}]
    /\ ns_of \in [NsTasks -> [Kinds -> NsIds \cup {0}]]
    /\ namespaces \in [Kinds -> NsTables]

NsInv ==
    /\ NsTypeOK
    /\ \A t \in NsTasks : \A k \in Kinds : ns_of[t][k] # 0 <=> nstate[t] = "alive"
    /\ \A k \in Kinds : Counted(k, namespaces[k], Counts(k), Cardinality(Gone))

(* The operations on the namespaces of one kind *)

\* The assumptions, in the form the steps need.
LEMMA NsFacts ==
    /\ Root \in NsIds /\ NsIds \subseteq Nat /\ 0 \notin NsIds /\ IsFiniteSet(NsIds)
    /\ RootRefs \in Nat /\ Cardinality(NsTasks) \in Nat /\ Cardinality(NsTasks) < RootRefs
    /\ IsFiniteSet(NsTasks) /\ FirstTask \in NsTasks
<1>1. Cardinality(NsTasks) \in Nat
    BY NamespacesAssumption, FS_CardinalityType
<1> QED
    BY <1>1, NamespacesAssumption DEF Root

\* A freed namespace is a record too.
LEMMA NoNamespaceType ==
    NoNamespace \in [live : BOOLEAN, refcount : Nat, parent : NsIds \cup {0}]
BY DEF NoNamespace

\* A record of a namespace, field by field.
LEMMA RecordFacts ==
    ASSUME NEW N \in NsTables, NEW n \in NsIds
    PROVE  /\ N[n].live \in BOOLEAN /\ N[n].refcount \in Nat /\ N[n].parent \in NsIds \cup {0}
           /\ DOMAIN N = NsIds
BY DEF NsTables

\* A count that grows by one.
LEMMA RetainCounts ==
    ASSUME NEW k, NEW N, NEW c \in [NsIds -> Nat], NEW g \in Nat, Counted(k, N, c, g),
           NEW n \in NsIds, n = Root \/ c[n] # 0
    PROVE  Counted(k, retain(N, n), [c EXCEPT ![n] = @ + 1], g)
<1> USE NsFacts
<1>0. N \in NsTables
    BY DEF Counted
<1>1. PICK M : M = retain(N, n)
    OBVIOUS
<1>2. PICK d : d = [c EXCEPT ![n] = @ + 1]
    OBVIOUS
<1>3. /\ d[n] = c[n] + 1 /\ \A m \in NsIds \ {n} : d[m] = c[m]
    BY <1>2
<1>4. /\ M \in NsTables
      /\ M[n].refcount = N[n].refcount + 1 /\ M[n].live = N[n].live /\ M[n].parent = N[n].parent
      /\ \A m \in NsIds \ {n} : M[m] = N[m]
    BY <1>0, <1>1 DEF retain, NsTables
<1>5. M[Root].live /\ M[Root].parent = 0 /\ M[Root].refcount + g >= RootRefs + d[Root]
    BY <1>0, <1>3, <1>4, RecordFacts DEF Counted
<1>6. ASSUME NEW m \in NsIds \ {Root}
      PROVE  /\ M[m].refcount = d[m]
             /\ M[m].live <=> d[m] # 0
             /\ ~M[m].live => M[m] = NoNamespace
             /\ M[m].live /\ k = "pid" => M[m].parent = Root
    <2>1. CASE m = n
        <3>1. N[n].live /\ N[n].refcount = c[n] /\ (k = "pid" => N[n].parent = Root)
            BY <1>6, <2>1 DEF Counted
        <3> QED
            BY <2>1, <3>1, <1>3, <1>4
    <2>2. CASE m # n
        BY <1>6, <2>2, <1>3, <1>4 DEF Counted
    <2> QED
        BY <2>1, <2>2
<1>7. Counted(k, M, d, g)
    BY <1>4, <1>5, <1>6 DEF Counted
<1> QED
    BY <1>1, <1>2, <1>7

\* The root may count more than its users.
LEMMA RetainRoot ==
    ASSUME NEW k, NEW N, NEW c \in [NsIds -> Nat], NEW g \in Nat, Counted(k, N, c, g)
    PROVE  Counted(k, retain(N, Root), c, g) /\ FreeIds(retain(N, Root)) = FreeIds(N)
<1> USE NsFacts
<1>0. N \in NsTables
    BY DEF Counted
<1>1. PICK M : M = retain(N, Root)
    OBVIOUS
<1>4. /\ M \in NsTables
      /\ M[Root].refcount = N[Root].refcount + 1 /\ M[Root].live = N[Root].live /\ M[Root].parent = N[Root].parent
      /\ \A m \in NsIds \ {Root} : M[m] = N[m]
    BY <1>0, <1>1 DEF retain, NsTables
<1>5. M[Root].live /\ M[Root].parent = 0 /\ M[Root].refcount + g >= RootRefs + c[Root]
    BY <1>0, <1>4, RecordFacts DEF Counted
<1>6. Counted(k, M, c, g)
    BY <1>4, <1>5 DEF Counted
<1>7. FreeIds(M) = FreeIds(N)
    BY <1>4 DEF FreeIds
<1> QED
    BY <1>1, <1>6, <1>7

\* The bound is weaker when one more task is gone.
LEMMA GoneGrows ==
    ASSUME NEW k, NEW N, NEW c \in [NsIds -> Nat], NEW g \in Nat, Counted(k, N, c, g)
    PROVE  Counted(k, N, c, g + 1)
<1>1. N[Root].refcount + (g + 1) >= RootRefs + c[Root]
    BY NsFacts, RecordFacts DEF Counted
<1> QED
    BY <1>1 DEF Counted

\* A new namespace has one user.
LEMMA AllocCounts ==
    ASSUME NEW k, NEW N, NEW c \in [NsIds -> Nat], NEW g \in Nat, Counted(k, N, c, g),
           FreeIds(N) # {}, NEW p \in NsIds \cup {0}, k = "pid" => p = Root
    PROVE  /\ NewId(N) \in NsIds \ {Root} /\ c[NewId(N)] = 0
           /\ Counted(k, alloc(N, p), [c EXCEPT ![NewId(N)] = 1], g)
<1> USE NsFacts
<1>0. N \in NsTables
    BY DEF Counted
<1>1. PICK m : m = NewId(N)
    OBVIOUS
<1>2. m \in FreeIds(N)
    BY <1>1 DEF NewId
<1>3. m \in NsIds \ {Root} /\ ~N[m].live
    BY <1>2 DEF FreeIds, Counted
<1>4. c[m] = 0
    BY <1>3 DEF Counted
<1>5. PICK M : M = alloc(N, p)
    OBVIOUS
<1>6. PICK r : r = [live |-> TRUE, refcount |-> 1, parent |-> p]
    OBVIOUS
<1>7. M = [N EXCEPT ![m] = r]
    BY <1>1, <1>5, <1>6 DEF alloc
<1>8. M \in NsTables /\ M[m] = r /\ \A j \in NsIds \ {m} : M[j] = N[j]
    BY <1>0, <1>3, <1>6, <1>7 DEF NsTables
<1>9. PICK d : d = [c EXCEPT ![m] = 1]
    OBVIOUS
<1>10. d[m] = 1 /\ \A j \in NsIds \ {m} : d[j] = c[j]
    BY <1>3, <1>9
<1>11. M[Root].live /\ M[Root].parent = 0 /\ M[Root].refcount + g >= RootRefs + d[Root]
    BY <1>3, <1>8, <1>10 DEF Counted
<1>12. ASSUME NEW j \in NsIds \ {Root}
       PROVE  /\ M[j].refcount = d[j]
              /\ M[j].live <=> d[j] # 0
              /\ ~M[j].live => M[j] = NoNamespace
              /\ M[j].live /\ k = "pid" => M[j].parent = Root
    <2>1. CASE j = m
        BY <2>1, <1>6, <1>8, <1>10
    <2>2. CASE j # m
        BY <1>12, <2>2, <1>8, <1>10 DEF Counted
    <2> QED
        BY <2>1, <2>2
<1>13. Counted(k, M, d, g)
    BY <1>8, <1>11, <1>12 DEF Counted
<1> QED
    BY <1>1, <1>3, <1>4, <1>5, <1>9, <1>13

\* Where a chain of puts may be.
States == NsTables \X (NsIds \cup {0})

\* What one put changes.
LEMMA PutTypes ==
    ASSUME NEW N \in NsTables, NEW n \in NsIds
    PROVE  /\ Put(N, n) \in NsTables
           /\ Put(N, n)[n].refcount = (IF N[n].refcount > 0 THEN N[n].refcount - 1 ELSE 0)
           /\ Put(N, n)[n].live = N[n].live /\ Put(N, n)[n].parent = N[n].parent
           /\ \A m \in NsIds \ {n} : Put(N, n)[m] = N[m]
<1>1. PICK M : M = Put(N, n)
    OBVIOUS
<1>2. PICK x : x = (IF N[n].refcount > 0 THEN N[n].refcount - 1 ELSE 0)
    OBVIOUS
<1>3. x \in Nat
    BY <1>2, RecordFacts
<1>4. M = [N EXCEPT ![n].refcount = x]
    BY <1>1, <1>2 DEF Put
<1> QED
    BY <1>1, <1>2, <1>3, <1>4 DEF NsTables

\* One step of a chain of puts is a function on them.
LEMMA PutStepType == PutStep \in [States -> States]
<1> USE NsFacts
<1>1. ASSUME NEW s \in States PROVE PutStep[s] \in States
    <2>0. s \in NsTables \X (NsIds \cup {0})
        BY DEF States
    <2>1. PICK N \in NsTables, n \in NsIds \cup {0} : s = <<N, n>>
        BY ONLY <2>0
    <2>2. CASE n = 0
        BY <2>1, <2>2 DEF PutStep, States
    <2>3. CASE n # 0
        <3>1. PICK M : M = Put(N, n)
            OBVIOUS
        <3>2. M \in NsTables /\ M[n].parent \in NsIds \cup {0}
            BY <2>3, <3>1, PutTypes, RecordFacts
        <3>3. [M EXCEPT ![n] = NoNamespace] \in NsTables
            BY <2>3, <3>2, NoNamespaceType DEF NsTables
        <3>4. PutStep[s] = IF M[n].refcount = 0 /\ M[n].parent # 0
                           THEN <<[M EXCEPT ![n] = NoNamespace], M[n].parent>> ELSE <<M, 0>>
            BY <2>1, <2>3, <3>1 DEF PutStep, States
        <3> QED
            BY <3>2, <3>3, <3>4 DEF States
    <2> QED
        BY <2>2, <2>3
<1>2. PICK f : f = PutStep
    OBVIOUS
<1>3. f = [s \in States |-> f[s]]
    BY <1>2 DEF PutStep, States
<1> QED
    BY <1>1, <1>2, <1>3

\* A chain of puts that has ended stays as it is.
LEMMA PutsEnd ==
    ASSUME NEW N \in NsTables, NEW n \in NsIds, NEW X \in NsTables,
           \/ PutStep[<<N, n>>] = <<X, 0>>
           \/ PutStep[PutStep[<<N, n>>]] = <<X, 0>> /\ n # Root
    PROVE  put_pidns(N, n) = X
<1> USE NsFacts
<1>1. PICK q \in [Nat -> States] : q = [i \in Nat |-> IF i = 0 THEN <<N, n>> ELSE PutStep[q[i - 1]]]
    <2>1. <<N, n>> \in States
        BY DEF States
    <2>2. PICK nx : nx = PutStep
        OBVIOUS
    <2>3. PICK a : a = <<N, n>>
        OBVIOUS
    <2>4. \E g \in [Nat -> States] : g = [i \in Nat |-> IF i = 0 THEN a ELSE nx[g[i - 1]]]
        <3>1. nx \in [States -> States] /\ a \in States
            BY <2>1, <2>2, <2>3, PutStepType
        <3> QED
            BY ONLY <3>1, IterationExists
    <2> QED
        BY <2>2, <2>3, <2>4
<1>2. PICK p : p = CHOOSE r : r = [i \in Nat |-> IF i = 0 THEN <<N, n>> ELSE PutStep[r[i - 1]]]
    OBVIOUS
<1>3. p = [i \in Nat |-> IF i = 0 THEN <<N, n>> ELSE PutStep[p[i - 1]]]
    BY <1>1, <1>2
<1>4. put_pidns(N, n) = p[Cardinality(NsIds)][1]
    BY <1>2 DEF put_pidns
<1>5. p[0] = <<N, n>> /\ \A i \in Nat : p[i + 1] = PutStep[p[i]]
    <2>1. ASSUME NEW i \in Nat PROVE p[i + 1] = PutStep[p[i]]
        <3>1. i + 1 \in Nat /\ i + 1 # 0 /\ i + 1 - 1 = i
            OBVIOUS
        <3> QED
            BY <1>3, <3>1
    <2> QED
        BY <1>3, <2>1
<1>6. Cardinality(NsIds) \in Nat /\ Cardinality(NsIds) >= 1 /\ (n # Root => Cardinality(NsIds) >= 2)
    <2>1. Cardinality(NsIds) \in Nat /\ Cardinality({}) = 0 /\ IsFiniteSet({})
        BY FS_CardinalityType, FS_EmptySet
    <2>2. {Root} \subseteq NsIds /\ IsFiniteSet({Root}) /\ Cardinality({Root}) = 1
        BY FS_Singleton
    <2>3. Cardinality(NsIds) >= 1
        BY <2>1, <2>2, FS_Subset
    <2>4. ASSUME n # Root PROVE Cardinality(NsIds) >= 2
        <3>1. n \notin {Root}
            BY <2>4
        <3>2. Cardinality({Root} \cup {n}) = 1 + 1
            BY <2>2, <3>1, FS_AddElement
        <3>3. {Root} \cup {n} \in SUBSET NsIds
            BY <2>2
        <3> QED
            BY <2>1, <3>2, <3>3, FS_Subset
    <2> QED
        BY <2>1, <2>3, <2>4
<1>7. PutStep[<<X, 0>>] = <<X, 0>>
    BY DEF PutStep
<1>8. ASSUME NEW j \in Nat, p[j] = <<X, 0>>
      PROVE  \A i \in Nat : i >= j => p[i] = <<X, 0>>
    <2> DEFINE Missed == {i \in Nat : i >= j /\ p[i] # <<X, 0>>}
    <2>1. SUFFICES ASSUME Missed # {} PROVE FALSE
        OBVIOUS
    <2>2. PICK i \in Missed : \A m \in Missed : i <= m
        BY <2>1, NatMin
    <2>3. i # j /\ i \in Nat /\ i >= j /\ p[i] # <<X, 0>>
        BY <1>8, <2>2
    <2>4. i - 1 \in Nat /\ i - 1 >= j /\ i - 1 + 1 = i /\ ~(i <= i - 1)
        BY <2>3
    <2>5. i - 1 \notin Missed
        BY <2>2, <2>4
    <2>6. p[i - 1] = <<X, 0>>
        BY <2>4, <2>5
    <2>7. p[i] = PutStep[p[i - 1]]
        BY <1>5, <2>4
    <2> QED
        BY <1>7, <2>3, <2>6, <2>7
<1>9. p[1] = PutStep[<<N, n>>] /\ p[2] = PutStep[p[1]]
    <2>1. p[0 + 1] = PutStep[p[0]] /\ p[1 + 1] = PutStep[p[1]] /\ 0 + 1 = 1 /\ 1 + 1 = 2
        BY <1>5
    <2> QED
        BY <1>5, <2>1
<1>10. CASE PutStep[<<N, n>>] = <<X, 0>>
    <2>1. p[1] = <<X, 0>> /\ 1 \in Nat
        BY <1>9, <1>10
    <2>2. p[Cardinality(NsIds)] = <<X, 0>>
        BY <1>6, <1>8, <2>1
    <2> QED
        BY <1>4, <2>2
<1>11. CASE PutStep[PutStep[<<N, n>>]] = <<X, 0>> /\ n # Root
    <2>1. p[2] = <<X, 0>> /\ 2 \in Nat
        BY <1>9, <1>11
    <2>2. p[Cardinality(NsIds)] = <<X, 0>>
        BY <1>6, <1>8, <1>11, <2>1
    <2> QED
        BY <1>4, <2>2
<1> QED
    BY <1>10, <1>11

\* A put takes one user away; the root keeps its excess, less one for each
\* process-number namespace that is freed.
LEMMA PutCounts ==
    ASSUME NEW k \in Kinds, NEW N, NEW c \in [NsIds -> Nat], NEW g \in Nat, g + 1 < RootRefs,
           Counted(k, N, c, g), NEW n \in NsIds, c[n] # 0
    PROVE  /\ Counted(k, put(k, N, n), [c EXCEPT ![n] = @ - 1], g + 1)
           /\ n = Root \/ k # "pid" => Counted(k, put(k, N, n), [c EXCEPT ![n] = @ - 1], g)
<1> USE NsFacts
<1>1. N \in NsTables /\ 0 \notin NsIds
    BY DEF Counted
<1>2. PICK M : M = Put(N, n)
    OBVIOUS
<1>3. PICK d : d = [c EXCEPT ![n] = @ - 1]
    OBVIOUS
<1>4. d \in [NsIds -> Nat] /\ d[n] = c[n] - 1 /\ \A m \in NsIds \ {n} : d[m] = c[m]
    BY <1>3
<1>5. /\ M \in NsTables
      /\ M[n].refcount = (IF N[n].refcount > 0 THEN N[n].refcount - 1 ELSE 0)
      /\ M[n].live = N[n].live /\ M[n].parent = N[n].parent
      /\ \A m \in NsIds \ {n} : M[m] = N[m]
    BY <1>1, <1>2, PutTypes
<1>6. N[n].refcount > 0 /\ M[n].refcount = N[n].refcount - 1
    BY <1>1, <1>5, RecordFacts DEF Counted
<1>7. M[Root].live /\ M[Root].parent = 0 /\ M[Root].refcount + g >= RootRefs + d[Root]
    BY <1>1, <1>4, <1>5, <1>6, RecordFacts DEF Counted
<1>8. M[Root].refcount \in Nat /\ M[Root].refcount > 1
    BY <1>4, <1>5, <1>7, RecordFacts
<1>9. n # Root => M[n].refcount = d[n] /\ M[n].live /\ (k = "pid" => M[n].parent = Root)
    BY <1>4, <1>5, <1>6 DEF Counted
<1>10. \A m \in NsIds \ {Root} : m # n => /\ M[m].refcount = d[m]
                                          /\ M[m].live <=> d[m] # 0
                                          /\ ~M[m].live => M[m] = NoNamespace
                                          /\ M[m].live /\ k = "pid" => M[m].parent = Root
    BY <1>4, <1>5 DEF Counted
<1>11. PICK F : F = [M EXCEPT ![n] = NoNamespace]
    OBVIOUS
<1>12. F \in NsTables /\ F[n] = NoNamespace /\ \A m \in NsIds \ {n} : F[m] = M[m]
    BY <1>5, <1>11, NoNamespaceType DEF NsTables
<1>13. n = Root \/ d[n] # 0 => Counted(k, M, d, g)
    BY <1>5, <1>7, <1>9, <1>10 DEF Counted
<1>14. n # Root /\ d[n] = 0 => Counted(k, F, d, g)
    BY <1>7, <1>9, <1>10, <1>12 DEF Counted, NoNamespace
<1>15. CASE k # "pid"
    <2>1. put(k, N, n) = IF M[n].refcount = 0 THEN F ELSE M
        BY <1>1, <1>2, <1>11, <1>15 DEF put, put_one
    <2>2. Counted(k, put(k, N, n), d, g)
        <3>1. CASE n = Root
            BY <2>1, <3>1, <1>8, <1>13
        <3>2. CASE n # Root /\ d[n] = 0
            BY <2>1, <3>2, <1>9, <1>14
        <3>3. CASE n # Root /\ d[n] # 0
            BY <2>1, <3>3, <1>9, <1>13
        <3> QED
            BY <3>1, <3>2, <3>3
    <2> QED
        BY <2>2, <1>3, <1>4, GoneGrows
<1>16. CASE k = "pid"
    <2>1. put(k, N, n) = put_pidns(N, n)
        BY <1>1, <1>16 DEF put
    <2>2. PutStep[<<N, n>>] = IF M[n].refcount = 0 /\ M[n].parent # 0 THEN <<F, M[n].parent>> ELSE <<M, 0>>
        <3>1. <<N, n>> \in NsTables \X (NsIds \cup {0}) /\ n # 0
            BY <1>1
        <3> QED
            BY <3>1, <1>2, <1>11 DEF PutStep
    <2>3. CASE n = Root
        <3>1. PutStep[<<N, n>>] = <<M, 0>>
            BY <2>2, <2>3, <1>7
        <3>2. put(k, N, n) = M
            BY <2>1, <3>1, <1>1, <1>5, PutsEnd
        <3> QED
            BY <3>2, <2>3, <1>3, <1>4, <1>13, GoneGrows
    <2>4. CASE n # Root /\ d[n] # 0
        <3>1. PutStep[<<N, n>>] = <<M, 0>>
            BY <2>2, <2>4, <1>9
        <3>2. put(k, N, n) = M
            BY <2>1, <3>1, <1>1, <1>5, PutsEnd
        <3> QED
            BY <3>2, <2>4, <1>3, <1>4, <1>13, <1>16, GoneGrows
    <2>5. CASE n # Root /\ d[n] = 0
        <3>1. PutStep[<<N, n>>] = <<F, Root>>
            BY <2>2, <2>5, <1>1, <1>9, <1>16
        <3>2. PICK R : R = Put(F, Root)
            OBVIOUS
        <3>3. F[Root] = M[Root] /\ F[Root].live /\ F[Root].parent = 0 /\ F[Root].refcount > 1
            BY <2>5, <1>7, <1>8, <1>12
        <3>4. /\ R \in NsTables
              /\ R[Root].refcount = F[Root].refcount - 1 /\ R[Root].live /\ R[Root].parent = 0
              /\ \A m \in NsIds \ {Root} : R[m] = F[m]
            <4>1. F[Root].refcount \in Nat /\ F[Root].refcount > 0
                BY <3>3, <1>8, <1>12, RecordFacts
            <4>2. /\ R \in NsTables
                  /\ R[Root].refcount = (IF F[Root].refcount > 0 THEN F[Root].refcount - 1 ELSE 0)
                  /\ R[Root].live = F[Root].live /\ R[Root].parent = F[Root].parent
                  /\ \A m \in NsIds \ {Root} : R[m] = F[m]
                BY <3>2, <1>12, PutTypes
            <4> QED
                BY <3>3, <4>1, <4>2
        <3>5. R[Root].refcount # 0
            BY <3>3, <3>4, <1>8
        <3>6. PutStep[<<F, Root>>] = <<R, 0>>
            <4>1. <<F, Root>> \in NsTables \X (NsIds \cup {0}) /\ Root # 0
                BY <1>1, <1>12
            <4> QED
                BY <4>1, <3>2, <3>5 DEF PutStep
        <3>7. put(k, N, n) = R
            BY <2>1, <2>5, <3>1, <3>4, <3>6, <1>1, PutsEnd
        <3>8. Counted(k, F, d, g)
            BY <2>5, <1>14
        <3>9. R[Root].refcount + (g + 1) >= RootRefs + d[Root]
            BY <3>3, <3>4, <1>4, <1>7, <1>8
        <3>10. Counted(k, R, d, g + 1)
            BY <3>4, <3>8, <3>9 DEF Counted
        <3> QED
            BY <3>7, <3>10, <2>5, <1>3, <1>16
    <2> QED
        BY <2>3, <2>4, <2>5
<1> QED
    BY <1>15, <1>16

\* How the users are counted when a task moves from a to b, 0 for nowhere.
LEMMA MoveTables ==
    ASSUME NEW k \in Kinds, NEW t \in NsTasks, NEW a \in NsIds \cup {0}, NEW b \in NsIds \cup {0},
           ns_of[t][k] = a, ns_of'[t][k] = b,
           \A s \in NsTasks \ {t} : ns_of'[s][k] = ns_of[s][k],
           NEW c, c = Counts(k), NEW d, d = Counts(k)'
    PROVE  /\ c \in [NsIds -> Nat] /\ (a # 0 => c[a] # 0)
           /\ a = b => d = c
           /\ a = 0 /\ b # 0 => d = [c EXCEPT ![b] = @ + 1]
           /\ a # 0 /\ b = 0 => d = [c EXCEPT ![a] = @ - 1]
           /\ a # 0 /\ b # 0 /\ a # b /\ c[b] = 0 => d = [[c EXCEPT ![b] = 1] EXCEPT ![a] = @ - 1]
<1> USE NsFacts
<1>1. ASSUME NEW n \in NsIds
      PROVE  /\ IsFiniteSet(Users(k, n)) /\ Cardinality(Users(k, n)) \in Nat
             /\ IsFiniteSet(Users(k, n)') /\ Cardinality(Users(k, n)') \in Nat
    <2>1. Users(k, n) \in SUBSET NsTasks /\ Users(k, n)' \in SUBSET NsTasks
        BY DEF Users
    <2> QED
        BY <2>1, FS_Subset, FS_CardinalityType
<1>2. ASSUME NEW n \in NsIds
      PROVE  /\ Users(k, n) \in SUBSET NsTasks /\ Users(k, n)' \in SUBSET NsTasks
             /\ \A s \in NsTasks : s \in Users(k, n) <=> ns_of[s][k] = n
             /\ \A s \in NsTasks : s \in Users(k, n)' <=> ns_of'[s][k] = n
    BY DEF Users
<1>4. ASSUME NEW n \in NsIds
      PROVE  Cardinality(Users(k, n)') = IF b = a THEN Cardinality(Users(k, n))
                                         ELSE IF n = b THEN Cardinality(Users(k, n)) + 1
                                         ELSE IF n = a THEN Cardinality(Users(k, n)) - 1
                                         ELSE Cardinality(Users(k, n))
    <2>1. PICK U : U = Users(k, n)
        OBVIOUS
    <2>2. PICK V : V = Users(k, n)'
        OBVIOUS
    <2>3. /\ U \in SUBSET NsTasks /\ V \in SUBSET NsTasks /\ IsFiniteSet(U)
          /\ t \in U <=> a = n
          /\ t \in V <=> b = n
          /\ \A s \in NsTasks \ {t} : s \in V <=> s \in U
        <3>1. U \in SUBSET NsTasks /\ V \in SUBSET NsTasks /\ IsFiniteSet(U)
            BY ONLY <1>1, <1>2, <2>1, <2>2
        <3>2. \A s \in NsTasks : (s \in U <=> ns_of[s][k] = n) /\ (s \in V <=> ns_of'[s][k] = n)
            BY ONLY <1>2, <2>1, <2>2
        <3> QED
            BY ONLY <3>1, <3>2, t \in NsTasks, ns_of[t][k] = a, ns_of'[t][k] = b,
               \A s \in NsTasks \ {t} : ns_of'[s][k] = ns_of[s][k]
    <2>4. CASE b = a \/ n \notin {b, a}
        <3>1. V = U
            BY ONLY <2>3, <2>4
        <3> QED
            BY <2>1, <2>2, <2>4, <3>1
    <2>5. CASE b # a /\ n = b
        <3>1. V = U \cup {t} /\ t \notin U
            BY ONLY <2>3, <2>5, t \in NsTasks
        <3>2. Cardinality(V) = Cardinality(U) + 1
            BY ONLY <2>3, <3>1, FS_AddElement
        <3> QED
            BY <2>1, <2>2, <2>5, <3>2
    <2>6. CASE b # a /\ n # b /\ n = a
        <3>1. V = U \ {t} /\ t \in U
            BY ONLY <2>3, <2>6, t \in NsTasks
        <3>2. Cardinality(V) = Cardinality(U) - 1
            BY ONLY <2>3, <3>1, FS_RemoveElement
        <3> QED
            BY <2>1, <2>2, <2>6, <3>2
    <2> QED
        BY <2>4, <2>5, <2>6
<1>6. a # 0 => Cardinality(Users(k, a)) # 0
    <2>1. SUFFICES ASSUME a # 0 PROVE Cardinality(Users(k, a)) # 0
        OBVIOUS
    <2>2. t \in Users(k, a) /\ a \in NsIds
        BY <2>1 DEF Users
    <2> QED
        BY <2>2, <1>1, FS_EmptySet
<1>7. /\ \A n \in NsIds : c[n] = Cardinality(Users(k, n)) /\ d[n] = Cardinality(Users(k, n)')
      /\ c \in [NsIds -> Nat] /\ d \in [NsIds -> Nat]
    BY <1>1 DEF Counts
<1>3. \A n \in NsIds : d[n] = IF b = a THEN c[n] ELSE IF n = b THEN c[n] + 1
                              ELSE IF n = a THEN c[n] - 1 ELSE c[n]
    BY <1>4, <1>7
<1>9. a # 0 => c[a] # 0
    <2>1. a # 0 => a \in NsIds
        OBVIOUS
    <2> QED
        BY <2>1, <1>6, <1>7
<1>5. a = b => d = c
    <2>1. SUFFICES ASSUME a = b PROVE d = c
        OBVIOUS
    <2>2. \A n \in NsIds : d[n] = c[n]
        BY <1>3, <2>1
    <2>3. c \in [NsIds -> Nat] /\ d \in [NsIds -> Nat]
        BY <1>7
    <2> QED
        BY ONLY <2>2, <2>3
<1>10. a = 0 /\ b # 0 => d = [c EXCEPT ![b] = @ + 1]
    <2>1. SUFFICES ASSUME a = 0, b # 0 PROVE d = [c EXCEPT ![b] = @ + 1]
        OBVIOUS
    <2>2. \A n \in NsIds : d[n] = IF n = b THEN c[n] + 1 ELSE c[n]
        BY <1>3, <1>7, <2>1
    <2> QED
        BY <1>3, <1>7, <2>1, <2>2
<1>11. a # 0 /\ b = 0 => d = [c EXCEPT ![a] = @ - 1]
    <2>1. SUFFICES ASSUME a # 0, b = 0 PROVE d = [c EXCEPT ![a] = @ - 1]
        OBVIOUS
    <2>2. \A n \in NsIds : d[n] = IF n = a THEN c[n] - 1 ELSE c[n]
        BY <1>3, <1>7, <2>1
    <2> QED
        BY <1>3, <1>7, <2>1, <2>2
<1>8. a # 0 /\ b # 0 /\ a # b /\ c[b] = 0 => d = [[c EXCEPT ![b] = 1] EXCEPT ![a] = @ - 1]
    <2>1. SUFFICES ASSUME a # 0, b # 0, a # b, c[b] = 0 PROVE d = [[c EXCEPT ![b] = 1] EXCEPT ![a] = @ - 1]
        OBVIOUS
    <2>8. c[b] + 1 = 1
        BY ONLY <2>1
    <2>2. \A n \in NsIds : d[n] = IF n = b THEN 1 ELSE IF n = a THEN c[n] - 1 ELSE c[n]
        BY ONLY <1>3, <2>1, <2>8
    <2>3. PICK e : e = [c EXCEPT ![b] = 1]
        OBVIOUS
    <2>6. c \in [NsIds -> Nat] /\ d \in [NsIds -> Nat] /\ a \in NsIds /\ b \in NsIds
        BY <1>7, <2>1
    <2>4. e \in [NsIds -> Nat] /\ \A n \in NsIds : e[n] = IF n = b THEN 1 ELSE c[n]
        BY ONLY <2>3, <2>6
    <2>7. \A n \in NsIds : d[n] = IF n = a THEN e[n] - 1 ELSE e[n]
        BY ONLY <2>1, <2>2, <2>4
    <2>5. d = [e EXCEPT ![a] = @ - 1]
        BY ONLY <2>4, <2>6, <2>7
    <2> QED
        BY <2>3, <2>5
<1> QED
    BY <1>7, <1>9, <1>5, <1>10, <1>11, <1>8

\* Fewer tasks are gone than there are, while one is not.
LEMMA GoneBound ==
    /\ IsFiniteSet(Gone) /\ Cardinality(Gone) \in Nat /\ Cardinality(Gone) <= Cardinality(NsTasks)
    /\ \A t \in NsTasks : nstate[t] # "gone" => Cardinality(Gone) + 1 <= Cardinality(NsTasks)
<1> USE NsFacts
<1>1. Gone \in SUBSET NsTasks
    BY DEF Gone
<1>2. IsFiniteSet(Gone) /\ Cardinality(Gone) \in Nat /\ Cardinality(Gone) <= Cardinality(NsTasks)
    BY <1>1, FS_Subset, FS_CardinalityType
<1>3. ASSUME NEW t \in NsTasks, nstate[t] # "gone" PROVE Cardinality(Gone) + 1 <= Cardinality(NsTasks)
    <2>1. t \notin Gone /\ Gone \cup {t} \in SUBSET NsTasks
        BY <1>1, <1>3 DEF Gone
    <2>2. Cardinality(Gone \cup {t}) = Cardinality(Gone) + 1
        BY <1>2, <2>1, FS_AddElement
    <2>3. Cardinality(Gone \cup {t}) <= Cardinality(NsTasks)
        BY <2>1, FS_Subset
    <2> QED
        BY <2>2, <2>3
<1> QED
    BY <1>2, <1>3

\* One more task is gone.
LEMMA GoneAdds ==
    ASSUME NsTypeOK, NEW t \in NsTasks, nstate[t] # "gone", nstate' = [nstate EXCEPT ![t] = "gone"]
    PROVE  Cardinality(Gone') = Cardinality(Gone) + 1
<1>1. Gone' = Gone \cup {t} /\ t \notin Gone
    BY DEF Gone, NsTypeOK
<1> QED
    BY <1>1, GoneBound, FS_AddElement

\* Nobody is gone by a birth.
LEMMA GoneStays ==
    ASSUME NsTypeOK, NEW t \in NsTasks, nstate[t] # "gone", nstate' = [nstate EXCEPT ![t] = "alive"]
    PROVE  Gone' = Gone
BY DEF Gone, NsTypeOK

(* The actions *)

\* The invariant, for one kind.
LEMMA KindMeans ==
    ASSUME NsInv, NEW k \in Kinds
    PROVE  /\ Counted(k, namespaces[k], Counts(k), Cardinality(Gone)) /\ namespaces[k] \in NsTables
           /\ NsTypeOK /\ Cardinality(Gone) \in Nat
BY GoneBound DEF NsInv, NsTypeOK

\* What is left to show of a step: each kind by itself.
LEMMA KindByKind ==
    ASSUME nstate' \in [NsTasks -> {"unborn", "alive", "gone"}],
           ns_of' \in [NsTasks -> [Kinds -> NsIds \cup {0}]],
           DOMAIN namespaces' = Kinds, namespaces' = [k \in Kinds |-> namespaces'[k]],
           \A t \in NsTasks : \A k \in Kinds : ns_of'[t][k] # 0 <=> nstate'[t] = "alive",
           \A k \in Kinds : Counted(k, namespaces'[k], Counts(k)', Cardinality(Gone'))
    PROVE  NsInv'
<1>1. \A k \in Kinds : namespaces'[k] \in NsTables
    BY DEF Counted
<1> QED
    BY <1>1 DEF NsInv, NsTypeOK

\* The invariant, for one task.
LEMMA TaskMeans ==
    ASSUME NsInv, NEW t \in NsTasks, NEW k \in Kinds
    PROVE  /\ ns_of[t][k] \in NsIds \cup {0}
           /\ ns_of[t][k] # 0 <=> nstate[t] = "alive"
<1>1. ns_of[t][k] \in NsIds \cup {0}
    BY DEF NsInv, NsTypeOK
<1>2. ns_of[t][k] # 0 <=> nstate[t] = "alive"
    BY DEF NsInv
<1> QED
    BY <1>1, <1>2

\* task_create: one more user of the root.
LEMMA CreateKeeps ==
    ASSUME NsInv, NEW t \in NsTasks, Create(t)
    PROVE  NsInv'
<1> USE NsFacts
<1>1. PICK f : f = [k \in Kinds |-> Root]
    OBVIOUS
<1>2. f \in [Kinds -> NsIds \cup {0}] /\ ns_of' = [ns_of EXCEPT ![t] = f]
    BY <1>1 DEF Create
<1>3. /\ nstate[t] = "unborn" /\ nstate' = [nstate EXCEPT ![t] = "alive"]
      /\ namespaces' = [k \in Kinds |-> retain(namespaces[k], Root)]
    BY DEF Create
<1>4. NsTypeOK
    BY DEF NsInv
<1>5. Gone' = Gone
    BY <1>3, <1>4, GoneStays
<1>6. ASSUME NEW k \in Kinds PROVE Counted(k, namespaces'[k], Counts(k)', Cardinality(Gone'))
    <2>1. ns_of[t][k] = 0 /\ ns_of'[t][k] = Root /\ \A s \in NsTasks \ {t} : ns_of'[s][k] = ns_of[s][k]
        <3>1. ns_of[t][k] = 0 /\ f[k] = Root
            BY <1>1, <1>3, TaskMeans
        <3> QED
            BY <1>2, <1>4, <3>1 DEF NsTypeOK
    <2>2. Counts(k)' = [Counts(k) EXCEPT ![Root] = @ + 1] /\ Counts(k) \in [NsIds -> Nat]
        BY <2>1, MoveTables
    <2>3. PICK N : N = namespaces[k]
        OBVIOUS
    <2>4. namespaces'[k] = retain(N, Root)
        BY <1>3, <2>3
    <2>5. PICK c : c = Counts(k)
        OBVIOUS
    <2>6. PICK g : g = Cardinality(Gone)
        OBVIOUS
    <2>7. Counted(k, N, c, g) /\ c \in [NsIds -> Nat] /\ g \in Nat
        BY <2>2, <2>3, <2>5, <2>6, KindMeans
    <2>8. Counted(k, retain(N, Root), [c EXCEPT ![Root] = @ + 1], g)
        BY <2>7, RetainCounts
    <2> QED
        BY <1>5, <2>2, <2>4, <2>5, <2>6, <2>8
<1>7. nstate' \in [NsTasks -> {"unborn", "alive", "gone"}] /\ ns_of' \in [NsTasks -> [Kinds -> NsIds \cup {0}]]
    BY <1>2, <1>3, <1>4 DEF NsTypeOK
<1>8. ASSUME NEW s \in NsTasks, NEW k \in Kinds PROVE ns_of'[s][k] # 0 <=> nstate'[s] = "alive"
    <2>1. CASE s = t
        BY <1>1, <1>2, <1>3, <1>4, <2>1 DEF NsTypeOK
    <2>2. CASE s # t
        BY <1>2, <1>3, <1>4, <2>2, TaskMeans DEF NsTypeOK
    <2> QED
        BY <2>1, <2>2
<1> QED
    BY <1>3, <1>6, <1>7, <1>8, KindByKind

\* namespace_release: one user less, one more gone.
LEMMA ReleaseKeeps ==
    ASSUME NsInv, NEW t \in NsTasks, Release(t)
    PROVE  NsInv'
<1> USE NsFacts
<1>1. PICK f : f = [k \in Kinds |-> 0]
    OBVIOUS
<1>2. f \in [Kinds -> NsIds \cup {0}] /\ ns_of' = [ns_of EXCEPT ![t] = f]
    BY <1>1 DEF Release
<1>3. /\ nstate[t] = "alive" /\ nstate' = [nstate EXCEPT ![t] = "gone"]
      /\ namespaces' = [k \in Kinds |-> put(k, namespaces[k], ns_of[t][k])]
    BY DEF Release
<1>4. NsTypeOK
    BY DEF NsInv
<1>5. Cardinality(Gone') = Cardinality(Gone) + 1 /\ Cardinality(Gone) + 1 < RootRefs
    <2>1. /\ nstate[t] # "gone" /\ Cardinality(Gone) \in Nat
          /\ Cardinality(Gone) + 1 <= Cardinality(NsTasks)
        BY <1>3, GoneBound
    <2>2. Cardinality(Gone') = Cardinality(Gone) + 1
        BY <1>3, <1>4, <2>1, GoneAdds
    <2> QED
        BY <2>1, <2>2
<1>6. ASSUME NEW k \in Kinds PROVE Counted(k, namespaces'[k], Counts(k)', Cardinality(Gone'))
    <2>0. PICK n : n = ns_of[t][k]
        OBVIOUS
    <2>1. /\ n \in NsIds /\ n # 0
          /\ ns_of'[t][k] = 0 /\ \A s \in NsTasks \ {t} : ns_of'[s][k] = ns_of[s][k]
        <3>1. n \in NsIds /\ n # 0 /\ f[k] = 0
            BY <1>1, <1>3, <2>0, TaskMeans
        <3> QED
            BY <1>2, <1>4, <3>1 DEF NsTypeOK
    <2>2. Counts(k)' = [Counts(k) EXCEPT ![n] = @ - 1] /\ Counts(k) \in [NsIds -> Nat] /\ Counts(k)[n] # 0
        BY <2>0, <2>1, MoveTables
    <2>3. PICK N : N = namespaces[k]
        OBVIOUS
    <2>4. namespaces'[k] = put(k, N, n)
        BY <1>3, <2>0, <2>3
    <2>5. PICK c : c = Counts(k)
        OBVIOUS
    <2>6. PICK g : g = Cardinality(Gone)
        OBVIOUS
    <2>7. Counted(k, N, c, g) /\ c \in [NsIds -> Nat] /\ g \in Nat /\ g + 1 < RootRefs /\ c[n] # 0
        BY <1>5, <2>2, <2>3, <2>5, <2>6, KindMeans
    <2>8. Counted(k, put(k, N, n), [c EXCEPT ![n] = @ - 1], g + 1)
        BY <2>1, <2>7, PutCounts
    <2> QED
        BY <1>5, <2>2, <2>4, <2>5, <2>6, <2>8
<1>7. nstate' \in [NsTasks -> {"unborn", "alive", "gone"}] /\ ns_of' \in [NsTasks -> [Kinds -> NsIds \cup {0}]]
    BY <1>2, <1>3, <1>4 DEF NsTypeOK
<1>8. ASSUME NEW s \in NsTasks, NEW k \in Kinds PROVE ns_of'[s][k] # 0 <=> nstate'[s] = "alive"
    <2>1. CASE s = t
        BY <1>1, <1>2, <1>3, <1>4, <2>1 DEF NsTypeOK
    <2>2. CASE s # t
        BY <1>2, <1>3, <1>4, <2>2, TaskMeans DEF NsTypeOK
    <2> QED
        BY <2>1, <2>2
<1> QED
    BY <1>3, <1>6, <1>7, <1>8, KindByKind

\* A count that is put back.
LEMMA UpAndDown ==
    ASSUME NEW c \in [NsIds -> Nat], NEW n \in NsIds
    PROVE  /\ [c EXCEPT ![n] = @ + 1] \in [NsIds -> Nat] /\ [c EXCEPT ![n] = @ + 1][n] # 0
           /\ [[c EXCEPT ![n] = @ + 1] EXCEPT ![n] = @ - 1] = c
           /\ c[n] = 0 => [c EXCEPT ![n] = 1] = [c EXCEPT ![n] = @ + 1]
<1>1. PICK d : d = [c EXCEPT ![n] = @ + 1]
    OBVIOUS
<1>2. d \in [NsIds -> Nat] /\ d[n] = c[n] + 1 /\ \A m \in NsIds \ {n} : d[m] = c[m]
    BY <1>1
<1>3. PICK e : e = [d EXCEPT ![n] = @ - 1]
    OBVIOUS
<1>4. e \in [NsIds -> Nat] /\ e[n] = c[n] /\ \A m \in NsIds \ {n} : e[m] = c[m]
    BY <1>2, <1>3
<1>5. e = c
    <2>1. \A m \in NsIds : e[m] = c[m]
        BY <1>4
    <2>2. e \in [NsIds -> Nat]
        BY <1>4
    <2> QED
        BY ONLY <2>1, <2>2, c \in [NsIds -> Nat]
<1> QED
    BY <1>1, <1>2, <1>3, <1>5

\* What namespace_fork does to the namespaces of one kind.
LEMMA ForkCounts ==
    ASSUME NEW k \in Kinds, NEW c \in [NsIds -> Nat], NEW g \in Nat,
           Counted(k, namespaces[k], c, g), NEW p \in NsTasks, ns_of[p][k] \in NsIds,
           NEW new \in BOOLEAN, new => FreeIds(namespaces[k]) # {},
           new /\ k = "pid" => ns_of[p][k] = Root, c[ns_of[p][k]] # 0
    PROVE  /\ new => /\ NewId(namespaces[k]) \in NsIds
                     /\ Counted(k, Forked(k, p, new), [c EXCEPT ![NewId(namespaces[k])] = @ + 1], g)
           /\ ~new => Counted(k, Forked(k, p, new), [c EXCEPT ![ns_of[p][k]] = @ + 1], g)
<1> USE NsFacts
<1>a. PICK N : N = namespaces[k]
    OBVIOUS
<1>b. PICK n : n = ns_of[p][k]
    OBVIOUS
<1>c. Counted(k, N, c, g) /\ n \in NsIds /\ c[n] # 0 /\ (new => FreeIds(N) # {}) /\ (new /\ k = "pid" => n = Root)
    BY <1>a, <1>b
<1>1. PICK M : M = retain(N, Root)
    OBVIOUS
<1>2. Counted(k, M, c, g) /\ FreeIds(M) = FreeIds(N) /\ NewId(M) = NewId(N)
    BY <1>c, <1>1, RetainRoot DEF NewId
<1>3. Forked(k, p, new) = IF new THEN alloc(M, n) ELSE retain(M, n)
    BY <1>a, <1>b, <1>1 DEF Forked
<1>4. CASE new
    <2>1. PICK m : m = NewId(N)
        OBVIOUS
    <2>2. m \in NsIds \ {Root} /\ c[m] = 0 /\ Counted(k, alloc(M, n), [c EXCEPT ![m] = 1], g)
        BY <1>c, <1>2, <1>4, <2>1, AllocCounts
    <2>3. [c EXCEPT ![m] = 1] = [c EXCEPT ![m] = @ + 1]
        BY <2>2, UpAndDown
    <2> QED
        BY <1>a, <1>3, <1>4, <2>1, <2>2, <2>3
<1>5. CASE ~new
    <2>1. Counted(k, retain(M, n), [c EXCEPT ![n] = @ + 1], g)
        BY <1>c, <1>2, RetainCounts
    <2> QED
        BY <1>b, <1>3, <1>5, <2>1
<1> QED
    BY <1>4, <1>5

\* namespace_clone_child, whether its child lives or is destroyed half-made.
LEMMA CloneKeeps ==
    ASSUME NsInv, ~Nests, NEW p \in NsTasks, NEW t \in NsTasks, NEW flags, NEW f, Clone(p, t, flags, f)
    PROVE  NsInv'
<1> USE NsFacts
<1> DEFINE child(k) == IF k \notin Reached(f) THEN (IF k = f THEN 0 ELSE Root)
                       ELSE IF k \in flags THEN NewId(namespaces[k])
                       ELSE ns_of[p][k]
           forked(k) == IF k \in Reached(f) THEN Forked(k, p, k \in flags)
                        ELSE retain(namespaces[k], Root)
<1>1. /\ nstate[p] = "alive" /\ nstate[t] = "unborn" /\ HasRoom(flags, f)
      /\ "pid" \in flags /\ ns_of[p]["pid"] # Root => FALSE
      /\ \/ /\ f = "none"
            /\ nstate' = [nstate EXCEPT ![t] = "alive"]
            /\ ns_of' = [ns_of EXCEPT ![t] = [k \in Kinds |-> child(k)]]
            /\ namespaces' = [k \in Kinds |-> forked(k)]
         \/ /\ f # "none"
            /\ nstate' = [nstate EXCEPT ![t] = "gone"]
            /\ namespaces' = [k \in Kinds |-> put(k, forked(k), child(k))]
            /\ UNCHANGED ns_of
    BY DEF Clone
<1>2. NsTypeOK /\ Cardinality(Gone) \in Nat
    BY GoneBound DEF NsInv
<1>3. ASSUME NEW k \in Kinds
      PROVE  LET N == namespaces[k]
                 c == Counts(k)
                 g == Cardinality(Gone)
             IN  /\ N \in NsTables /\ Counted(k, N, c, g) /\ c \in [NsIds -> Nat] /\ ns_of[t][k] = 0
                 /\ child(k) = 0 => k \notin Reached(f) /\ k = f /\ Counted(k, forked(k), c, g)
                 /\ child(k) # 0 => child(k) \in NsIds /\ Counted(k, forked(k), [c EXCEPT ![child(k)] = @ + 1], g)
    <2>1. PICK N : N = namespaces[k]
        OBVIOUS
    <2>2. PICK c : c = Counts(k)
        OBVIOUS
    <2>3. PICK g : g = Cardinality(Gone)
        OBVIOUS
    <2>4. PICK n : n = ns_of[p][k]
        OBVIOUS
    <2>5. n \in NsIds /\ n # 0 /\ ns_of[t][k] = 0
        BY <1>1, <2>4, TaskMeans
    <2>6. c \in [NsIds -> Nat] /\ c[n] # 0
        <3>1. IsFiniteSet(Users(k, n)) /\ p \in Users(k, n)
            <4>1. Users(k, n) \in SUBSET NsTasks
                BY DEF Users
            <4> QED
                BY <4>1, <2>4, FS_Subset DEF Users
        <3>2. ASSUME NEW m \in NsIds PROVE Cardinality(Users(k, m)) \in Nat
            <4>1. Users(k, m) \in SUBSET NsTasks
                BY DEF Users
            <4> QED
                BY <4>1, FS_Subset, FS_CardinalityType
        <3>3. Cardinality(Users(k, n)) # 0
            BY <3>1, FS_EmptySet
        <3> QED
            BY <2>2, <2>5, <3>2, <3>3 DEF Counts
    <2>7. N \in NsTables /\ Counted(k, N, c, g) /\ g \in Nat
        BY <2>1, <2>2, <2>3, KindMeans
    <2>8. CASE k \in Reached(f)
        <3>1. PICK new \in BOOLEAN : new <=> k \in flags
            OBVIOUS
        <3>2. new => FreeIds(N) # {}
            BY <1>1, <2>1, <2>8, <3>1 DEF HasRoom
        <3>3. new /\ k = "pid" => n = Root
            BY <1>1, <2>4, <3>1
        <3>4. PICK m : m = IF new THEN NewId(N) ELSE n
            OBVIOUS
        <3>5. m \in NsIds /\ Counted(k, Forked(k, p, new), [c EXCEPT ![m] = @ + 1], g)
            <4>1. new => m \in NsIds /\ Counted(k, Forked(k, p, new), [c EXCEPT ![m] = @ + 1], g)
                BY <2>1, <2>4, <2>5, <2>6, <2>7, <3>2, <3>3, <3>4, ForkCounts
            <4>2. ~new => m \in NsIds /\ Counted(k, Forked(k, p, new), [c EXCEPT ![m] = @ + 1], g)
                BY <2>1, <2>4, <2>5, <2>6, <2>7, <3>2, <3>3, <3>4, ForkCounts
            <4> QED
                BY <4>1, <4>2
        <3>6. child(k) = m
            BY <2>1, <2>4, <2>8, <3>1, <3>4
        <3>7. forked(k) = Forked(k, p, new)
            BY <2>8, <3>1
        <3> HIDE DEF child, forked
        <3> QED
            BY <2>1, <2>2, <2>3, <2>5, <2>6, <2>7, <3>5, <3>6, <3>7
    <2>9. CASE k \notin Reached(f)
        <3>1. forked(k) = retain(N, Root) /\ child(k) = (IF k = f THEN 0 ELSE Root)
            BY <2>1, <2>9
        <3>2. Counted(k, retain(N, Root), c, g)
            BY <2>6, <2>7, RetainRoot
        <3>3. Counted(k, retain(N, Root), [c EXCEPT ![Root] = @ + 1], g)
            BY <2>6, <2>7, RetainCounts
        <3> HIDE DEF child, forked
        <3> QED
            BY <2>1, <2>2, <2>3, <2>5, <2>6, <2>7, <2>9, <3>1, <3>2, <3>3
    <2> QED
        BY <2>8, <2>9
<1>4. nstate[t] # "gone" /\ Cardinality(Gone) + 1 < RootRefs
    BY <1>1, <1>2, GoneBound
<1> HIDE DEF child, forked
<1>5. CASE f = "none"
    <2>1. /\ nstate' = [nstate EXCEPT ![t] = "alive"]
          /\ ns_of' = [ns_of EXCEPT ![t] = [k \in Kinds |-> child(k)]]
          /\ namespaces' = [k \in Kinds |-> forked(k)]
        BY <1>1, <1>5
    <2>2. PICK h : h = [k \in Kinds |-> child(k)]
        OBVIOUS
    <2>3. ASSUME NEW k \in Kinds PROVE h[k] \in NsIds /\ h[k] # 0 /\ h[k] = child(k)
        <3>1. child(k) # 0
            BY <1>3, <1>5 DEF Reached
        <3> QED
            BY <2>2, <3>1, <1>3
    <2>4. ns_of' = [ns_of EXCEPT ![t] = h] /\ h \in [Kinds -> NsIds \cup {0}]
        <3>1. h = [k \in Kinds |-> h[k]]
            BY <2>2
        <3> QED
            BY <2>1, <2>2, <2>3, <3>1
    <2>5. Gone' = Gone
        BY <1>2, <1>4, <2>1, GoneStays
    <2>6. ASSUME NEW k \in Kinds PROVE Counted(k, namespaces'[k], Counts(k)', Cardinality(Gone'))
        <3>1. PICK b : b = child(k)
            OBVIOUS
        <3>2. b \in NsIds /\ b # 0 /\ ns_of[t][k] = 0 /\ ns_of'[t][k] = b
              /\ \A s \in NsTasks \ {t} : ns_of'[s][k] = ns_of[s][k]
            BY <1>2, <1>3, <2>3, <2>4, <3>1 DEF NsTypeOK
        <3>3. Counts(k)' = [Counts(k) EXCEPT ![b] = @ + 1]
            BY <3>2, MoveTables
        <3>4. Counted(k, forked(k), [Counts(k) EXCEPT ![b] = @ + 1], Cardinality(Gone))
            BY <1>3, <3>1, <3>2
        <3> QED
            BY <2>1, <2>5, <3>3, <3>4
    <2>7. nstate' \in [NsTasks -> {"unborn", "alive", "gone"}] /\ ns_of' \in [NsTasks -> [Kinds -> NsIds \cup {0}]]
        BY <1>2, <2>1, <2>4 DEF NsTypeOK
    <2>8. ASSUME NEW s \in NsTasks, NEW k \in Kinds PROVE ns_of'[s][k] # 0 <=> nstate'[s] = "alive"
        <3>1. CASE s = t
            BY <1>2, <2>1, <2>3, <2>4, <3>1 DEF NsTypeOK
        <3>2. CASE s # t
            BY <1>2, <2>1, <2>4, <3>2, TaskMeans DEF NsTypeOK
        <3> QED
            BY <3>1, <3>2
    <2> QED
        BY <2>1, <2>6, <2>7, <2>8, KindByKind
<1>6. CASE f # "none"
    <2>1. /\ nstate' = [nstate EXCEPT ![t] = "gone"]
          /\ namespaces' = [k \in Kinds |-> put(k, forked(k), child(k))]
          /\ ns_of' = ns_of
        BY <1>1, <1>6
    <2>2. Cardinality(Gone') = Cardinality(Gone) + 1
        BY <1>2, <1>4, <2>1, GoneAdds
    <2>3. ASSUME NEW k \in Kinds PROVE Counted(k, namespaces'[k], Counts(k)', Cardinality(Gone'))
        <3>1. PICK b : b = child(k)
            OBVIOUS
        <3>2. PICK F : F = forked(k)
            OBVIOUS
        <3>3. PICK c : c = Counts(k)
            OBVIOUS
        <3>4. PICK g : g = Cardinality(Gone)
            OBVIOUS
        <3>5. /\ c \in [NsIds -> Nat] /\ g \in Nat /\ g + 1 < RootRefs
              /\ b = 0 => Counted(k, F, c, g)
              /\ b # 0 => b \in NsIds /\ Counted(k, F, [c EXCEPT ![b] = @ + 1], g)
            BY <1>2, <1>3, <1>4, <3>1, <3>2, <3>3, <3>4
        <3>6. Counts(k)' = c
            <4>1. \A n \in NsIds : Users(k, n)' = Users(k, n)
                BY <2>1 DEF Users
            <4> QED
                BY <3>3, <4>1 DEF Counts
        <3>7. namespaces'[k] = put(k, F, b)
            BY <2>1, <3>1, <3>2
        <3>8. CASE b = 0
            <4>1. put(k, F, b) = F
                BY <3>8 DEF put
            <4>2. Counted(k, F, c, g + 1)
                BY <3>5, <3>8, GoneGrows
            <4> QED
                BY <2>2, <3>4, <3>6, <3>7, <4>1, <4>2
        <3>9. CASE b # 0
            <4>1. PICK d : d = [c EXCEPT ![b] = @ + 1]
                OBVIOUS
            <4>2. d \in [NsIds -> Nat] /\ d[b] # 0 /\ [d EXCEPT ![b] = @ - 1] = c /\ Counted(k, F, d, g)
                BY <3>5, <3>9, <4>1, UpAndDown
            <4>3. Counted(k, put(k, F, b), [d EXCEPT ![b] = @ - 1], g + 1)
                BY <3>5, <3>9, <4>2, PutCounts
            <4> QED
                BY <2>2, <3>4, <3>6, <3>7, <4>2, <4>3
        <3> QED
            BY <3>8, <3>9
    <2>4. nstate' \in [NsTasks -> {"unborn", "alive", "gone"}] /\ ns_of' \in [NsTasks -> [Kinds -> NsIds \cup {0}]]
        BY <1>2, <2>1 DEF NsTypeOK
    <2>5. ASSUME NEW s \in NsTasks, NEW k \in Kinds PROVE ns_of'[s][k] # 0 <=> nstate'[s] = "alive"
        <3>1. CASE s = t
            BY <1>1, <1>2, <2>1, <3>1, TaskMeans DEF NsTypeOK
        <3>2. CASE s # t
            BY <1>2, <2>1, <3>2, TaskMeans DEF NsTypeOK
        <3> QED
            BY <3>1, <3>2
    <2> QED
        BY <2>1, <2>3, <2>4, <2>5, KindByKind
<1> QED
    BY <1>5, <1>6

\* namespace_unshare, as far as it came.
LEMMA UnshareKeeps ==
    ASSUME NsInv, ~Nests, NEW t \in NsTasks, NEW flags, NEW f, namespace_unshare(t, flags, f)
    PROVE  NsInv'
<1> USE NsFacts
<1>1. PICK moved : moved = flags \cap Reached(f)
    OBVIOUS
<1>2. PICK h : h = [k \in Kinds |-> IF k \in moved THEN NewId(namespaces[k]) ELSE ns_of[t][k]]
    OBVIOUS
<1>3. NsTypeOK /\ Cardinality(Gone) \in Nat
    BY GoneBound DEF NsInv
<1>4. /\ nstate[t] = "alive" /\ HasRoom(flags, f)
      /\ "pid" \in moved /\ ns_of[t]["pid"] # Root => FALSE
      /\ namespaces' = [k \in Kinds |->
          IF k \in moved THEN put(k, alloc(namespaces[k], ns_of[t][k]), ns_of[t][k])
          ELSE namespaces[k]]
      /\ nstate' = nstate
    BY <1>1 DEF namespace_unshare
<1>5. ns_of' = [ns_of EXCEPT ![t] = h]
    <2>1. ns_of' = [ns_of EXCEPT ![t] = [k \in Kinds |->
              IF k \in moved THEN NewId(namespaces[k]) ELSE ns_of[t][k]]]
        BY <1>1, <1>3 DEF namespace_unshare, NsTypeOK
    <2> QED
        BY <1>2, <2>1
<1>6. Gone' = Gone /\ Cardinality(Gone) + 1 < RootRefs
    BY <1>3, <1>4, GoneBound DEF Gone
<1>7. ASSUME NEW k \in Kinds
      PROVE  /\ h[k] \in NsIds /\ h[k] # 0
             /\ ns_of'[t][k] = h[k] => Counted(k, namespaces'[k], Counts(k)', Cardinality(Gone'))
    <2>1. PICK N : N = namespaces[k]
        OBVIOUS
    <2>2. PICK c : c = Counts(k)
        OBVIOUS
    <2>3. PICK g : g = Cardinality(Gone)
        OBVIOUS
    <2>4. PICK n : n = ns_of[t][k]
        OBVIOUS
    <2>5. PICK b : b = h[k]
        OBVIOUS
    <2>6. n \in NsIds /\ n # 0
        BY <1>4, <2>4, TaskMeans
    <2>7. N \in NsTables /\ Counted(k, N, c, g) /\ g \in Nat /\ g + 1 < RootRefs
        BY <1>6, <2>1, <2>2, <2>3, KindMeans
    <2>8. \A s \in NsTasks \ {t} : ns_of'[s][k] = ns_of[s][k]
        BY <1>3, <1>5 DEF NsTypeOK
    <2>9. b \in NsIds /\ ns_of'[t][k] = b =>
              /\ c \in [NsIds -> Nat] /\ c[n] # 0
              /\ b = n => Counts(k)' = c
              /\ b # n /\ c[b] = 0 => Counts(k)' = [[c EXCEPT ![b] = 1] EXCEPT ![n] = @ - 1]
        BY <2>2, <2>4, <2>6, <2>8, MoveTables
    <2>10. c \in [NsIds -> Nat]
        <3>1. ASSUME NEW m \in NsIds PROVE Cardinality(Users(k, m)) \in Nat
            <4>1. Users(k, m) \in SUBSET NsTasks
                BY DEF Users
            <4> QED
                BY <4>1, FS_Subset, FS_CardinalityType
        <3> QED
            BY <2>2, <3>1 DEF Counts
    <2>11. CASE k \notin moved
        <3>1. b = n /\ namespaces'[k] = N
            BY <1>2, <1>4, <2>1, <2>4, <2>5, <2>11
        <3> QED
            BY <3>1, <1>6, <2>3, <2>5, <2>6, <2>7, <2>9
    <2>12. CASE k \in moved
        <3>1. b = NewId(N) /\ namespaces'[k] = put(k, alloc(N, n), n)
            BY <1>2, <1>4, <2>1, <2>4, <2>5, <2>12
        <3>2. FreeIds(N) # {}
            BY <1>1, <1>4, <2>1, <2>12 DEF HasRoom
        <3>3. k = "pid" => n = Root
            BY <1>4, <2>4, <2>12
        <3>4. b \in NsIds \ {Root} /\ c[b] = 0 /\ Counted(k, alloc(N, n), [c EXCEPT ![b] = 1], g)
            BY <2>6, <2>7, <2>10, <3>1, <3>2, <3>3, AllocCounts
        <3>5. SUFFICES ASSUME ns_of'[t][k] = b
              PROVE  Counted(k, namespaces'[k], Counts(k)', Cardinality(Gone'))
            BY <2>5, <3>4
        <3>6. c[n] # 0 /\ b # n
            BY <2>9, <3>4, <3>5
        <3>7. PICK d : d = [c EXCEPT ![b] = 1]
            OBVIOUS
        <3>8. d \in [NsIds -> Nat] /\ d[n] # 0
            BY <2>6, <2>10, <3>4, <3>6, <3>7
        <3>9. Counted(k, alloc(N, n), d, g)
            BY <3>4, <3>7
        <3>10. n = Root \/ k # "pid" => Counted(k, put(k, alloc(N, n), n), [d EXCEPT ![n] = @ - 1], g)
            BY <2>6, <2>7, <3>8, <3>9, PutCounts
        <3>11. Counts(k)' = [d EXCEPT ![n] = @ - 1]
            BY <2>9, <3>4, <3>5, <3>6, <3>7
        <3> QED
            BY <1>6, <2>3, <3>1, <3>3, <3>10, <3>11
    <2> QED
        BY <2>11, <2>12
<1>8. h \in [Kinds -> NsIds \cup {0}]
    <2>1. h = [k \in Kinds |-> h[k]]
        BY <1>2
    <2> QED
        BY <1>7, <2>1
<1>9. ASSUME NEW k \in Kinds PROVE Counted(k, namespaces'[k], Counts(k)', Cardinality(Gone'))
    <2>1. ns_of'[t][k] = h[k]
        BY <1>3, <1>5, <1>8 DEF NsTypeOK
    <2> QED
        BY <1>7, <2>1
<1>10. nstate' \in [NsTasks -> {"unborn", "alive", "gone"}] /\ ns_of' \in [NsTasks -> [Kinds -> NsIds \cup {0}]]
    BY <1>3, <1>4, <1>5, <1>8 DEF NsTypeOK
<1>11. ASSUME NEW s \in NsTasks, NEW k \in Kinds PROVE ns_of'[s][k] # 0 <=> nstate'[s] = "alive"
    <2>1. CASE s = t
        BY <1>3, <1>4, <1>5, <1>7, <2>1 DEF NsTypeOK
    <2>2. CASE s # t
        BY <1>3, <1>4, <1>5, <2>2, TaskMeans DEF NsTypeOK
    <2> QED
        BY <2>1, <2>2
<1> QED
    BY <1>4, <1>9, <1>10, <1>11, KindByKind

\* The first task alone is in the roots.
LEMMA NsInitHolds == NsInit => NsInv
<1> USE NsFacts
<1>1. SUFFICES ASSUME NsInit PROVE NsInv
    OBVIOUS
<1>2. NsTypeOK
    BY <1>1 DEF NsInit, NsTypeOK, NsTables, NoNamespace, Kinds
<1>3. ASSUME NEW t \in NsTasks, NEW k \in Kinds PROVE ns_of[t][k] # 0 <=> nstate[t] = "alive"
    BY <1>1 DEF NsInit
<1>4. ASSUME NEW k \in Kinds PROVE Counted(k, namespaces[k], Counts(k), Cardinality(Gone))
    <2>1. PICK N : N = namespaces[k]
        OBVIOUS
    <2>2. N = [n \in NsIds |-> IF n = Root THEN [live |-> TRUE, refcount |-> RootRefs + 1, parent |-> 0]
                               ELSE NoNamespace]
        BY <1>1, <2>1 DEF NsInit
    <2>3. N \in NsTables
        BY <1>2, <2>1 DEF NsTypeOK
    <2>4. Users(k, Root) = {FirstTask} /\ \A n \in NsIds \ {Root} : Users(k, n) = {}
        BY <1>1 DEF NsInit, Users
    <2>5. Counts(k)[Root] = 1 /\ \A n \in NsIds \ {Root} : Counts(k)[n] = 0
        BY <2>4, FS_Singleton, FS_EmptySet DEF Counts
    <2>6. Gone = {}
        BY <1>1 DEF NsInit, Gone
    <2>7. Cardinality(Gone) = 0
        BY <2>6, FS_EmptySet
    <2>8. N[Root].live /\ N[Root].parent = 0 /\ N[Root].refcount = RootRefs + 1
        BY <2>2
    <2>9. \A n \in NsIds \ {Root} : N[n] = NoNamespace
        BY <2>2
    <2>10. N[Root].refcount + Cardinality(Gone) >= RootRefs + Counts(k)[Root]
        BY <2>5, <2>7, <2>8
    <2> QED
        BY <2>1, <2>3, <2>5, <2>8, <2>9, <2>10 DEF Counted, NoNamespace
<1> QED
    BY <1>2, <1>3, <1>4 DEF NsInv

\* Every step keeps the invariant.
LEMMA NsNextKeeps == ~Nests /\ NsInv /\ [NsNext]_ns_vars => NsInv'
<1>1. ASSUME ~Nests, NsInv, NsNext PROVE NsInv'
    <2>1. PICK t \in NsTasks :
              \/ \E c \in NsTasks, flags \in FlagSets, f \in Kinds \cup {"none"} : Clone(c, t, flags, f)
              \/ Create(t)
              \/ \E flags \in FlagSets, f \in Kinds \cup {"none"} : namespace_unshare(t, flags, f)
              \/ Release(t)
        BY <1>1 DEF NsNext
    <2>2. CASE \E c \in NsTasks, flags \in FlagSets, f \in Kinds \cup {"none"} : Clone(c, t, flags, f)
        BY <1>1, <2>2, CloneKeeps
    <2>3. CASE Create(t)
        BY <1>1, <2>3, CreateKeeps
    <2>4. CASE \E flags \in FlagSets, f \in Kinds \cup {"none"} : namespace_unshare(t, flags, f)
        BY <1>1, <2>4, UnshareKeeps
    <2>5. CASE Release(t)
        BY <1>1, <2>5, ReleaseKeeps
    <2> QED
        BY <2>1, <2>2, <2>3, <2>4, <2>5
<1>2. ASSUME NsInv, UNCHANGED ns_vars PROVE NsInv'
    <2>1. nstate' = nstate /\ ns_of' = ns_of /\ namespaces' = namespaces
        BY <1>2 DEF ns_vars
    <2>2. Gone' = Gone /\ \A k \in Kinds : Counts(k)' = Counts(k)
        BY <2>1 DEF Gone, Counts, Users
    <2> QED
        BY <1>2, <2>1, <2>2 DEF NsInv, NsTypeOK
<1> QED
    BY <1>1, <1>2

\* The root's count exceeds its users because fewer tasks are gone than it was given.
LEMMA InvGives == NsInv => NamespacesHeld
<1> USE NsFacts
<1>1. SUFFICES ASSUME NsInv, NEW k \in Kinds, NEW n \in NsIds
      PROVE  LET N == namespaces[k][n] IN
             IF n = Root THEN N.live /\ N.refcount >= Cardinality(Users(k, n))
             ELSE /\ N.live <=> Users(k, n) # {}
                  /\ N.refcount = Cardinality(Users(k, n))
    BY DEF NamespacesHeld
<1>2. IsFiniteSet(Users(k, n)) /\ Cardinality(Users(k, n)) \in Nat
    <2>1. Users(k, n) \in SUBSET NsTasks
        BY DEF Users
    <2> QED
        BY <2>1, FS_Subset, FS_CardinalityType
<1>3. Counts(k)[n] = Cardinality(Users(k, n))
    BY DEF Counts
<1>4. /\ Counted(k, namespaces[k], Counts(k), Cardinality(Gone)) /\ Cardinality(Gone) \in Nat
      /\ Cardinality(Gone) < RootRefs /\ namespaces[k] \in NsTables
    BY <1>1, KindMeans, GoneBound
<1>5. CASE n = Root
    <2>1. /\ namespaces[k][Root].live
          /\ namespaces[k][Root].refcount + Cardinality(Gone) >= RootRefs + Counts(k)[Root]
        BY <1>4 DEF Counted
    <2>2. namespaces[k][Root].refcount \in Nat
        BY <1>4, RecordFacts
    <2> QED
        BY <1>2, <1>3, <1>4, <1>5, <2>1, <2>2
<1>6. CASE n # Root
    <2>1. namespaces[k][n].refcount = Counts(k)[n] /\ (namespaces[k][n].live <=> Counts(k)[n] # 0)
        BY <1>4, <1>6 DEF Counted
    <2>2. Cardinality(Users(k, n)) # 0 <=> Users(k, n) # {}
        BY <1>2, FS_EmptySet
    <2> QED
        BY <1>3, <1>6, <2>1, <2>2
<1> QED
    BY <1>5, <1>6

\* NamespacesHeld, the reference counts of namespace.c, for every value of the
\* constants, unless a task outside the root makes a process-number namespace:
\* put_pidns then puts a parent that took no reference.
THEOREM NamespacesLast == ~Nests => (NsSpec => []NamespacesHeld)
<1>1. SUFFICES ASSUME ~Nests PROVE NsSpec => []NamespacesHeld
    OBVIOUS
<1>2. NsInv /\ [NsNext]_ns_vars => NsInv'
    BY <1>1, NsNextKeeps
<1> QED
    BY <1>2, NsInitHolds, InvGives, PTL DEF NsSpec

-----------------------------------------------------------------------------
(* Signals *)

\* What the code keeps of a task besides the property: its address is in the program,
\* no other has its slot, and one that is gone is in no handler.
Placed ==
    /\ \A t \in SigTasks : rip[t] \in DOMAIN Insns \cup {0}
    /\ \A t, u \in SigTasks : Alive(t) /\ Alive(u) /\ Slot(t) = Slot(u) => t = u
    /\ \A t \in SigTasks : ~Alive(t) => caught[t] = 0

\* Without the hypothesis a handler that signals its own task returns to address 0.
SignalInv ==
    /\ SignalTypeOK
    /\ Placed
    /\ SignalsAreOwn
    /\ ~FaultsNest => ReturnsWhereInterrupted

SigState == [valid : BOOLEAN, actions : [Signals -> Handlers], pending : SUBSET Signals,
             resume : Nat, fault_rip : Nat, fault_insn_len : Nat]

-----------------------------------------------------------------------------
(* The operators *)

LEMMA SlotType == ASSUME NEW t \in SigTasks PROVE Slot(t) \in Slots
BY SignalAssumption, SMT DEF Slot, Slots

\* A program begins at one of its instructions.
LEMMA StartType == Start \in DOMAIN Insns
<1>1. PICK a \in DOMAIN Insns : \A b \in DOMAIN Insns : a <= b
    BY SignalAssumption
<1> QED
    BY <1>1 DEF Start, Min

\* The kernel's length of a division is the processor's (decode_div_insn_len).
LEMMA DivisionLength ==
    ASSUME NEW a \in DOMAIN Insns
    PROVE  /\ TrueLen(Insns[a]) \in Nat \ {0}
           /\ decode_div_insn_len(Insns[a]) \in Nat
           /\ Insns[a].op = "div" => decode_div_insn_len(Insns[a]) = TrueLen(Insns[a])
<1> DEFINE i == Insns[a]
<1>1. i.prefixes \in Nat /\ i.mod \in 0..3 /\ i.rm \in 0..7 /\ i.base \in 0..7
    BY SignalAssumption
<1> QED
    BY <1>1 DEF TrueLen, decode_div_insn_len

LEMMA FaultLength ==
    ASSUME NEW a \in DOMAIN Insns, NEW s
    PROVE  compute_fault_insn_len(s, a) \in Nat
BY DivisionLength DEF compute_fault_insn_len

LEMMA FixupType ==
    ASSUME NEW s \in SigState
    PROVE  /\ signal_fixup_resume(s) \in SigState
           /\ signal_fixup_resume(s).valid = s.valid
           /\ signal_fixup_resume(s).pending = s.pending
           /\ signal_fixup_resume(s).actions = s.actions
<1>1. CASE signal_fixup_resume(s) = s
    BY <1>1
<1>2. CASE signal_fixup_resume(s) # s
    <2> DEFINE r == [s EXCEPT !.resume = @ + s.fault_insn_len, !.fault_rip = 0,
                              !.fault_insn_len = 0]
    <2>1. signal_fixup_resume(s) = r
        BY <1>2 DEF signal_fixup_resume
    <2>2. s.resume + s.fault_insn_len \in Nat
        BY DEF SigState
    <2>3. r \in SigState /\ r.valid = s.valid /\ r.pending = s.pending /\ r.actions = s.actions
        BY <2>2 DEF SigState
    <2> QED
        BY <2>1, <2>3
<1> QED
    BY <1>1, <1>2

LEMMA ModelTypes ==
    /\ DOMAIN Insns \subseteq Nat \ {0} /\ 0 \notin Signals
    /\ SIGFPE \in Signals /\ SIGSEGV \in Signals /\ SIGFPE # SIGSEGV
BY SignalAssumption DEF SIGFPE, SIGSEGV

LEMMA TypesMean ==
    SignalTypeOK <=>
        /\ g_sig \in [Slots -> SigState]
        /\ rip \in [SigTasks -> Nat] /\ due \in [SigTasks -> Nat]
        /\ caught \in [SigTasks -> {0} \cup Signals]
        /\ sentto \in [SigTasks -> SUBSET Signals] /\ setby \in [SigTasks -> SUBSET Signals]
BY DEF SignalTypeOK, SigState

LEMMA TypesAfter ==
    ASSUME g_sig' \in [Slots -> SigState],
           rip' \in [SigTasks -> Nat], due' \in [SigTasks -> Nat],
           caught' \in [SigTasks -> {0} \cup Signals],
           sentto' \in [SigTasks -> SUBSET Signals], setby' \in [SigTasks -> SUBSET Signals]
    PROVE  SignalTypeOK'
BY DEF SignalTypeOK, SigState

-----------------------------------------------------------------------------
(* One task moves, the others keep what they have *)

\* What holds of one task, before and after a step.
Sound(t) ==
    Alive(t) =>
        /\ g_sig[Slot(t)].valid
        /\ g_sig[Slot(t)].pending \subseteq sentto[t]
        /\ \A s \in Signals : g_sig[Slot(t)].actions[s] # "default" => s \in setby[t]
        /\ ~FaultsNest /\ caught[t] # 0 => signal_fixup_resume(g_sig[Slot(t)]).resume = due[t]

LEMMA InvMeans ==
    SignalInv <=> SignalTypeOK /\ Placed /\ \A t \in SigTasks : Sound(t)
BY DEF SignalInv, SignalsAreOwn, ReturnsWhereInterrupted, Sound

\* A step of t that leaves the rows of the others, and the slots other than t's, alone.
Only(t) ==
    \A u \in SigTasks \ {t} :
        /\ rip'[u] = rip[u] /\ caught'[u] = caught[u] /\ due'[u] = due[u]
        /\ sentto'[u] = sentto[u] /\ setby'[u] = setby[u]
        /\ Slot(u) # Slot(t) => g_sig'[Slot(u)] = g_sig[Slot(u)]

LEMMA OthersKeep ==
    ASSUME SignalInv, NEW t \in SigTasks, Only(t),
           Alive(t) \/ \A u \in SigTasks : Alive(u) => Slot(u) # Slot(t),
           SignalTypeOK', rip'[t] \in DOMAIN Insns \cup {0}, rip'[t] = 0 => caught'[t] = 0,
           Sound(t)'
    PROVE  SignalInv'
<1>1. Placed'
    BY InvMeans DEF Placed, Only, Alive, Slot
<1>2. ASSUME NEW u \in SigTasks PROVE Sound(u)'
    <2>1. CASE u = t
        BY <2>1
    <2>2. CASE u # t
        <3>1. CASE Alive(u)
            <4>1. Slot(u) # Slot(t)
                BY <2>2, <3>1, InvMeans DEF Placed
            <4> QED
                BY <2>2, <3>1, <4>1, InvMeans DEF Only, Sound, Alive, Slot
        <3>2. CASE ~Alive(u)
            BY <2>2, <3>2 DEF Only, Sound, Alive
        <3> QED
            BY <3>1, <3>2
    <2> QED
        BY <2>1, <2>2
<1>3. SignalTypeOK' /\ Placed' /\ (\A u \in SigTasks : Sound(u)')
    BY <1>1, <1>2
<1> QED
    BY <1>3 DEF SignalInv, SignalsAreOwn, ReturnsWhereInterrupted, Sound

-----------------------------------------------------------------------------
(* The steps *)

LEMMA SignalInitKeeps == SignalInit => SignalInv
<1> SUFFICES ASSUME SignalInit PROVE SignalInv
    OBVIOUS
<1>1. NoState \in SigState
    BY DEF NoState, SigState, Handlers
<1>2. SignalTypeOK
    BY <1>1, TypesMean DEF SignalInit
<1> QED
    BY <1>2, InvMeans DEF SignalInit, Placed, Sound, Alive

\* A slot that is freed while its task goes away, whatever else changes in it.
LEMMA EndsKeep ==
    ASSUME SignalInv, NEW t \in SigTasks, Alive(t), NEW G \in [Slots -> SigState],
           \A k \in Slots \ {Slot(t)} : G[k] = g_sig[k], TaskEnds(G, t)
    PROVE  SignalInv'
<1> USE InvMeans, TypesMean
<1>1. Slot(t) \in Slots
    BY SlotType
<1>2. SignalTypeOK'
    <2>1. [G[Slot(t)] EXCEPT !.valid = FALSE] \in SigState
        BY <1>1 DEF SigState
    <2>2. g_sig' \in [Slots -> SigState]
        BY <2>1 DEF TaskEnds, signal_free_task
    <2> QED
        BY <2>2, TypesAfter DEF TaskEnds
<1>3. Only(t)
    BY <1>1, SlotType DEF Only, TaskEnds, signal_free_task
<1>4. rip'[t] = 0 /\ caught'[t] = 0
    BY DEF TaskEnds
<1>5. Sound(t)'
    BY <1>4 DEF Sound, Alive
<1> QED
    BY <1>2, <1>3, <1>4, <1>5, OthersKeep

\* The slot of t becomes s, and the rest of the table stays.
LEMMA SlotChanges ==
    ASSUME g_sig \in [Slots -> SigState], NEW t \in SigTasks, NEW s \in SigState,
           g_sig' = [g_sig EXCEPT ![Slot(t)] = s]
    PROVE  /\ g_sig' \in [Slots -> SigState] /\ g_sig'[Slot(t)] = s
           /\ \A u \in SigTasks : Slot(u) # Slot(t) => g_sig'[Slot(u)] = g_sig[Slot(u)]
BY SlotType

LEMMA StartKeeps ==
    ASSUME SignalInv, NEW t \in SigTasks, SigStart(t) PROVE SignalInv'
<1> USE InvMeans, TypesMean
<1> DEFINE s == [NoState EXCEPT !.valid = TRUE, !.resume = g_sig[Slot(t)].resume]
<1>1. s \in SigState /\ s.valid /\ s.pending = {} /\ (\A x \in Signals : s.actions[x] = "default")
    BY SlotType DEF NoState, SigState, Handlers
<1>2. /\ g_sig' \in [Slots -> SigState] /\ g_sig'[Slot(t)] = s
      /\ \A u \in SigTasks : Slot(u) # Slot(t) => g_sig'[Slot(u)] = g_sig[Slot(u)]
    BY <1>1, SlotChanges DEF SigStart, signal_init_task
<1>3. rip' = [rip EXCEPT ![t] = Start] /\ Start \in DOMAIN Insns /\ Start \in Nat
    BY StartType, ModelTypes DEF SigStart
<1>4. SignalTypeOK'
    BY <1>2, <1>3, TypesAfter DEF SigStart
<1>5. Only(t)
    BY <1>2, <1>3 DEF Only, SigStart
<1>6. rip'[t] \in DOMAIN Insns /\ rip'[t] # 0
    BY <1>3, ModelTypes
<1>7. caught'[t] = 0
    BY DEF SigStart, Placed
<1>8. Sound(t)'
    BY <1>1, <1>2, <1>7 DEF Sound, SigStart, Slot
<1> QED
    BY <1>4, <1>5, <1>6, <1>8, OthersKeep DEF SigStart

LEMMA RunKeeps ==
    ASSUME SignalInv, NEW t \in SigTasks, NEW a \in DOMAIN Insns, Run(t, a) PROVE SignalInv'
<1> USE InvMeans, TypesMean
<1>1. a \in Nat /\ a # 0
    BY ModelTypes
<1>2. SignalTypeOK'
    BY <1>1, TypesAfter DEF Run
<1>3. Only(t)
    BY DEF Only, Run
<1>4. rip'[t] = a /\ caught'[t] = 0
    BY DEF Run
<1>5. Sound(t)'
    BY <1>4 DEF Sound, Run, Alive, Slot
<1> QED
    BY <1>1, <1>2, <1>3, <1>4, <1>5, OthersKeep DEF Run

\* A handler that is entered: what fixes the return is in the slot, with the fault.
LEMMA FaultKeeps ==
    ASSUME SignalInv, NEW t \in SigTasks, Alive(t), NEW sig \in Signals,
           sig = SIGFPE => Insns[rip[t]].op = "div",
           signal_from_exception(t, sig)
    PROVE  SignalInv'
<1> USE InvMeans, TypesMean
<1> DEFINE k == Slot(t)
           a == rip[t]
           len == compute_fault_insn_len(sig, a)
           G == [g_sig EXCEPT ![k].fault_rip = a, ![k].fault_insn_len = len]
           s == [g_sig[k] EXCEPT !.fault_rip = a, !.fault_insn_len = len, !.resume = a]
<1>1. k \in Slots /\ a \in DOMAIN Insns /\ a \in Nat /\ a # 0 /\ len \in Nat
    BY SlotType, FaultLength, ModelTypes DEF Placed, Alive
<1>2. G = [g_sig EXCEPT ![k] = [g_sig[k] EXCEPT !.fault_rip = a, !.fault_insn_len = len]]
    BY <1>1 DEF SigState
<1>3. [g_sig[k] EXCEPT !.fault_rip = a, !.fault_insn_len = len] \in SigState
    BY <1>1 DEF SigState
<1>4. G \in [Slots -> SigState] /\ \A j \in Slots \ {k} : G[j] = g_sig[j]
    BY <1>1, <1>2, <1>3
<1>5. CASE TaskEnds(G, t)
    BY <1>4, <1>5, EndsKeep
<1>6. CASE ~TaskEnds(G, t)
    <2>1. /\ g_sig[k].valid
          /\ g_sig' = setup_user_handler(G, t, a)
          /\ caught' = [caught EXCEPT ![t] = sig]
          /\ due' = [due EXCEPT ![t] = IF sig = SIGFPE THEN a + TrueLen(Insns[a]) ELSE a]
          /\ UNCHANGED <<rip, sentto, setby>>
        BY <1>6 DEF signal_from_exception
    <2>2. s \in SigState /\ s.valid /\ s.pending = g_sig[k].pending
          /\ s.actions = g_sig[k].actions /\ s.fault_rip = a /\ s.fault_insn_len = len
          /\ s.resume = a
        BY <1>1, <2>1 DEF SigState
    <2>3. g_sig' = [g_sig EXCEPT ![k] = s]
        BY <1>1, <1>2, <1>3, <2>1 DEF setup_user_handler, SigState
    <2>4. /\ g_sig' \in [Slots -> SigState] /\ g_sig'[k] = s
          /\ \A u \in SigTasks : Slot(u) # Slot(t) => g_sig'[Slot(u)] = g_sig[Slot(u)]
        BY <2>2, <2>3, SlotChanges
    <2>5. due' = [due EXCEPT ![t] = IF len = 0 THEN a ELSE a + len]
        <3>1. CASE sig = SIGFPE
            BY <1>1, <2>1, <3>1, DivisionLength DEF compute_fault_insn_len
        <3>2. CASE sig # SIGFPE
            BY <2>1, <3>2 DEF compute_fault_insn_len
        <3> QED
            BY <3>1, <3>2
    <2>6. signal_fixup_resume(s).resume = due'[t]
        BY <1>1, <2>2, <2>5 DEF signal_fixup_resume, SigState
    <2> HIDE DEF s, G, len
    <2>7. SignalTypeOK'
        BY <1>1, <2>1, <2>4, <2>5, TypesAfter
    <2>8. Only(t)
        BY <2>1, <2>4 DEF Only
    <2>9. Sound(t)'
        <3>1. g_sig'[Slot(t)] = s /\ sentto'[t] = sentto[t] /\ setby'[t] = setby[t]
            BY <2>1, <2>4
        <3>2. Sound(t) /\ s.valid
            BY <2>2
        <3> QED
            BY <2>2, <2>6, <3>1, <3>2 DEF Sound, Slot
    <2> QED
        BY <1>1, <2>1, <2>7, <2>8, <2>9, OthersKeep
<1> QED
    BY <1>5, <1>6

LEMMA ExceptionKeeps ==
    ASSUME SignalInv, NEW t \in SigTasks, page_fault_handler(t) \/ exception_handler(t)
    PROVE  SignalInv'
<1>1. PICK sig \in Signals : /\ Alive(t) /\ Faults(t, sig)
                             /\ sig = SIGFPE => Insns[rip[t]].op = "div"
    BY ModelTypes DEF page_fault_handler, exception_handler, MayFault
<1>2. CASE t \in Compat
    BY <1>1, <1>2, EndsKeep, InvMeans, TypesMean DEF Faults
<1>3. CASE t \notin Compat
    BY <1>1, <1>3, FaultKeeps DEF Faults
<1> QED
    BY <1>2, <1>3

LEMMA ReturnKeeps ==
    ASSUME SignalInv, NEW t \in SigTasks, HandlerReturns(t) PROVE SignalInv'
<1> USE InvMeans, TypesMean
<1> DEFINE s == signal_fixup_resume(g_sig[Slot(t)])
<1>1. /\ Slot(t) \in Slots /\ s \in SigState /\ s.valid = g_sig[Slot(t)].valid
      /\ s.pending = g_sig[Slot(t)].pending /\ s.actions = g_sig[Slot(t)].actions
    BY SlotType, FixupType
<1>2. CASE ~s.valid
    BY <1>2, EndsKeep DEF HandlerReturns
<1>3. CASE s.valid
    <2> DEFINE r == IF s.resume \in DOMAIN Insns THEN s.resume ELSE Start
    <2>1. /\ g_sig' = [g_sig EXCEPT ![Slot(t)] = s]
          /\ rip' = [rip EXCEPT ![t] = r]
          /\ caught' = [caught EXCEPT ![t] = 0] /\ due' = [due EXCEPT ![t] = 0]
          /\ UNCHANGED <<sentto, setby>>
        BY <1>3 DEF HandlerReturns
    <2>2. r \in DOMAIN Insns /\ r \in Nat /\ r # 0
        BY StartType, ModelTypes
    <2>3. /\ g_sig' \in [Slots -> SigState] /\ g_sig'[Slot(t)] = s
          /\ \A u \in SigTasks : Slot(u) # Slot(t) => g_sig'[Slot(u)] = g_sig[Slot(u)]
        BY <1>1, <2>1, SlotChanges
    <2> HIDE DEF r, s
    <2>4. SignalTypeOK'
        BY <2>1, <2>2, <2>3, TypesAfter
    <2>5. Only(t)
        BY <2>1, <2>3 DEF Only
    <2>6. caught'[t] = 0 /\ rip'[t] = r
        BY <2>1
    <2>7. Sound(t)'
        BY <1>1, <2>1, <2>3, <2>6, <1>3 DEF Sound, HandlerReturns, Slot, Alive
    <2> QED
        BY <2>2, <2>4, <2>5, <2>6, <2>7, OthersKeep DEF HandlerReturns
<1> QED
    BY <1>2, <1>3

LEMMA sys_signalKeeps ==
    ASSUME SignalInv, NEW t \in SigTasks, NEW sig \in Signals, NEW h \in Handlers,
           sys_signal(t, sig, h)
    PROVE  SignalInv'
<1> USE InvMeans, TypesMean
<1> DEFINE old == g_sig[Slot(t)]
           s == [old EXCEPT !.actions = [@ EXCEPT ![sig] = h]]
<1>1. Slot(t) \in Slots /\ old \in SigState /\ old.valid
    BY SlotType DEF sys_signal
<1>2. /\ s \in SigState /\ s.valid /\ s.pending = old.pending /\ s.resume = old.resume
      /\ s.fault_rip = old.fault_rip /\ s.fault_insn_len = old.fault_insn_len
      /\ s.actions = [old.actions EXCEPT ![sig] = h]
    BY <1>1 DEF SigState
<1>3. g_sig' = [g_sig EXCEPT ![Slot(t)] = s]
    BY <1>1 DEF sys_signal, SigState
<1>4. /\ g_sig' \in [Slots -> SigState] /\ g_sig'[Slot(t)] = s
      /\ \A u \in SigTasks : Slot(u) # Slot(t) => g_sig'[Slot(u)] = g_sig[Slot(u)]
    BY <1>2, <1>3, SlotChanges
<1>5. signal_fixup_resume(s).resume = signal_fixup_resume(old).resume
    BY <1>1, <1>2 DEF signal_fixup_resume, SigState
<1>6. old.actions \in [Signals -> Handlers]
    BY <1>1 DEF SigState
<1> HIDE DEF s, old
<1>7. SignalTypeOK'
    BY <1>4, TypesAfter DEF sys_signal
<1>8. Only(t)
    BY <1>4 DEF Only, sys_signal
<1>9. Sound(t)'
    <2>1. \A x \in Signals : s.actions[x] # "default" => x \in setby'[t]
        BY <1>2, <1>6 DEF Sound, sys_signal, old
    <2> QED
        BY <1>2, <1>4, <1>5, <2>1 DEF Sound, sys_signal, old, Slot, Alive
<1> QED
    BY <1>7, <1>8, <1>9, OthersKeep DEF sys_signal, Placed, Alive

LEMMA KillOtherKeeps ==
    ASSUME SignalInv, NEW t \in SigTasks, NEW u \in SigTasks, NEW sig \in Signals,
           KillOther(t, u, sig)
    PROVE  SignalInv'
<1> USE InvMeans, TypesMean
<1> DEFINE old == g_sig[Slot(u)]
           s == [old EXCEPT !.pending = @ \cup {sig}]
<1>1. Slot(u) \in Slots /\ old \in SigState /\ old.valid
    BY SlotType DEF KillOther
<1>2. /\ s \in SigState /\ s.valid /\ s.pending = old.pending \cup {sig}
      /\ s.resume = old.resume /\ s.fault_rip = old.fault_rip
      /\ s.fault_insn_len = old.fault_insn_len /\ s.actions = old.actions
    BY <1>1 DEF SigState
<1>3. g_sig' = [g_sig EXCEPT ![Slot(u)] = s]
    BY <1>1 DEF KillOther, SigState
<1>4. /\ g_sig' \in [Slots -> SigState] /\ g_sig'[Slot(u)] = s
      /\ \A v \in SigTasks : Slot(v) # Slot(u) => g_sig'[Slot(v)] = g_sig[Slot(v)]
    BY <1>2, <1>3, SlotChanges
<1>5. signal_fixup_resume(s).resume = signal_fixup_resume(old).resume
    BY <1>1, <1>2 DEF signal_fixup_resume, SigState
<1> HIDE DEF s, old
<1>6. SignalTypeOK'
    BY <1>4, TypesAfter DEF KillOther
<1>7. Only(u)
    BY <1>4 DEF Only, KillOther
<1>8. Sound(u)'
    BY <1>2, <1>4, <1>5 DEF Sound, KillOther, old, Slot, Alive
<1> QED
    BY <1>6, <1>7, <1>8, OthersKeep DEF KillOther, Placed, Alive

LEMMA KillSelfKeeps ==
    ASSUME SignalInv, NEW t \in SigTasks, NEW sig \in Signals, KillSelf(t, sig) PROVE SignalInv'
<1> USE InvMeans, TypesMean
<1> DEFINE k == Slot(t)
           old == g_sig[k]
           first == Min(old.pending \cup {sig})
           rest == (old.pending \cup {sig}) \ {first}
           G == [g_sig EXCEPT ![k].pending = (@ \cup {sig}) \ {first}]
<1>1. k \in Slots /\ old \in SigState /\ rest \in SUBSET Signals /\ Alive(t)
      /\ old.valid /\ (caught[t] = 0 \/ FaultsNest)
    BY SlotType DEF KillSelf, MayFault, SigState
<1>2. \A f \in Nat : [old EXCEPT !.pending = rest, !.resume = f] \in SigState
    BY <1>1 DEF SigState
<1>3. old.resume \in Nat
    BY <1>1 DEF SigState
<1>4. G = [g_sig EXCEPT ![k] = [old EXCEPT !.pending = rest]]
      /\ [old EXCEPT !.pending = rest] \in SigState
    BY <1>1 DEF SigState
<1>5. G \in [Slots -> SigState] /\ \A j \in Slots \ {k} : G[j] = g_sig[j]
    BY <1>1, <1>4
<1>6. CASE TaskEnds(G, t)
    BY <1>1, <1>5, <1>6, EndsKeep
<1>7. CASE ~TaskEnds(G, t)
    <2>1. /\ g_sig' = G \/ g_sig' = setup_user_handler(G, t, 0)
          /\ sentto' = [sentto EXCEPT ![t] = @ \cup {sig}]
          /\ UNCHANGED <<rip, caught, due, setby>>
        BY <1>7 DEF KillSelf
    <2>2. PICK s \in SigState : /\ g_sig' = [g_sig EXCEPT ![k] = s]
                                /\ s.valid /\ s.pending = rest /\ s.actions = old.actions
        <3>1. CASE g_sig' = G
            BY <1>1, <1>4, <3>1 DEF SigState
        <3>2. CASE g_sig' = setup_user_handler(G, t, 0)
            <4> DEFINE s == [old EXCEPT !.pending = rest, !.resume = 0]
            <4>1. s \in SigState /\ s.valid /\ s.pending = rest /\ s.actions = old.actions
                BY <1>1, <1>2 DEF SigState
            <4>2. g_sig' = [g_sig EXCEPT ![k] = s]
                BY <1>1, <1>4, <3>2 DEF setup_user_handler, SigState
            <4> QED
                BY <4>1, <4>2
        <3> QED
            BY <2>1, <3>1, <3>2
    <2> HIDE DEF rest, first, old
    <2>3. /\ g_sig' \in [Slots -> SigState] /\ g_sig'[k] = s
          /\ \A v \in SigTasks : Slot(v) # Slot(t) => g_sig'[Slot(v)] = g_sig[Slot(v)]
        BY <2>2, SlotChanges
    <2>4. SignalTypeOK'
        BY <2>1, <2>3, TypesAfter
    <2>5. Only(t)
        BY <2>1, <2>3 DEF Only
    <2>6. Sound(t)'
        BY <1>1, <2>1, <2>2, <2>3 DEF Sound, rest, old, Slot, Alive
    <2> QED
        BY <1>1, <2>1, <2>4, <2>5, <2>6, OthersKeep DEF Placed, Alive
<1> QED
    BY <1>6, <1>7

LEMMA StutterKeeps == ASSUME SignalInv, UNCHANGED sig_vars PROVE SignalInv'
BY DEF SignalInv, sig_vars, SignalTypeOK, Placed, SignalsAreOwn, ReturnsWhereInterrupted, Alive, Slot

LEMMA SignalNextKeeps == SignalInv /\ [SignalNext]_sig_vars => SignalInv'
<1> SUFFICES ASSUME SignalInv, [SignalNext]_sig_vars PROVE SignalInv'
    OBVIOUS
<1>1. ASSUME NEW t \in SigTasks, SigStart(t) PROVE SignalInv'
    BY <1>1, StartKeeps
<1>2. ASSUME NEW t \in SigTasks, SigExit(t) PROVE SignalInv'
    BY <1>2, EndsKeep, InvMeans, TypesMean DEF SigExit
<1>3. ASSUME NEW t \in SigTasks, HandlerReturns(t) PROVE SignalInv'
    BY <1>3, ReturnKeeps
<1>4. ASSUME NEW t \in SigTasks, NEW a \in DOMAIN Insns, Run(t, a) PROVE SignalInv'
    BY <1>4, RunKeeps
<1>5. ASSUME NEW t \in SigTasks, page_fault_handler(t) \/ exception_handler(t) PROVE SignalInv'
    BY <1>5, ExceptionKeeps
<1>6. ASSUME NEW t \in SigTasks, NEW s \in Signals, NEW h \in Handlers, sys_signal(t, s, h)
      PROVE SignalInv'
    BY <1>6, sys_signalKeeps
<1>7. ASSUME NEW c \in Sends, Kill(c[1], c[2], c[3]) PROVE SignalInv'
    <2>1. c[1] \in SigTasks /\ c[2] \in SigTasks /\ c[3] \in Signals
        BY SignalAssumption
    <2> QED
        BY <1>7, <2>1, KillSelfKeeps, KillOtherKeeps DEF Kill
<1>8. CASE UNCHANGED sig_vars
    BY <1>8, StutterKeeps
<1> QED
    BY <1>1, <1>2, <1>3, <1>4, <1>5, <1>6, <1>7, <1>8 DEF SignalNext

-----------------------------------------------------------------------------
(* The theorems *)

THEOREM SignalsInvariant == SignalSpec => []SignalInv
BY SignalInitKeeps, SignalNextKeeps, PTL DEF SignalSpec

\* The table of signal states keeps its types (signal.c).
THEOREM SignalTypesHold == SignalSpec => []SignalTypeOK
<1>1. SignalInv => SignalTypeOK
    BY DEF SignalInv
<1> QED
    BY <1>1, SignalsInvariant, PTL

\* What is pending for a task was sent to it, and its handlers are its own, although
\* slots and identifiers are used again (signal_init_task, sys_kill).
THEOREM HandlersAreOwn == SignalSpec => []SignalsAreOwn
<1>1. SignalInv => SignalsAreOwn
    BY DEF SignalInv
<1> QED
    BY <1>1, SignalsInvariant, PTL

\* If no handler faults or signals its own task, a handler returns to where the fault
\* interrupted the program, past a division and nothing else (signal_fixup_resume).
THEOREM SignalsDelivered == ~FaultsNest => (SignalSpec => []SignalsReachOwner)
<1> SUFFICES ASSUME ~FaultsNest PROVE SignalSpec => []SignalsReachOwner
    OBVIOUS
<1>1. SignalInv => SignalsReachOwner
    BY DEF SignalInv, SignalsReachOwner
<1> QED
    BY <1>1, SignalsInvariant, PTL

-----------------------------------------------------------------------------
(* Gate: what stands between a program and the kernel *)


\* The words of the log, the answers of the checks (at most one entry) and of calls.
Words == {"pid violation", "kernel memory", "critical access", "compat denied", "net denied", "sandbox escape"}
Codes == {"ok", "EPERM", "ENOSYS", "EFAULT", "EAGAIN", "kill"}
Short == {<<>>} \cup {<<w>> : w \in Words}
Long == Short \cup {<<v, w>> : v, w \in Words}
Checks == [rc : Codes, log : Short]
Answers == [rc : Codes, log : Long]

EntryType == [seq : Nat, what : Words \cup {""}, who : Nat]
AuditType == [ring : [0 .. AUDIT_RING_SIZE - 1 -> EntryType], write_idx : Nat, current_cnt : Nat]
PcbType == [alive : BOOLEAN, filter : Filters \cup {NoFilter}, cpu : {0, 1}, tracer : Nat]

GateTypeOK ==
    /\ audit \in AuditType
    /\ pcb \in [Askers -> PcbType]
    /\ refused \in Seq(Words \X Askers)
    /\ owed \in [Askers -> Nat]

\* Each entry of r that is still in reach is at its place in the ring.
Recorded(A, r) ==
    /\ A.write_idx = Len(r)
    /\ \A k \in 0 .. Len(r) - 1 : k + AUDIT_RING_SIZE >= Len(r) =>
         A.ring[k % AUDIT_RING_SIZE] = [seq |-> k, what |-> r[k + 1][1], who |-> r[k + 1][2]]

\* The entries of caller t.
Mine(r, t) == {i \in DOMAIN r : r[i][2] = t}

GateInv ==
    /\ GateTypeOK
    /\ Recorded(audit, refused)
    /\ \A t \in Askers : owed[t] <= Cardinality(Mine(refused, t))

-----------------------------------------------------------------------------
(* Numbers and their slots *)

LEMMA ModType ==
    ASSUME NEW n \in Nat \ {0}, NEW k \in Nat
    PROVE  k % n \in 0 .. n - 1 /\ k \div n \in Int /\ k = n * (k \div n) + (k % n)
<1>1. k % n \in 0 .. n - 1
    BY SMT
<1>2. k \div n \in Int /\ k = n * (k \div n) + (k % n)
    BY SMT
<1> QED
    BY <1>1, <1>2

\* Two multiples of n are not less than n apart.
LEMMA MultiplesApart ==
    ASSUME NEW n \in Nat \ {0}, NEW a \in Int, NEW b \in Int, 0 < n * a - n * b, n * a - n * b < n
    PROVE  FALSE
<1>0. n * a - n * b = n * (a - b)
    BY SMT
<1>1. CASE a - b <= 0
    <2>1. n * (a - b) <= 0
        BY <1>1, SMT
    <2> QED
        BY <2>1, <1>0
<1>2. CASE a - b >= 1
    <2>1. n * (a - b) >= n
        BY <1>2, SMT
    <2> QED
        BY <2>1, <1>0
<1> QED
    BY <1>1, <1>2

\* Numbers that are less than a ring apart have different slots.
LEMMA SlotsApart ==
    ASSUME NEW n \in Nat \ {0}, NEW k \in Nat, NEW l \in Nat, k < l, l < k + n
    PROVE  k % n # l % n
<1> SUFFICES ASSUME k % n = l % n PROVE FALSE
    OBVIOUS
<1> DEFINE a == l \div n
           b == k \div n
<1>1. /\ l = n * a + (l % n) /\ a \in Int /\ l % n \in Int
      /\ k = n * b + (k % n) /\ b \in Int
    BY ModType
<1> HIDE DEF a, b
<1>2. n * a \in Int /\ n * b \in Int
    BY <1>1
<1>3. 0 < n * a - n * b /\ n * a - n * b < n
    <2>1. l - k = n * a - n * b
        BY <1>1, <1>2
    <2> QED
        BY <1>2, <2>1
<1> QED
    BY <1>1, <1>3, MultiplesApart

-----------------------------------------------------------------------------
(* The log *)

LEMMA EntryRecorded ==
    ASSUME NEW A \in AuditType, NEW r \in Seq(Words \X Askers), Recorded(A, r),
           NEW w \in Words, NEW t \in Askers
    PROVE  /\ audit_event(A, w, t) \in AuditType
           /\ Append(r, <<w, t>>) \in Seq(Words \X Askers)
           /\ Recorded(audit_event(A, w, t), Append(r, <<w, t>>))
<1> DEFINE n == AUDIT_RING_SIZE
           e == [seq |-> Len(r), what |-> w, who |-> t]
           B == audit_event(A, w, t)
           q == Append(r, <<w, t>>)
<1>1. n \in Nat \ {0} /\ t \in Nat /\ Len(r) \in Nat /\ A.write_idx = Len(r)
    BY GateAssumption DEF Askers, Recorded
<1>2. Len(r) % n \in 0 .. n - 1
    BY <1>1, ModType
<1>3. A.ring \in [0 .. n - 1 -> EntryType] /\ A.current_cnt \in Nat
    BY DEF AuditType
<1>4. B.ring = [A.ring EXCEPT ![Len(r) % n] = e] /\ B.write_idx = Len(r) + 1
    BY <1>1 DEF audit_event
<1>5. B \in AuditType
    <2>1. e \in EntryType
        BY <1>1 DEF EntryType
    <2>2. B.ring \in [0 .. n - 1 -> EntryType]
        BY <1>2, <1>3, <1>4, <2>1
    <2> QED
        BY <1>1, <1>3, <1>4, <2>2 DEF audit_event, AuditType
<1>6. q \in Seq(Words \X Askers) /\ Len(q) = Len(r) + 1 /\ q[Len(r) + 1] = <<w, t>>
      /\ \A i \in 1 .. Len(r) : q[i] = r[i]
    OBVIOUS
<1>7. \A j \in 0 .. Len(r) - 1 : j + n >= Len(r) =>
        A.ring[j % n] = [seq |-> j, what |-> r[j + 1][1], who |-> r[j + 1][2]]
    BY ZenonT(30) DEF Recorded
<1>8. ASSUME NEW k \in 0 .. Len(q) - 1, k + n >= Len(q)
      PROVE  B.ring[k % n] = [seq |-> k, what |-> q[k + 1][1], who |-> q[k + 1][2]]
    <2>1. CASE k = Len(r)
        <3>1. B.ring[Len(r) % n] = e
            BY <1>2, <1>3, <1>4
        <3> QED
            BY <2>1, <3>1, <1>6
    <2>2. CASE k < Len(r)
        <3>1. k \in 0 .. Len(r) - 1 /\ k \in Nat /\ Len(r) < k + n
            BY <1>1, <1>6, <1>8, <2>2
        <3>2. k % n # Len(r) % n /\ k % n \in 0 .. n - 1
            <4> HIDE DEF n
            <4> QED
                BY <1>1, <2>2, <3>1, SlotsApart, ModType
        <3>3. B.ring[k % n] = A.ring[k % n]
            BY <1>2, <1>3, <1>4, <3>2
        <3>4. A.ring[k % n] = [seq |-> k, what |-> r[k + 1][1], who |-> r[k + 1][2]]
            <4>1. k \in 0 .. Len(r) - 1 /\ k + n >= Len(r)
                BY <1>1, <3>1
            <4> QED
                BY ONLY <1>7, <4>1, ZenonT(30)
        <3>5. q[k + 1] = r[k + 1]
            BY <3>1, <1>6
        <3> QED
            BY <3>3, <3>4, <3>5
    <2> QED
        BY <1>1, <1>6, <2>1, <2>2
<1> QED
    BY <1>4, <1>5, <1>6, <1>8 DEF Recorded

LEMMA ConcatFacts ==
    ASSUME NEW S, NEW s \in Seq(S), NEW u \in Seq(S)
    PROVE  /\ s \o u \in Seq(S) /\ Len(s \o u) = Len(s) + Len(u)
           /\ \A i \in 1 .. Len(s) : (s \o u)[i] = s[i]
           /\ \A i \in 1 .. Len(u) : (s \o u)[Len(s) + i] = u[i]
OBVIOUS

\* What a call's entries do to the log and to the history.
LEMMA CallRecorded ==
    ASSUME GateInv, NEW log \in Long, NEW t \in Askers
    PROVE  LET r == refused \o [i \in DOMAIN log |-> <<log[i], t>>]
           IN  /\ WriteDown(t, log) \in AuditType
               /\ r \in Seq(Words \X Askers)
               /\ Recorded(WriteDown(t, log), r)
               /\ Len(r) = Len(refused) + Len(log)
               /\ \A i \in 1 .. Len(refused) : r[i] = refused[i]
               /\ \A i \in Len(refused) + 1 .. Len(r) : r[i][2] = t
<1> DEFINE added == [i \in DOMAIN log |-> <<log[i], t>>]
           r == refused \o added
<1>1. audit \in AuditType /\ refused \in Seq(Words \X Askers) /\ Recorded(audit, refused)
    BY DEF GateInv, GateTypeOK
<1>2. CASE log = <<>>
    <2>1. added = <<>> /\ r = refused /\ WriteDown(t, log) = audit
        BY <1>1, <1>2 DEF WriteDown
    <2> QED
        BY <1>1, <1>2, <2>1
<1>3. ASSUME NEW w \in Words, log = <<w>>
      PROVE  /\ r = Append(refused, <<w, t>>)
             /\ WriteDown(t, log) = audit_event(audit, w, t)
    <2>1. added = <<<<w, t>>>>
        BY <1>3
    <2>2. Len(log) = 1 /\ log[1] = w
        BY <1>3
    <2> QED
        BY <1>1, <2>1, <2>2 DEF WriteDown
<1>4. ASSUME NEW v \in Words, NEW w \in Words, log = <<v, w>>
      PROVE  /\ r = Append(Append(refused, <<v, t>>), <<w, t>>)
             /\ WriteDown(t, log) = audit_event(audit_event(audit, v, t), w, t)
    <2>1. added = <<<<v, t>>, <<w, t>>>>
        BY <1>4
    <2>2. Len(log) = 2 /\ log[1] = v /\ log[2] = w
        BY <1>4
    <2> QED
        BY <1>1, <2>1, <2>2 DEF WriteDown
<1>5. log \in Seq(Words) /\ added \in Seq(Words \X Askers)
      /\ Len(added) = Len(log) /\ \A i \in 1 .. Len(log) : added[i] = <<log[i], t>>
    <2>1. log \in Seq(Words)
        <3>1. <<>> \in Seq(Words) /\ \A v, w \in Words : <<v>> \in Seq(Words) /\ <<v, w>> \in Seq(Words)
            <4> HIDE DEF Words
            <4> QED
                OBVIOUS
        <3>2. \/ log = <<>> \/ \E w \in Words : log = <<w>>
              \/ \E v, w \in Words : log = <<v, w>>
            BY DEF Long, Short
        <3> QED
            BY <3>1, <3>2, Zenon
    <2>2. DOMAIN log = 1 .. Len(log) /\ Len(log) \in Nat /\ \A i \in 1 .. Len(log) : log[i] \in Words
        BY <2>1
    <2>3. added = [i \in 1 .. Len(log) |-> <<log[i], t>>]
        BY <2>2
    <2> QED
        BY <2>1, <2>2, <2>3
<1>6. /\ r \in Seq(Words \X Askers) /\ Len(r) = Len(refused) + Len(log)
      /\ \A i \in 1 .. Len(refused) : r[i] = refused[i]
      /\ \A i \in Len(refused) + 1 .. Len(r) : r[i][2] = t
    <2> DEFINE m == Len(refused)
    <2>1. m \in Nat /\ Len(log) \in Nat
        BY <1>1, <1>5
    <2>2. /\ r \in Seq(Words \X Askers) /\ Len(r) = m + Len(log)
          /\ \A i \in 1 .. m : r[i] = refused[i]
          /\ \A i \in 1 .. Len(log) : r[m + i] = added[i]
        <3> DEFINE S == Words \X Askers
        <3>1. refused \in Seq(S) /\ added \in Seq(S) /\ Len(added) = Len(log)
            BY <1>1, <1>5
        <3> HIDE DEF added, S
        <3>2. /\ r \in Seq(S) /\ Len(r) = m + Len(added)
              /\ \A i \in 1 .. m : r[i] = refused[i]
              /\ \A i \in 1 .. Len(added) : r[m + i] = added[i]
            <4>1. \A s, u \in Seq(S) :
                    /\ s \o u \in Seq(S) /\ Len(s \o u) = Len(s) + Len(u)
                    /\ \A i \in 1 .. Len(s) : (s \o u)[i] = s[i]
                    /\ \A i \in 1 .. Len(u) : (s \o u)[Len(s) + i] = u[i]
                BY ConcatFacts
            <4> QED
                BY <3>1, <4>1, Zenon
        <3> QED
            BY <3>1, <3>2 DEF S
    <2>3. ASSUME NEW i \in m + 1 .. Len(r) PROVE r[i][2] = t
        <3>1. i - m \in 1 .. Len(log) /\ m + (i - m) = i
            BY <2>1, <2>2
        <3>2. r[i] = <<log[i - m], t>>
            BY <1>5, <2>2, <3>1
        <3> QED
            BY <3>2
    <2> QED
        BY <2>2, <2>3
<1>7. WriteDown(t, log) \in AuditType /\ Recorded(WriteDown(t, log), r)
    <2>1. ASSUME NEW w \in Words, log = <<w>> PROVE <1>7!1 /\ <1>7!2
        BY <1>1, <1>3, <2>1, EntryRecorded
    <2>2. ASSUME NEW v \in Words, NEW w \in Words, log = <<v, w>> PROVE <1>7!1 /\ <1>7!2
        <3>1. /\ audit_event(audit, v, t) \in AuditType /\ Append(refused, <<v, t>>) \in Seq(Words \X Askers)
              /\ Recorded(audit_event(audit, v, t), Append(refused, <<v, t>>))
            BY <1>1, EntryRecorded
        <3>2. /\ audit_event(audit_event(audit, v, t), w, t) \in AuditType
              /\ Recorded(audit_event(audit_event(audit, v, t), w, t), Append(Append(refused, <<v, t>>), <<w, t>>))
            BY <3>1, EntryRecorded
        <3> QED
            BY <1>4, <2>2, <3>2
    <2>3. CASE log = <<>>
        BY <1>1, <2>3 DEF WriteDown
    <2> QED
        BY <2>1, <2>2, <2>3 DEF Long, Short
<1> QED
    BY <1>6, <1>7
-----------------------------------------------------------------------------
(* The checks *)

\* What is of the kernel, for a caller that is not confined to itself.
OfKernel(t, on) ==
    \/ on.type = "file" /\ on.at \in {"kernel", "critical"}
    \/ on = Memory("kernel")
    \/ on.type = "process" /\ on.pid \in Reserved /\ Level[t] > 1

\* An answer that refuses and says so.
Refuses(a) == a.rc # "ok" /\ a.log # <<>>

LEMMA AnswersMean ==
    /\ Ok \in Checks /\ Ok.rc = "ok"
    /\ \A rc \in Codes : Deny(rc) \in Checks
    /\ \A rc \in Codes \ {"ok"}, w \in Words : Logged(rc, w) \in Checks /\ Refuses(Logged(rc, w))
    /\ Checks \subseteq Answers
<1>1. <<>> \in Short /\ \A w \in Words : <<w>> \in Short /\ <<w>> # <<>>
    BY DEF Short
<1>2. Short \subseteq Long
    BY DEF Long
<1>3. "ok" \in Codes
    BY DEF Codes
<1>4. /\ Ok \in Checks /\ Ok.rc = "ok"
      /\ \A rc \in Codes : Deny(rc) \in Checks
    BY <1>1, <1>3 DEF Ok, Deny, Answer, Checks
<1>5. \A rc \in Codes \ {"ok"}, w \in Words : Logged(rc, w) \in Checks /\ Refuses(Logged(rc, w))
    BY <1>1 DEF Logged, Answer, Checks, Refuses
<1>6. Checks \subseteq Answers
    BY <1>2 DEF Checks, Answers
<1> QED
    BY <1>4, <1>5, <1>6

LEMMA WordsMean ==
    /\ "ok" \in Codes /\ "EPERM" \in Codes /\ "ENOSYS" \in Codes /\ "EFAULT" \in Codes
    /\ "EAGAIN" \in Codes /\ "kill" \in Codes
    /\ "pid violation" \in Words /\ "kernel memory" \in Words /\ "critical access" \in Words
    /\ "sandbox escape" \in Words /\ "compat denied" \in Words /\ "net denied" \in Words
BY DEF Codes, Words

LEMMA LevelType == ASSUME NEW t \in Askers PROVE Level[t] \in Int
BY GateAssumption

LEMMA FileChecked ==
    ASSUME NEW t \in Askers, NEW area, NEW writes \in BOOLEAN
    PROVE  /\ permission_check_file(t, area, writes) \in Checks
           /\ area \in {"kernel", "critical"} => Refuses(permission_check_file(t, area, writes))
<1>0. Level[t] \in Int
    BY LevelType
<1>1. CASE area \in {"kernel", "critical"}
    <2>1. permission_check_file(t, area, writes) \in {Logged("EPERM", "critical access")}
        BY <1>0, <1>1 DEF permission_check_file, critical_check_access
    <2> QED
        BY <2>1, AnswersMean, WordsMean
<1>2. CASE area \notin {"kernel", "critical"}
    <2>1. permission_check_file(t, area, writes) \in {Ok, Deny("ENOSYS"), Deny("EPERM")}
        BY <1>0, <1>2 DEF permission_check_file
    <2> QED
        BY <1>2, <2>1, AnswersMean, WordsMean
<1> QED
    BY <1>1, <1>2

LEMMA MemoryChecked ==
    ASSUME NEW t, NEW at
    PROVE  /\ permission_check_memory(t, at) \in Checks
           /\ at = "kernel" => Refuses(permission_check_memory(t, at))
BY AnswersMean, WordsMean DEF permission_check_memory

LEMMA ProcessChecked ==
    ASSUME NEW t \in Askers, NEW p
    PROVE  /\ permission_check_process(t, p) \in Checks
           /\ p \in Reserved /\ Level[t] > 1 => Refuses(permission_check_process(t, p))
<1>0. Level[t] \in Int
    BY LevelType
<1>1. CASE Level[t] > 1 /\ p \in Reserved
    <2>1. permission_check_process(t, p) \in {Logged("EPERM", "pid violation")}
        BY <1>0, <1>1 DEF permission_check_process, check_pid_access, Logged, Answer
    <2> QED
        BY <2>1, AnswersMean, WordsMean
<1>2. CASE ~(Level[t] > 1 /\ p \in Reserved)
    <2>1. permission_check_process(t, p) \in {Ok, Deny("EPERM")}
        BY <1>0, <1>2 DEF permission_check_process, check_pid_access, Ok, Deny, Logged, Answer
    <2> QED
        BY <1>2, <2>1, AnswersMean, WordsMean
<1> QED
    BY <1>1, <1>2

\* A thing is of one kind, and its fields say which.
LEMMA ThingsMean ==
    ASSUME NEW on \in Things
    PROVE  \/ on.type = "file" /\ on.at \in Areas /\ on.writes \in BOOLEAN /\ on # Memory("kernel")
           \/ on.type = "memory" /\ (on = Memory("kernel") => on.at = "kernel")
           \/ on.type = "process" /\ on.pid \in Nat /\ on # Memory("kernel")
           \/ on.type \in {"ipc", "config", "unknown"} /\ on # Memory("kernel")
<1>1. \A p \in Askers \cup Reserved : p \in Nat
    BY GateAssumption
<1>2. ASSUME NEW a \in Areas, NEW w \in BOOLEAN, on = File(a, w)
      PROVE  on.type = "file" /\ on.at \in Areas /\ on.writes \in BOOLEAN /\ on # Memory("kernel")
    BY <1>2 DEF File, Memory, Thing
<1>3. ASSUME NEW p \in Askers \cup Reserved, on = Process(p)
      PROVE  on.type = "process" /\ on.pid \in Nat /\ on # Memory("kernel")
    BY <1>1, <1>3 DEF Process, Memory, Thing
<1>4. ASSUME on = Ipc \/ on = Config(TRUE) \/ on = Config(FALSE) \/ on = Unknown
      PROVE  on.type \in {"ipc", "config", "unknown"} /\ on # Memory("kernel")
    BY <1>4 DEF Ipc, Config, Unknown, Memory, Thing
<1>5. ASSUME on = Memory("user") \/ on = Memory("kernel")
      PROVE  on.type = "memory" /\ (on = Memory("kernel") => on.at = "kernel")
    BY <1>5 DEF Memory, Thing
<1>6. \/ \E a \in Areas, w \in BOOLEAN : on = File(a, w)
      \/ \E p \in Askers \cup Reserved : on = Process(p)
      \/ on \in MemoryThings \/ on \in OtherThings
    <2>1. on \in FileThings => \E a \in Areas, w \in BOOLEAN : on = File(a, w)
        BY DEF FileThings
    <2>2. on \in ProcessThings => \E p \in Askers \cup Reserved : on = Process(p)
        BY DEF ProcessThings
    <2> QED
        BY <2>1, <2>2, Zenon DEF Things
<1> QED
    BY <1>2, <1>3, <1>4, <1>5, <1>6 DEF MemoryThings, OtherThings

LEMMA Checked ==
    ASSUME NEW t \in Askers, NEW on \in Things
    PROVE  /\ check_permission(t, on) \in Checks
           /\ OfKernel(t, on) => Refuses(check_permission(t, on))
<1>1. CASE on.type = "file" /\ on.at \in Areas /\ on.writes \in BOOLEAN /\ on # Memory("kernel")
    BY <1>1, FileChecked DEF check_permission, OfKernel
<1>2. CASE on.type = "memory" /\ (on = Memory("kernel") => on.at = "kernel")
    BY <1>2, MemoryChecked DEF check_permission, OfKernel
<1>3. CASE on.type = "process" /\ on.pid \in Nat /\ on # Memory("kernel")
    BY <1>3, ProcessChecked DEF check_permission, OfKernel
<1>4. CASE on.type \in {"ipc", "config", "unknown"} /\ on # Memory("kernel")
    BY <1>4, AnswersMean, WordsMean
       DEF check_permission, OfKernel, permission_check_ipc, permission_check_config
<1> QED
    BY <1>1, <1>2, <1>3, <1>4, ThingsMean
-----------------------------------------------------------------------------
(* The calls *)

LEMMA ThenKeeps ==
    ASSUME NEW a \in Checks, NEW b \in Checks
    PROVE  Then(a, b) \in Checks /\ (Refuses(a) => Refuses(Then(a, b)))
BY DEF Then, Refuses

\* What calls are made about.
LEMMA AboutMeans ==
    ASSUME NEW nr \in CallNames, NEW on \in About(nr)
    PROVE  /\ on \in Things
           /\ nr = "OpenFile" => \E a \in Areas, w \in BOOLEAN : on = File(a, w)
           /\ nr \in {"Send", "Recv", "ReadFile", "WriteFile"} \cup Addressed => on \in MemoryThings
           /\ nr \in (DriverCalls \ {"LoadDriver", "LoadDriverSandboxed"}) \cup KernelCalls
                \cup (NetCalls \ {"Send", "Recv"}) \cup HandedOn \cup {"CloseHandle", "Seccomp"} => on = Unknown
<1> DEFINE Loads == CreateCalls \cup {"LoadDriver", "LoadDriverSandboxed"}
           Tasks == ProcessCalls \cup {"SetCpuQuota", "Attach", "Detach"}
           Places == {"Send", "Recv", "ReadFile", "WriteFile"} \cup Addressed
           Rest == (DriverCalls \ {"LoadDriver", "LoadDriverSandboxed"}) \cup KernelCalls
                \cup (NetCalls \ {"Send", "Recv"}) \cup HandedOn \cup {"CloseHandle", "Seccomp"}
<1>1. ReadThings \subseteq FileThings
    <2> SUFFICES ASSUME NEW x \in ReadThings PROVE x \in FileThings
        OBVIOUS
    <2>1. PICK a \in Areas : x = File(a, FALSE)
        BY DEF ReadThings
    <2>2. \A w \in BOOLEAN : File(a, w) \in FileThings
        BY DEF FileThings
    <2> QED
        BY <2>1, <2>2
<1>2. Unknown \in OtherThings
    BY DEF OtherThings
<1>3. /\ nr \in Loads \/ nr = "OpenFile" \/ nr \in Tasks \/ nr \in Places \/ nr \in AccessCalls \/ nr \in Rest
      /\ nr \in Loads => nr # "OpenFile" /\ nr \notin Tasks \cup Places \cup AccessCalls \cup Rest
      /\ nr = "OpenFile" => nr \notin Tasks \cup Places \cup AccessCalls \cup Rest
      /\ nr \in Tasks => nr \notin Places \cup AccessCalls \cup Rest
      /\ nr \in Places => nr \notin AccessCalls \cup Rest
      /\ nr \in AccessCalls => nr \notin Rest
    BY DEF CallNames, CreateCalls, ProcessCalls, AccessCalls, Addressed, DriverCalls, KernelCalls, NetCalls,
           HandedOn, FileCalls, TaskCalls
<1> HIDE DEF Loads, Tasks, Places, Rest
<1>4. /\ nr \in Loads => About(nr) = ReadThings
      /\ nr = "OpenFile" => About(nr) = {f \in FileThings : f.at # "none"}
      /\ nr \in Tasks => About(nr) = ProcessThings
      /\ nr \in Places => About(nr) = MemoryThings
      /\ nr \in AccessCalls => About(nr) = Things
      /\ nr \in Rest => About(nr) = {Unknown}
    BY <1>3 DEF About, Loads, Tasks, Places
<1>5. nr = "OpenFile" => on \in FileThings
    BY <1>4
<1>6. nr = "OpenFile" => \E a \in Areas, w \in BOOLEAN : on = File(a, w)
    BY <1>5 DEF FileThings
<1>7. on \in Things /\ (nr \in Places => on \in MemoryThings) /\ (nr \in Rest => on = Unknown)
    BY <1>1, <1>2, <1>3, <1>4, <1>5 DEF Things
<1> QED
    BY <1>6, <1>7 DEF Places, Rest

LEMMA AppendShort ==
    ASSUME NEW S, NEW x \in S, NEW y \in S
    PROVE  Append(<<>>, y) = <<y>> /\ Append(<<x>>, y) = <<x, y>>
<1>1. <<x>> \in Seq(S) /\ Append(<<x>>, y) \in Seq(S) /\ Len(Append(<<x>>, y)) = 2
    OBVIOUS
<1>2. Append(<<x>>, y)[1] = x /\ Append(<<x>>, y)[2] = y
    BY <1>1
<1>3. Append(<<x>>, y) = <<x, y>>
    <2> DEFINE s == Append(<<x>>, y)
    <2>1. s = [i \in 1 .. 2 |-> s[i]]
        BY <1>1
    <2>2. <<x, y>> = [i \in 1 .. 2 |-> <<x, y>>[i]]
        OBVIOUS
    <2>3. \A i \in 1 .. 2 : s[i] = <<x, y>>[i]
        <3>1. \A i \in 1 .. 2 : i = 1 \/ i = 2
            OBVIOUS
        <3>2. <<x, y>>[1] = x /\ <<x, y>>[2] = y
            OBVIOUS
        <3> QED
            BY <1>2, <3>1, <3>2
    <2> HIDE DEF s
    <2> QED
        BY <2>1, <2>2, <2>3, Zenon DEF s
<1>4. <<>> \in Seq(S) /\ Append(<<>>, y) \in Seq(S) /\ Len(Append(<<>>, y)) = 1 /\ Append(<<>>, y)[1] = y
    OBVIOUS
<1>5. Append(<<>>, y) = <<y>>
    BY <1>4
<1> QED
    BY <1>3, <1>5

LEMMA AppendLong ==
    ASSUME NEW l \in Short, NEW v \in Words
    PROVE  Append(l, v) \in Long /\ Append(l, v) # <<>>
<1>1. CASE l = <<>>
    <2>1. Append(l, v) = <<v>>
        BY <1>1
    <2> QED
        BY <2>1 DEF Long, Short
<1>2. ASSUME NEW w \in Words, l = <<w>>
      PROVE  Append(l, v) \in Long /\ Append(l, v) # <<>>
    <2>1. Append(l, v) = <<w, v>>
        BY <1>2, AppendShort
    <2>2. <<w, v>> \in {<<x, y>> : x, y \in Words}
        OBVIOUS
    <2> QED
        BY <2>1, <2>2 DEF Long
<1> QED
    BY <1>1, <1>2 DEF Short

\* Every call is answered; and a call about something of the kernel that gets to its
\* check is refused with an entry.
LEMMA Judges ==
    ASSUME NEW t \in Askers, NEW nr \in CallNames, NEW on \in About(nr), NEW full \in BOOLEAN
    PROVE  /\ Judged(t, nr, on, full) \in Answers
           /\ t \in Untrusted /\ ~full /\ Protected(t, nr, on) => Judged(t, nr, on, full).log # <<>>
<1> DEFINE a == Judged(t, nr, on, full)
<1>0. /\ on \in Things /\ Level[t] \in Int /\ (t \in Untrusted => Level[t] = 5)
      /\ check_permission(t, on) \in Checks /\ (OfKernel(t, on) => Refuses(check_permission(t, on)))
    BY AboutMeans, LevelType, Checked, GateAssumption
<1>1. Protected(t, nr, on) <=> nr \notin TaskCalls \cup Addressed /\ OfKernel(t, on)
    BY DEF Protected, OfKernel
<1>2. \A b \in Checks : b \in Answers /\ (Refuses(b) => b.log # <<>>)
    BY AnswersMean DEF Refuses
<1>3. ~OfKernel(t, Unknown)
    BY DEF OfKernel, Unknown, Memory, Thing
<1>a. /\ nr \in CreateCalls => nr \notin ProcessCalls \cup AccessCalls \cup DriverCalls \cup KernelCalls
                                     \cup NetCalls \cup Addressed \cup {"OpenFile", "ReadFile", "WriteFile"}
      /\ nr \in ProcessCalls => nr \notin AccessCalls \cup DriverCalls \cup KernelCalls
                                     \cup NetCalls \cup Addressed \cup {"OpenFile", "ReadFile", "WriteFile"}
      /\ nr \in AccessCalls => nr \notin DriverCalls \cup KernelCalls
                                     \cup NetCalls \cup Addressed \cup {"OpenFile", "ReadFile", "WriteFile"}
      /\ nr \in DriverCalls => nr \notin KernelCalls
                                     \cup NetCalls \cup Addressed \cup {"OpenFile", "ReadFile", "WriteFile"}
      /\ nr \in KernelCalls => nr \notin NetCalls \cup Addressed \cup {"OpenFile", "ReadFile", "WriteFile"}
      /\ nr \in NetCalls => nr \notin Addressed \cup {"OpenFile", "ReadFile", "WriteFile"}
      /\ nr \in Addressed => nr \notin {"OpenFile", "ReadFile", "WriteFile"}
      /\ nr \in {"CloseHandle"} \cup TaskCalls \cup HandedOn =>
            nr \notin CreateCalls \cup ProcessCalls \cup AccessCalls \cup DriverCalls \cup KernelCalls
                                     \cup NetCalls \cup Addressed \cup {"OpenFile", "ReadFile", "WriteFile"}
    BY DEF CreateCalls, ProcessCalls, AccessCalls, DriverCalls, KernelCalls, NetCalls, Addressed,
           HandedOn, TaskCalls
<1>4. CASE nr \in CreateCalls
    <2>1. a = OnCreate(t, on, full)
        BY <1>a, <1>4 DEF Judged
    <2>2. CASE Level[t] < 2
        BY <1>0, <1>2, <2>1, <2>2, AnswersMean, WordsMean DEF OnCreate
    <2>3. CASE Level[t] >= 2 /\ full
        BY <1>0, <1>2, <2>1, <2>3, AnswersMean, WordsMean DEF OnCreate
    <2>4. CASE Level[t] >= 2 /\ ~full
        <3>1. a = Then(check_permission(t, on), Deny("ENOSYS"))
            <4>1. ~(Level[t] < 2)
                BY <1>0, <2>4
            <4> QED
                BY <2>1, <2>4, <4>1, Zenon DEF OnCreate
        <3> QED
            BY <1>0, <1>1, <1>2, <3>1, AnswersMean, WordsMean, ThenKeeps
    <2> QED
        BY <1>0, <2>2, <2>3, <2>4
<1>5. CASE nr \in ProcessCalls
    <2>1. a = Then(check_permission(t, on), Deny("ENOSYS"))
        BY <1>a, <1>5 DEF Judged, OnProcess
    <2> QED
        BY <1>0, <1>1, <1>2, <2>1, AnswersMean, WordsMean, ThenKeeps
<1>6. CASE nr \in AccessCalls
    <2> DEFINE c == check_permission(t, on)
    <2>1. a = OnAccess(t, nr, on)
        BY <1>a, <1>6 DEF Judged
    <2>2. c \in Checks
        BY <1>0
    <2>3. CASE nr = "CheckAccessNative" /\ c.rc # "ok"
        <3>1. a = [c EXCEPT !.rc = "ok", !.log = Append(c.log, "compat denied")]
            BY <2>1, <2>3 DEF OnAccess
        <3>2. a.rc = "ok" /\ a.log = Append(c.log, "compat denied") /\ a \in [rc : {"ok"}, log : {Append(c.log, "compat denied")}]
            BY <2>2, <3>1 DEF Checks
        <3>3. Append(c.log, "compat denied") \in Long /\ Append(c.log, "compat denied") # <<>>
            BY <2>2, AppendLong, WordsMean DEF Checks
        <3> QED
            BY <3>2, <3>3, WordsMean DEF Answers
    <2>4. CASE ~(nr = "CheckAccessNative" /\ c.rc # "ok")
        <3>1. a = [c EXCEPT !.rc = "ok"]
            BY <2>1, <2>2, <2>4 DEF OnAccess, Checks
        <3>2. a \in Checks /\ a.log = c.log
            BY <2>2, <3>1, WordsMean DEF Checks
        <3> QED
            BY <1>0, <1>1, <1>2, <3>2 DEF Refuses
    <2> QED
        BY <2>3, <2>4
<1>7. CASE nr \in DriverCalls
    <2>1. a = OnDriver(t, nr, on)
        BY <1>a, <1>7 DEF Judged
    <2>2. CASE nr \in {"RegisterInterrupt", "Compat_Preload"}
        <3>1. on = Unknown
            BY <1>7, <2>2, AboutMeans
        <3>2. a \in Checks
            BY <1>0, <2>1, <2>2, AnswersMean, WordsMean DEF OnDriver
        <3> QED
            BY <1>1, <1>2, <1>3, <3>1, <3>2
    <2>3. CASE nr \in {"LoadDriver", "LoadDriverSandboxed"}
        <3>1. \E b \in Checks : a = Then(check_permission(t, on), b)
            BY <1>0, <2>1, <2>3, AnswersMean, WordsMean DEF OnDriver
        <3> QED
            BY <1>0, <1>1, <1>2, <3>1, ThenKeeps
    <2> QED
        BY <1>7, <2>2, <2>3 DEF DriverCalls
<1>8. CASE nr \in KernelCalls
    <2>1. a = OnKernel(nr) /\ on = Unknown
        BY <1>a, <1>8, AboutMeans DEF Judged
    <2>2. a \in Checks
        BY <2>1, AnswersMean, WordsMean DEF OnKernel
    <2> QED
        BY <1>1, <1>2, <1>3, <2>1, <2>2
<1>9. CASE nr \in NetCalls
    <2>1. a = OnNet(t, nr, on)
        BY <1>a, <1>9 DEF Judged
    <2>2. CASE nr \in {"Send", "Recv"}
        <3>1. a = permission_check_memory(t, on.at) /\ on \in MemoryThings
            BY <2>1, <2>2, AboutMeans DEF OnNet
        <3>2. OfKernel(t, on) => on.at = "kernel"
            BY <3>1 DEF OfKernel, MemoryThings, Memory, Thing
        <3> QED
            BY <1>1, <1>2, <3>1, <3>2, MemoryChecked
    <2>3. CASE nr \notin {"Send", "Recv"}
        <3>1. on = Unknown
            BY <1>9, <2>3, AboutMeans
        <3>2. permission_check_ipc(t) \in {Deny("EPERM"), Deny("ENOSYS")}
            BY <1>0 DEF permission_check_ipc
        <3>3. CASE nr = "Socket"
            <4>1. a = [permission_check_ipc(t) EXCEPT !.log = Append(@, "net denied")]
                BY <2>1, <3>3 DEF OnNet
            <4>2. a \in Checks
                <5>1. ASSUME NEW rc \in {"EPERM", "ENOSYS"}, permission_check_ipc(t) = Deny(rc)
                      PROVE  a = Logged(rc, "net denied")
                    <6> DEFINE d == [rc |-> rc, log |-> <<>>]
                    <6>1. permission_check_ipc(t) = d
                        BY <5>1 DEF Deny, Answer
                    <6>2. a = [d EXCEPT !.log = Append(d.log, "net denied")]
                        BY <4>1, <6>1
                    <6>3. Append(d.log, "net denied") = <<"net denied">>
                        BY AppendShort
                    <6>4. a = [d EXCEPT !.log = <<"net denied">>]
                        BY <6>2, <6>3
                    <6> QED
                        BY <6>4 DEF Logged, Answer
                <5> QED
                    BY <3>2, <5>1, AnswersMean, WordsMean
            <4> QED
                BY <1>1, <1>2, <1>3, <3>1, <4>2
        <3>4. CASE nr # "Socket"
            <4>1. a = permission_check_ipc(t)
                BY <2>1, <2>3, <3>4 DEF OnNet
            <4> QED
                BY <1>1, <1>2, <1>3, <3>1, <3>2, <4>1, AnswersMean, WordsMean
        <3> QED
            BY <3>3, <3>4
    <2> QED
        BY <2>2, <2>3
<1>10. CASE nr \in Addressed
    <2>1. a \in {Deny("EFAULT"), Ok}
        BY <1>a, <1>10 DEF Judged
    <2> QED
        BY <1>1, <1>2, <1>10, <2>1, AnswersMean, WordsMean
<1>11. CASE nr = "OpenFile"
    <2>1. a = permission_check_file(t, on.at, on.writes)
        BY <1>a, <1>11 DEF Judged, Opening
    <2>2. PICK area \in Areas, w \in BOOLEAN : on = File(area, w)
        BY <1>11, AboutMeans
    <2>3. on.at = area /\ on.writes = w /\ (OfKernel(t, on) => area \in {"kernel", "critical"})
        BY <2>2 DEF OfKernel, File, Memory, Thing
    <2> QED
        BY <1>1, <1>2, <2>1, <2>3, FileChecked
<1>12. CASE nr \in {"ReadFile", "WriteFile"}
    <2>1. a = permission_check_memory(t, on.at) /\ on \in MemoryThings
        BY <1>a, <1>12, AboutMeans DEF Judged, Reading
    <2>2. OfKernel(t, on) => on.at = "kernel"
        BY <2>1 DEF OfKernel, MemoryThings, Memory, Thing
    <2> QED
        BY <1>1, <1>2, <2>1, <2>2, MemoryChecked
<1>13. CASE nr \in {"CloseHandle"} \cup TaskCalls \cup HandedOn
    <2>1. a = Ok
        BY <1>a, <1>13 DEF Judged
    <2>2. nr \in TaskCalls \/ on = Unknown
        BY <1>13, AboutMeans
    <2> QED
        BY <1>1, <1>2, <1>3, <2>1, <2>2, AnswersMean
<1> QED
    BY <1>4, <1>5, <1>6, <1>7, <1>8, <1>9, <1>10, <1>11, <1>12, <1>13
       DEF CallNames, FileCalls
-----------------------------------------------------------------------------
(* The steps *)

LEMMA MineFinite ==
    ASSUME NEW r \in Seq(Words \X Askers), NEW t
    PROVE  IsFiniteSet(Mine(r, t)) /\ Cardinality(Mine(r, t)) \in Nat
<1>1. Mine(r, t) \subseteq 1 .. Len(r)
    BY DEF Mine
<1>2. IsFiniteSet(1 .. Len(r))
    BY FS_Interval
<1> QED
    BY <1>1, <1>2, FS_Subset, FS_CardinalityType

\* A call keeps the record, if it writes an entry whenever it owes one.
LEMMA FinishKeeps ==
    ASSUME GateInv, NEW t \in Askers, NEW nr, NEW on, NEW a \in Answers,
           NEW new \in [Askers -> PcbType], Finish(t, nr, on, a, new),
           Protected(t, nr, on) => a.log # <<>>
    PROVE  GateInv'
<1> DEFINE r == refused \o [i \in DOMAIN a.log |-> <<a.log[i], t>>]
<1>1. a.log \in Long /\ Len(a.log) \in Nat /\ (a.log # <<>> => Len(a.log) >= 1)
    BY DEF Answers, Long, Short
<1>2. audit' = WriteDown(t, a.log) /\ refused' = r /\ pcb' = new
      /\ owed' = [owed EXCEPT ![t] = IF Protected(t, nr, on) /\ owed[t] < MaxRefusals THEN owed[t] + 1 ELSE owed[t]]
    BY DEF Finish
<1>3. /\ audit' \in AuditType /\ refused' \in Seq(Words \X Askers) /\ Recorded(audit', refused')
      /\ Len(refused') = Len(refused) + Len(a.log)
      /\ \A i \in 1 .. Len(refused) : refused'[i] = refused[i]
      /\ \A i \in Len(refused) + 1 .. Len(refused') : refused'[i][2] = t
    BY <1>1, <1>2, CallRecorded
<1>4. refused \in Seq(Words \X Askers) /\ owed \in [Askers -> Nat] /\ Len(refused) \in Nat
    BY DEF GateInv, GateTypeOK
<1>5. owed' \in [Askers -> Nat]
    BY <1>2, <1>4
<1>6. ASSUME NEW u \in Askers PROVE Mine(refused, u) \subseteq Mine(refused', u)
    <2> SUFFICES ASSUME NEW i \in Mine(refused, u) PROVE i \in Mine(refused', u)
        OBVIOUS
    <2>1. i \in 1 .. Len(refused) /\ refused[i][2] = u
        BY <1>4 DEF Mine
    <2>2. i \in DOMAIN refused'
        BY <1>1, <1>3, <1>4, <2>1
    <2> QED
        BY <1>3, <2>1, <2>2 DEF Mine
<1>7. ASSUME NEW u \in Askers PROVE owed'[u] <= Cardinality(Mine(refused', u))
    <2>1. Cardinality(Mine(refused, u)) <= Cardinality(Mine(refused', u))
        BY <1>3, <1>6, MineFinite, FS_Subset
    <2>2. Cardinality(Mine(refused, u)) \in Nat /\ Cardinality(Mine(refused', u)) \in Nat
        BY <1>3, <1>4, MineFinite
    <2>3. owed[u] <= Cardinality(Mine(refused, u)) /\ owed[u] \in Nat
        BY <1>4 DEF GateInv
    <2>4. CASE owed'[u] = owed[u]
        BY <2>1, <2>2, <2>3, <2>4
    <2>5. CASE owed'[u] # owed[u]
        <3>1. u = t /\ Protected(t, nr, on) /\ owed'[u] = owed[u] + 1
            BY <1>2, <1>4, <2>5
        <3> DEFINE x == Len(refused) + 1
        <3>2. x \in Mine(refused', u) /\ x \notin Mine(refused, u)
            <4>1. x \in 1 .. Len(refused') /\ x \in Len(refused) + 1 .. Len(refused')
                BY <1>1, <1>3, <1>4, <3>1
            <4> QED
                BY <1>3, <1>4, <3>1, <4>1 DEF Mine
        <3>3. IsFiniteSet(Mine(refused, u)) /\ IsFiniteSet(Mine(refused', u))
            BY <1>3, <1>4, MineFinite
        <3>4. Cardinality(Mine(refused, u) \cup {x}) = Cardinality(Mine(refused, u)) + 1
            BY <3>2, <3>3, FS_AddElement
        <3>5. Mine(refused, u) \cup {x} \subseteq Mine(refused', u)
            BY <1>6, <3>2
        <3>6. Cardinality(Mine(refused, u) \cup {x}) <= Cardinality(Mine(refused', u))
            BY <3>3, <3>5, FS_Subset
        <3> QED
            BY <2>2, <2>3, <3>1, <3>4, <3>6
    <2> QED
        BY <2>4, <2>5
<1> QED
    BY <1>2, <1>3, <1>5, <1>7 DEF GateInv, GateTypeOK

LEMMA FinishedType == ASSUME GateInv, NEW t \in Askers PROVE Finished(t) \in [Askers -> PcbType]
<1>1. pcb \in [Askers -> PcbType]
    BY DEF GateInv, GateTypeOK
<1>2. [pcb[t] EXCEPT !.alive = FALSE] \in PcbType
    BY <1>1 DEF PcbType
<1> QED
    BY <1>1, <1>2 DEF Finished

\* What a call does to the tasks: it changes a filter or a quota only where it is let.
LEMMA EffectsMean ==
    ASSUME GateInv, NEW t \in Untrusted, NEW nr \in CallNames, NEW on, NEW e \in Effects(t, nr, on)
    PROVE  /\ e \in [Askers -> PcbType]
           /\ \A u \in Untrusted : (u # t \/ nr # "Seccomp") => e[u].filter = pcb[u].filter
           /\ \A u \in Untrusted : (u # t \/ nr # "SetCpuQuota") => e[u].cpu = pcb[u].cpu
<1>1. pcb \in [Askers -> PcbType] /\ t \in Askers /\ Level[t] = 5 /\ t \in Nat /\ Untrusted \subseteq Askers
    BY GateAssumption DEF GateInv, GateTypeOK, Askers
<1>2. \A u \in Askers : pcb[u] \in PcbType
    BY <1>1
<1>3. CASE e = pcb
    BY <1>1, <1>3
<1>4. CASE nr = "UserExit"
    <2>1. e = [pcb EXCEPT ![t].alive = FALSE]
        BY <1>4 DEF Effects
    <2>2. [pcb[t] EXCEPT !.alive = FALSE] \in PcbType
        BY <1>1 DEF PcbType
    <2> QED
        BY <1>1, <1>2, <2>1, <2>2 DEF PcbType
<1>5. CASE nr = "Seccomp" /\ e # pcb
    <2>1. PICK f \in Filters \cup {NoFilter} : e = [pcb EXCEPT ![t].filter = f]
        BY <1>5 DEF Effects, seccomp_syscall
    <2>2. [pcb[t] EXCEPT !.filter = f] \in PcbType
        BY <1>1 DEF PcbType
    <2> QED
        BY <1>1, <1>2, <1>5, <2>1, <2>2 DEF PcbType
<1>6. CASE nr = "SetCpuQuota" /\ e # pcb
    <2>1. e \in SetQuota(t, on.pid)
        BY <1>6 DEF Effects
    <2>2. on.pid = t
        BY <1>1, <1>6, <2>1 DEF SetQuota
    <2>3. PICK q \in {0, 1} : e = [pcb EXCEPT ![t].cpu = q]
        BY <1>1, <1>6, <2>1, <2>2 DEF SetQuota
    <2>4. [pcb[t] EXCEPT !.cpu = q] \in PcbType
        BY <1>1 DEF PcbType
    <2> QED
        BY <1>1, <1>2, <1>6, <2>3, <2>4 DEF PcbType
<1>7. CASE nr \in {"Attach", "Detach"} /\ e # pcb
    <2>1. e \in ptrace_syscall(t, on.pid, nr)
        BY <1>7 DEF Effects
    <2>2. PICK u \in Untrusted, x \in {t, 0} : e = [pcb EXCEPT ![u].tracer = x]
        BY <1>7, <2>1 DEF ptrace_syscall
    <2>3. [pcb[u] EXCEPT !.tracer = x] \in PcbType
        BY <1>1, <1>2 DEF PcbType
    <2> QED
        BY <1>1, <1>2, <1>7, <2>2, <2>3 DEF PcbType
<1>8. nr \notin {"UserExit", "Seccomp", "SetCpuQuota", "Attach", "Detach"} => e = pcb
    BY DEF Effects
<1> QED
    BY <1>3, <1>4, <1>5, <1>6, <1>7, <1>8

LEMMA SandboxJudges ==
    ASSUME NEW t \in Askers, NEW nr \in CallNames
    PROVE  /\ see_syscall_interceptor(t, nr) \in Answers
           /\ Protected(t, nr, syscall_to_res_type(nr)) => see_syscall_interceptor(t, nr).log # <<>>
<1> DEFINE on == syscall_to_res_type(nr)
           c == check_permission(t, on)
           last == IF nr \in Whitelist THEN Ok ELSE Logged("kill", "sandbox escape")
<1>1. last \in Checks
    BY AnswersMean, WordsMean
<1>2. CASE on = Unknown
    <2>1. see_syscall_interceptor(t, nr) = Then(Ok, last)
        BY <1>2 DEF see_syscall_interceptor
    <2>2. ~Protected(t, nr, Unknown)
        BY DEF Protected, Unknown, Memory, Thing
    <2> QED
        BY <1>1, <1>2, <2>1, <2>2, ThenKeeps, AnswersMean
<1>3. CASE on # Unknown
    <2>1. see_syscall_interceptor(t, nr) = Then(c, last)
        BY <1>3 DEF see_syscall_interceptor
    <2>2. on \in {File("none", FALSE), Memory("user"), Process(0), Config(FALSE), Unknown}
        BY Zenon DEF syscall_to_res_type
    <2>3. c \in Checks /\ (OfKernel(t, on) => Refuses(c))
        <3>1. CASE on \in {Config(FALSE), Memory("user"), Unknown}
            <4>1. on \in Things
                BY <3>1 DEF Things, MemoryThings, OtherThings
            <4> QED
                BY <4>1, Checked
        <3>2. CASE on = File("none", FALSE)
            <4>1. c = permission_check_file(t, "none", FALSE) /\ ~OfKernel(t, on)
                BY <3>2 DEF check_permission, File, Thing, OfKernel, Memory
            <4> QED
                BY <4>1, FileChecked
        <3>3. CASE on = Process(0)
            <4>1. c = permission_check_process(t, 0)
                BY <3>3 DEF check_permission, Process, Thing
            <4>2. OfKernel(t, on) => 0 \in Reserved /\ Level[t] > 1
                BY <3>3 DEF Process, Thing, OfKernel, Memory
            <4> QED
                BY <4>1, <4>2, ProcessChecked
        <3> QED
            BY <2>2, <3>1, <3>2, <3>3
    <2>4. Then(c, last) \in Checks /\ (OfKernel(t, on) => Then(c, last).log # <<>>)
        BY <1>1, <2>3, ThenKeeps DEF Refuses
    <2>5. Protected(t, nr, on) => OfKernel(t, on)
        BY DEF Protected, OfKernel
    <2> QED
        BY <2>1, <2>4, <2>5, AnswersMean
<1> QED
    BY <1>2, <1>3

LEMMA InitKeeps == GateInit => GateInv
<1> SUFFICES ASSUME GateInit PROVE GateInv
    OBVIOUS
<1>1. audit \in AuditType /\ audit.write_idx = 0 /\ refused = <<>>
    BY DEF GateInit, audit_init, AuditType, EntryType
<1>2. task_18d_init \in PcbType
    BY DEF task_18d_init, PcbType
<1>3. pcb \in [Askers -> PcbType] /\ owed = [t \in Askers |-> 0]
    BY <1>2 DEF GateInit
<1>4. refused \in Seq(Words \X Askers) /\ Len(refused) = 0
    BY <1>1
<1>5. Recorded(audit, refused)
    BY <1>1, <1>4 DEF Recorded
<1>6. ASSUME NEW t \in Askers PROVE owed[t] <= Cardinality(Mine(refused, t))
    <2>1. owed[t] = 0
        BY <1>3
    <2>2. Cardinality(Mine(refused, t)) \in Nat
        BY <1>4, MineFinite
    <2> QED
        BY <2>1, <2>2
<1> QED
    BY <1>1, <1>3, <1>4, <1>5, <1>6 DEF GateInv, GateTypeOK

LEMMA DispatchKeeps ==
    ASSUME GateInv, NEW t \in Askers, NEW nr \in CallNames, syscall_dispatcher(t, nr)
    PROVE  GateInv'
<1>1. t \in Untrusted
    BY DEF syscall_dispatcher
<1>2. PICK on \in About(nr), full \in BOOLEAN :
        LET by == seccomp_check(pcb[t].filter, nr)
            a == Judged(t, nr, on, full)
        IN  \/ Finish(t, nr, Unknown, Ok, Finished(t))
            \/ Finish(t, nr, Unknown, Ok, pcb)
            \/ Finish(t, nr, Unknown, a, pcb)
            \/ ~full /\ Finish(t, nr, on, a, pcb)
            \/ ~full /\ \E e \in Effects(t, nr, on) : Finish(t, nr, on, a, e)
    BY DEF syscall_dispatcher
<1>3. ~Protected(t, nr, Unknown)
    BY DEF Protected, Unknown, Memory, Thing
<1>4. Ok \in Answers /\ Finished(t) \in [Askers -> PcbType] /\ pcb \in [Askers -> PcbType]
    BY AnswersMean, FinishedType DEF GateInv, GateTypeOK
<1>5. /\ Judged(t, nr, on, full) \in Answers
      /\ ~full /\ Protected(t, nr, on) => Judged(t, nr, on, full).log # <<>>
    BY <1>1, Judges
<1>6. CASE Finish(t, nr, Unknown, Ok, Finished(t)) \/ Finish(t, nr, Unknown, Ok, pcb)
    BY <1>3, <1>4, <1>6, FinishKeeps
<1>7. CASE Finish(t, nr, Unknown, Judged(t, nr, on, full), pcb)
    BY <1>3, <1>4, <1>5, <1>7, FinishKeeps
<1>8. CASE ~full /\ Finish(t, nr, on, Judged(t, nr, on, full), pcb)
    BY <1>4, <1>5, <1>8, FinishKeeps
<1>9. ASSUME ~full, NEW e \in Effects(t, nr, on), Finish(t, nr, on, Judged(t, nr, on, full), e)
      PROVE  GateInv'
    <2>1. e \in [Askers -> PcbType]
        BY <1>1, <1>9, EffectsMean
    <2> QED
        BY <1>5, <1>9, <2>1, FinishKeeps
<1> QED
    BY <1>2, <1>6, <1>7, <1>8, <1>9

LEMMA SelftestKeeps ==
    ASSUME GateInv, NEW t \in Askers, NEW on \in Things, permission_selftest(t, on)
    PROVE  GateInv'
<1>1. Finish(t, "CheckAccess", on, check_permission(t, on), pcb)
    BY DEF permission_selftest
<1>2. check_permission(t, on) \in Answers /\ (OfKernel(t, on) => check_permission(t, on).log # <<>>)
    BY Checked, AnswersMean DEF Refuses
<1>3. Protected(t, "CheckAccess", on) => OfKernel(t, on)
    BY DEF Protected, OfKernel
<1>4. pcb \in [Askers -> PcbType]
    BY DEF GateInv, GateTypeOK
<1> QED
    BY <1>1, <1>2, <1>3, <1>4, FinishKeeps

LEMMA SandboxKeeps ==
    ASSUME GateInv, NEW t \in Askers, NEW nr \in CallNames, sandbox_test(t, nr)
    PROVE  GateInv'
<1> DEFINE a == see_syscall_interceptor(t, nr)
           new == IF a.rc = "kill" THEN Finished(t) ELSE pcb
<1>1. Finish(t, nr, syscall_to_res_type(nr), a, new)
    BY DEF sandbox_test
<1>2. new \in [Askers -> PcbType]
    BY FinishedType DEF GateInv, GateTypeOK
<1> QED
    BY <1>1, <1>2, SandboxJudges, FinishKeeps

LEMMA NextKeeps == GateInv /\ [GateNext]_gate_vars => GateInv'
<1>1. ASSUME GateInv, UNCHANGED gate_vars PROVE GateInv'
    BY <1>1 DEF gate_vars, GateInv, GateTypeOK, Recorded, Mine
<1> QED
    BY <1>1, DispatchKeeps, SelftestKeeps, SandboxKeeps DEF GateNext

THEOREM GateInvariant == GateSpec => []GateInv
<1> QED
    BY InitKeeps, NextKeeps, PTL DEF GateSpec

LEMMA GateInvGives == GateInv => RefusalsOnRecord
<1> SUFFICES ASSUME GateInv PROVE RefusalsOnRecord
    OBVIOUS
<1> DEFINE n == AUDIT_RING_SIZE
           r == refused
<1>1. /\ n \in Nat \ {0} /\ refused \in Seq(Words \X Askers) /\ Recorded(audit, refused) /\ audit \in AuditType
      /\ Len(refused) \in Nat
    BY GateAssumption DEF GateInv, GateTypeOK
<1>2. ASSUME NEW seq \in 0 .. Len(refused)
      PROVE  audit_peek(audit, seq) =
               IF seq < Len(refused) /\ seq + AUDIT_RING_SIZE >= Len(refused)
               THEN <<[seq |-> seq, what |-> refused[seq + 1][1], who |-> refused[seq + 1][2]]>> ELSE <<>>
    <2> DEFINE first == IF audit.write_idx > n THEN audit.write_idx - n ELSE 0
               e == audit.ring[seq % n]
    <2>1. audit.write_idx = Len(refused)
        BY <1>1 DEF Recorded
    <2>2. audit_peek(audit, seq) = IF seq >= first /\ seq < audit.write_idx /\ e.seq = seq THEN <<e>> ELSE <<>>
        BY DEF audit_peek
    <2>3. CASE seq < Len(refused) /\ seq + n >= Len(refused)
        <3>1. e = [seq |-> seq, what |-> refused[seq + 1][1], who |-> refused[seq + 1][2]]
            BY <1>1, <2>3 DEF Recorded
        <3>2. e.seq = seq
            BY <3>1
        <3>3. seq >= first /\ seq < audit.write_idx
            BY <1>1, <2>1, <2>3
        <3> QED
            BY <2>2, <2>3, <3>1, <3>2, <3>3, Zenon
    <2>4. CASE ~(seq < Len(refused) /\ seq + n >= Len(refused))
        <3>1. ~(seq >= first /\ seq < audit.write_idx)
            BY <1>1, <2>1, <2>4
        <3> QED
            BY <2>2, <2>4, <3>1, Zenon
    <2> QED
        BY <2>3, <2>4
<1>3. \A t \in Askers : owed[t] <= Cardinality({i \in DOMAIN refused : refused[i][2] = t})
    BY DEF GateInv, Mine
<1> QED
    BY <1>2, <1>3 DEF RefusalsOnRecord

\* audit.c, permission.c, syscall.c: for a ring of any size, any callers of any levels and
\* any number of refusals, the log read by number holds the last of them and nothing else,
\* and nobody came away from a check about the kernel without an entry.
THEOREM RefusalsKept == GateSpec => []RefusalsOnRecord
<1> QED
    BY GateInvariant, GateInvGives, PTL

\* A step leaves the filter and the quota that its program's filter holds back.
LEMMA StepHolds ==
    ASSUME GateInv, [GateNext]_gate_vars, NEW u \in Untrusted
    PROVE  /\ Withheld(u, "Seccomp") => pcb'[u].filter = pcb[u].filter
           /\ Withheld(u, "SetCpuQuota") => pcb'[u].cpu = pcb[u].cpu
<1>1. pcb \in [Askers -> PcbType] /\ Untrusted \subseteq Askers
    BY DEF GateInv, GateTypeOK, Askers
<1>2. ASSUME NEW t \in Askers PROVE Finished(t)[u].filter = pcb[u].filter /\ Finished(t)[u].cpu = pcb[u].cpu
    BY <1>1 DEF Finished, PcbType
<1>3. CASE pcb' = pcb
    BY <1>3
<1>4. ASSUME NEW t \in Askers, pcb' = Finished(t) PROVE pcb'[u].filter = pcb[u].filter /\ pcb'[u].cpu = pcb[u].cpu
    BY <1>2, <1>4
<1>5. ASSUME NEW t \in Untrusted, NEW nr \in CallNames, seccomp_check(pcb[t].filter, nr) = "pass",
             NEW on, NEW e \in Effects(t, nr, on), pcb' = e
      PROVE  /\ Withheld(u, "Seccomp") => pcb'[u].filter = pcb[u].filter
             /\ Withheld(u, "SetCpuQuota") => pcb'[u].cpu = pcb[u].cpu
    <2>1. ~Withheld(t, nr)
        BY <1>5 DEF Withheld, seccomp_check
    <2> QED
        BY <1>5, <2>1, EffectsMean
<1>6. ASSUME NEW t \in Askers, NEW nr \in CallNames, syscall_dispatcher(t, nr)
      PROVE  \/ pcb' = pcb \/ pcb' = Finished(t)
             \/ /\ t \in Untrusted /\ seccomp_check(pcb[t].filter, nr) = "pass"
                /\ \E on \in About(nr) : \E e \in Effects(t, nr, on) : pcb' = e
    BY <1>6 DEF syscall_dispatcher, Finish
<1>7. ASSUME NEW t \in Askers, NEW on \in Things, permission_selftest(t, on) PROVE pcb' = pcb
    BY <1>7 DEF permission_selftest, Finish
<1>8. ASSUME NEW t \in Askers, NEW nr \in CallNames, sandbox_test(t, nr) PROVE pcb' = pcb \/ pcb' = Finished(t)
    BY <1>8 DEF sandbox_test, Finish
<1>9. UNCHANGED gate_vars => pcb' = pcb
    BY DEF gate_vars
<1> QED
    BY <1>3, <1>4, <1>5, <1>6, <1>7, <1>8, <1>9 DEF GateNext

\* seccomp.c, syscall.c: for any filters and programs, a filter that holds back its own
\* removal is never removed or replaced, and a quota that its program may not set is not
\* set by others either.
THEOREM FiltersHold == GateSpec => FilterHolds
<1>1. GateInv /\ [GateNext]_gate_vars =>
        [ \A t \in Untrusted :
            /\ Withheld(t, "Seccomp") => pcb'[t].filter = pcb[t].filter
            /\ Withheld(t, "SetCpuQuota") => pcb'[t].cpu = pcb[t].cpu ]_gate_vars
    BY StepHolds
<1> QED
    BY <1>1, GateInvariant, PTL DEF GateSpec, FilterHolds
=============================================================================
