----------------------------- MODULE FutexProofs -----------------------------
(***************************************************************************)
(* For every set of threads, buckets and time-outs: a wait node is in the  *)
(* bucket of its address exactly while its thread sleeps, unless the       *)
(* out-of-memory killer takes a sleeping thread; and the lock word counts  *)
(* the owners of the mutex.                                                *)
(***************************************************************************)
EXTENDS Futex, ListsProofs

Steps == {"idle", "cas", "add", "lockwait", "sub", "cs", "load", "wake", "condwait", "condwake",
          "resume"}

Types ==
    /\ mem \in [lock : {0, 1}, waiters : Int, seq : Int]
    /\ g_buckets \in [Buckets -> Seq(Threads)]
    /\ node \in [Threads -> [uaddr : Addrs, left : Nat]]
    /\ state \in [Threads -> {"ready", "blocked", "dead", "freed"}]
    /\ pc \in [Threads -> Steps]
    /\ call \in [Threads -> [count : Nat, back : Steps]]

\* The node of t is in bucket b.
On(b, t) == \E i \in DOMAIN g_buckets[b] : g_buckets[b][i] = t
Once(s) == \A i, j \in DOMAIN s : s[i] = s[j] => i = j

Linked ==
    \A b \in Buckets :
        /\ Once(g_buckets[b])
        /\ \A t \in Threads : On(b, t) <=> state[t] = "blocked" /\ Bucket[node[t].uaddr] = b

\* A wake ends where its caller was: in the mutex only if it was there before.
Returns ==
    \A t \in Threads :
        /\ pc[t] = "wake" => call[t].back \in {"idle", "condwait"}
        /\ pc[t] = "condwake" => call[t].back \in {"idle", "cs"}

\* The word is 0 and there is no owner, or it is 1 and there is one.
OneOwner ==
    \/ mem.lock = 0 /\ Owners = {}
    \/ mem.lock = 1 /\ \E t \in Threads : Owners = {t}

IInv == Types /\ Returns /\ OneOwner /\ (~KillSleeping => Linked)

-----------------------------------------------------------------------------
(* Buckets *)

\* What an unlinking leaves in a bucket.
LEMMA Unlinked ==
    ASSUME Types, NEW b \in Buckets, NEW T
    PROVE  /\ Without(g_buckets[b], T) \in Seq(Threads)
           /\ \A t : (\E i \in DOMAIN Without(g_buckets[b], T) : Without(g_buckets[b], T)[i] = t)
                        <=> t \notin T /\ On(b, t)
           /\ Once(g_buckets[b]) => Once(Without(g_buckets[b], T))
<1>1. g_buckets[b] \in Seq(Threads)
    BY DEF Types
<1> QED
    BY <1>1, WithoutFacts DEF On, Once

\* Nodes that are linked are unlinked, and their threads made ready, in one step.
LEMMA WakeKeepsLinked ==
    ASSUME Types, Linked, NEW E,
           \A b \in Buckets : Once(g_buckets'[b]),
           \A b \in Buckets, t \in Threads : On(b, t)' <=> On(b, t) /\ t \notin E[b],
           \A b \in Buckets, t \in Threads : t \in E[b] => On(b, t),
           \A t \in Threads :
                state'[t] = IF (\E b \in Buckets : t \in E[b]) /\ state[t] = "blocked"
                            THEN "ready" ELSE state[t],
           \A t \in Threads : node'[t].uaddr = node[t].uaddr
    PROVE  Linked'
<1> SUFFICES ASSUME NEW b \in Buckets, NEW t \in Threads
             PROVE  On(b, t)' <=> state'[t] = "blocked" /\ Bucket[node'[t].uaddr] = b
    BY DEF Linked
<1>1. \A c \in Buckets : On(c, t) => state[t] = "blocked" /\ Bucket[node[t].uaddr] = c
    BY DEF Linked
<1>2. CASE \E c \in Buckets : t \in E[c]
    BY <1>1, <1>2
<1>3. CASE ~ \E c \in Buckets : t \in E[c]
    BY <1>3 DEF Linked
<1> QED
    BY <1>2, <1>3

\* futex_wake of a thread that runs.
LEMMA futex_wakeLinked ==
    ASSUME Types, NEW t \in Threads, NEW a \in Addrs, NEW n, futex_wake(t, a, n)
    PROVE  /\ g_buckets' \in [Buckets -> Seq(Threads)]
           /\ state' \in [Threads -> {"ready", "blocked", "dead", "freed"}]
           /\ Linked /\ node' = node => Linked'
<1> DEFINE c == Bucket[a]
           others == {u \in Threads : node[u].uaddr # a \/ pid(u) # pid(t)}
           mine == Without(g_buckets[c], others)
           chosen == {mine[i] : i \in {j \in DOMAIN mine : j <= n}}
           E == [b \in Buckets |-> IF b = c THEN chosen ELSE {}]
<1>1. c \in Buckets
    BY FutexAssumption
<1>2. g_buckets' = [g_buckets EXCEPT ![c] = Without(@, chosen)] /\ state' = Enqueue(chosen)
    BY DEF futex_wake, Unlink
<1>3. \A u \in chosen : On(c, u)
    <2> HIDE DEF c, others
    <2>1. \A u : (\E i \in DOMAIN mine : mine[i] = u) => On(c, u)
        BY <1>1, Unlinked
    <2>2. \A u \in chosen : \E i \in DOMAIN mine : mine[i] = u
        OBVIOUS
    <2> QED
        BY <2>1, <2>2
<1> HIDE DEF chosen, c
<1>4. /\ Without(g_buckets[c], chosen) \in Seq(Threads)
      /\ \A u : (\E i \in DOMAIN Without(g_buckets[c], chosen) :
                        Without(g_buckets[c], chosen)[i] = u) <=> u \notin chosen /\ On(c, u)
      /\ Once(g_buckets[c]) => Once(Without(g_buckets[c], chosen))
    BY <1>1, Unlinked
<1>5. g_buckets' \in [Buckets -> Seq(Threads)]
    BY <1>1, <1>2, <1>4 DEF Types
<1>6. state' \in [Threads -> {"ready", "blocked", "dead", "freed"}]
    BY <1>2 DEF Enqueue, Types
<1>7. ASSUME Linked, node' = node PROVE Linked'
    <2>1. \A b \in Buckets : g_buckets'[b] = IF b = c THEN Without(g_buckets[c], chosen)
                                                    ELSE g_buckets[b]
        BY <1>1, <1>2 DEF Types
    <2>2. \A b \in Buckets : Once(g_buckets'[b])
        BY <1>4, <1>7, <2>1 DEF Linked
    <2>3. \A b \in Buckets, u \in Threads : On(b, u)' <=> On(b, u) /\ u \notin E[b]
        BY <1>4, <2>1 DEF On
    <2>4. \A b \in Buckets, u \in Threads : u \in E[b] => On(b, u)
        BY <1>3
    <2>5. \A u \in Threads : (\E b \in Buckets : u \in E[b]) <=> u \in chosen
        BY <1>1
    <2>6. \A u \in Threads : state'[u] = IF (\E b \in Buckets : u \in E[b]) /\ state[u] = "blocked"
                                         THEN "ready" ELSE state[u]
        BY <1>2, <2>5 DEF Enqueue
    <2> HIDE DEF E
    <2> QED
        BY <1>7, <2>2, <2>3, <2>4, <2>6, WakeKeepsLinked
<1> QED
    BY <1>5, <1>6, <1>7

\* futex_wait links the node of a thread that runs, and so had none linked.
LEMMA futex_waitLinked ==
    ASSUME Types, NEW t \in Threads, state[t] = "ready", NEW a \in Addrs, NEW x, NEW p \in Steps,
           futex_wait(t, a, x, p)
    PROVE  /\ g_buckets' \in [Buckets -> Seq(Threads)]
           /\ node' \in [Threads -> [uaddr : Addrs, left : Nat]]
           /\ state' \in [Threads -> {"ready", "blocked", "dead", "freed"}]
           /\ pc' \in [Threads -> Steps]
           /\ pc' = [pc EXCEPT ![t] = p] \/ pc' = [pc EXCEPT ![t] = "resume"]
           /\ Linked => Linked'
<1> DEFINE b == Bucket[a]
<1>1. b \in Buckets
    BY FutexAssumption
<1>2. CASE mem[a] # x
    <2>1. pc' = [pc EXCEPT ![t] = p] /\ UNCHANGED <<g_buckets, node, state>>
        BY <1>2 DEF futex_wait, Goto
    <2> QED
        BY <2>1 DEF Types, Linked, On, Once
<1>3. CASE mem[a] = x
    <2>1. /\ g_buckets' = [g_buckets EXCEPT ![b] = <<t>> \o @]
          /\ node' = [node EXCEPT ![t] = [uaddr |-> a, left |-> Timeout]]
          /\ state' = [state EXCEPT ![t] = "blocked"]
          /\ pc' = [pc EXCEPT ![t] = "resume"]
        BY <1>3 DEF futex_wait, Goto
    <2> DEFINE s == g_buckets[b]
               l == <<t>> \o s
    <2>2. s \in Seq(Threads)
        BY <1>1 DEF Types
    <2>3. /\ l \in Seq(Threads) /\ Len(l) = Len(s) + 1 /\ l[1] = t
          /\ \A i \in 1 .. Len(s) : l[i + 1] = s[i]
        BY <2>2
    <2>4. Timeout \in Nat
        BY FutexAssumption
    <2>5. /\ g_buckets' \in [Buckets -> Seq(Threads)]
          /\ node' \in [Threads -> [uaddr : Addrs, left : Nat]]
          /\ state' \in [Threads -> {"ready", "blocked", "dead", "freed"}]
          /\ pc' \in [Threads -> Steps]
        BY <1>1, <2>1, <2>3, <2>4 DEF Types, Steps
    <2>6. ASSUME Linked PROVE Linked'
        <3>0. DOMAIN l = 1 .. Len(s) + 1 /\ DOMAIN s = 1 .. Len(s) /\ Len(s) \in Nat
            BY <2>2, <2>3
        <3>1. \A i \in DOMAIN s : s[i] # t
            BY <1>1, <2>6 DEF Linked, On
        <3>2. Once(s)
            BY <1>1, <2>6 DEF Linked
        <3> HIDE DEF l
        <3>3. \A i \in 2 .. Len(s) + 1 : i - 1 \in DOMAIN s /\ l[i] = s[i - 1]
            BY <2>3, <3>0
        <3>4. Once(l)
            <4> SUFFICES ASSUME NEW i \in DOMAIN l, NEW j \in DOMAIN l, l[i] = l[j] PROVE i = j
                BY DEF Once
            <4>1. CASE i = 1 /\ j = 1
                BY <4>1
            <4>2. CASE i # 1 /\ j # 1
                <5>1. i \in 2 .. Len(s) + 1 /\ j \in 2 .. Len(s) + 1
                    BY <3>0, <4>2
                <5>2. i - 1 = j - 1
                    BY <3>2, <3>3, <5>1 DEF Once
                <5> QED
                    BY <3>0, <5>2
            <4>3. CASE i = 1 /\ j # 1
                BY <2>3, <3>0, <3>1, <3>3, <4>3
            <4>4. CASE i # 1 /\ j = 1
                BY <2>3, <3>0, <3>1, <3>3, <4>4
            <4> QED
                BY <4>1, <4>2, <4>3, <4>4
        <3>5. \A u : (\E i \in DOMAIN l : l[i] = u) <=> u = t \/ On(b, u)
            <4> SUFFICES ASSUME NEW u
                         PROVE  (\E i \in DOMAIN l : l[i] = u) <=> u = t \/ On(b, u)
                OBVIOUS
            <4>1. ASSUME NEW i \in DOMAIN l, l[i] = u PROVE u = t \/ On(b, u)
                <5>1. CASE i = 1
                    BY <2>3, <4>1, <5>1
                <5>2. CASE i # 1
                    <6>1. i \in 2 .. Len(s) + 1
                        BY <3>0, <5>2
                    <6>2. i - 1 \in DOMAIN s /\ s[i - 1] = u
                        BY <3>3, <4>1, <6>1
                    <6> QED
                        BY <6>2 DEF On
                <5> QED
                    BY <5>1, <5>2
            <4>2. ASSUME u = t PROVE \E i \in DOMAIN l : l[i] = u
                BY <2>3, <3>0, <4>2
            <4>3. ASSUME NEW i \in DOMAIN s, s[i] = u PROVE \E j \in DOMAIN l : l[j] = u
                BY <2>3, <3>0, <4>3
            <4> QED
                BY <4>1, <4>2, <4>3 DEF On
        <3>6. \A c \in Buckets : g_buckets'[c] = IF c = b THEN l ELSE g_buckets[c]
            BY <1>1, <2>1 DEF Types, l
        <3> HIDE DEF s, b
        <3>7. ASSUME NEW c \in Buckets, NEW u \in Threads
              PROVE  On(c, u)' <=> state'[u] = "blocked" /\ Bucket[node'[u].uaddr] = c
            <4>1. CASE u = t
                <5>1. state'[u] = "blocked" /\ Bucket[node'[u].uaddr] = b
                    BY <2>1, <4>1 DEF Types, b
                <5>2. ~On(c, u) \/ c = b
                    BY <2>6, <4>1 DEF Linked
                <5> QED
                    BY <3>5, <3>6, <4>1, <5>1, <5>2 DEF On
            <4>2. CASE u # t
                <5>1. state'[u] = state[u] /\ node'[u] = node[u]
                    BY <2>1, <4>2 DEF Types
                <5>2. On(c, u)' <=> On(c, u)
                    BY <3>5, <3>6, <4>2 DEF On
                <5> QED
                    BY <2>6, <5>1, <5>2 DEF Linked
            <4> QED
                BY <4>1, <4>2
        <3>8. \A c \in Buckets : Once(g_buckets'[c])
            BY <2>6, <3>4, <3>6 DEF Linked
        <3> QED
            BY <3>7, <3>8 DEF Linked
    <2> QED
        BY <2>1, <2>5, <2>6
<1> QED
    BY <1>2, <1>3

\* futex_tick ends only waits that are linked, whether or not it gets its batch.
LEMMA EndedOn ==
    ASSUME Types, NEW left \in [Threads -> Nat], NEW b \in Buckets, NEW got
    PROVE  \A t \in Ended(left, b, got) : On(b, t)
<1> DEFINE running == {t \in Threads : left[t] > 0}
           w == Without(g_buckets[b], running)
<1>1. \A t \in Expired(left, b) : On(b, t)
    BY DEF Expired, ToSet, On
<1>2. ASSUME Expired(left, b) # {} PROVE On(b, FirstExpired(left, b))
    <2>1. PICK t \in Expired(left, b) : On(b, t)
        BY <1>1, <1>2
    <2>2. t \notin running
        BY <2>1 DEF Expired
    <2>3. Head(w) = FirstExpired(left, b)
        BY DEF FirstExpired
    <2> HIDE DEF running
    <2>4. w \in Seq(Threads) /\ \A u : (\E i \in DOMAIN w : w[i] = u) <=> u \notin running /\ On(b, u)
        BY Unlinked
    <2> HIDE DEF w
    <2>5. PICK i \in DOMAIN w : w[i] = t
        BY <2>1, <2>2, <2>4
    <2>6. 1 \in DOMAIN w /\ Head(w) = w[1]
        BY <2>4, <2>5
    <2> QED
        BY <2>3, <2>4, <2>6
<1> QED
    BY <1>1, <1>2 DEF Ended

LEMMA futex_tickLinked ==
    ASSUME Types, NEW allocated \in [Buckets -> BOOLEAN], futex_tick(allocated)
    PROVE  /\ g_buckets' \in [Buckets -> Seq(Threads)]
           /\ node' \in [Threads -> [uaddr : Addrs, left : Nat]]
           /\ state' \in [Threads -> {"ready", "blocked", "dead", "freed"}]
           /\ Linked => Linked'
<1> DEFINE left == [t \in Threads |-> IF node[t].left > 0 THEN node[t].left - 1 ELSE 0]
           E == [b \in Buckets |-> Ended(left, b, allocated[b])]
<1>1. /\ node' = [t \in Threads |-> [node[t] EXCEPT !.left = left[t]]]
      /\ g_buckets' = [b \in Buckets |-> Without(g_buckets[b], E[b])]
      /\ state' = Enqueue(UNION {E[b] : b \in Buckets})
    BY DEF futex_tick
<1>2. left \in [Threads -> Nat]
    BY DEF Types
<1>3. \A b \in Buckets : \A t \in E[b] : On(b, t)
    <2> HIDE DEF left
    <2> QED
        BY <1>2, EndedOn
<1> HIDE DEF left, E
<1>4. \A t \in Threads : node'[t].uaddr = node[t].uaddr
                          /\ node'[t] \in [uaddr : Addrs, left : Nat]
    BY <1>1, <1>2 DEF Types
<1>5. \A b \in Buckets :
        /\ g_buckets'[b] \in Seq(Threads)
        /\ \A t : On(b, t)' <=> t \notin E[b] /\ On(b, t)
        /\ Once(g_buckets[b]) => Once(g_buckets'[b])
    <2> SUFFICES ASSUME NEW b \in Buckets
                 PROVE  /\ g_buckets'[b] \in Seq(Threads)
                        /\ \A t : On(b, t)' <=> t \notin E[b] /\ On(b, t)
                        /\ Once(g_buckets[b]) => Once(g_buckets'[b])
        OBVIOUS
    <2>1. g_buckets'[b] = Without(g_buckets[b], E[b])
        BY <1>1
    <2>2. \A t : On(b, t)' <=> \E i \in DOMAIN g_buckets'[b] : g_buckets'[b][i] = t
        BY DEF On
    <2>3. /\ Without(g_buckets[b], E[b]) \in Seq(Threads)
          /\ \A t : (\E i \in DOMAIN Without(g_buckets[b], E[b]) :
                        Without(g_buckets[b], E[b])[i] = t) <=> t \notin E[b] /\ On(b, t)
          /\ Once(g_buckets[b]) => Once(Without(g_buckets[b], E[b]))
        BY Unlinked
    <2> QED
        BY <2>1, <2>2, <2>3
<1>6. g_buckets' \in [Buckets -> Seq(Threads)]
    BY <1>1, <1>5
<1>7. node' \in [Threads -> [uaddr : Addrs, left : Nat]]
    BY <1>1, <1>4
<1>8. \A t \in Threads :
        state'[t] = IF (\E b \in Buckets : t \in E[b]) /\ state[t] = "blocked"
                    THEN "ready" ELSE state[t]
    BY <1>1 DEF Enqueue
<1>9. state' \in [Threads -> {"ready", "blocked", "dead", "freed"}]
    BY <1>1 DEF Enqueue, Types
<1>10. ASSUME Linked PROVE Linked'
    <2>1. \A b \in Buckets : Once(g_buckets'[b])
        BY <1>5, <1>10 DEF Linked
    <2>2. \A b \in Buckets, t \in Threads : t \in E[b] => On(b, t)
        BY <1>3
    <2>3. \A b \in Buckets, t \in Threads : On(b, t)' <=> On(b, t) /\ t \notin E[b]
        BY <1>5
    <2>4. \A t \in Threads : node'[t].uaddr = node[t].uaddr
        BY <1>4
    <2> QED
        BY <1>8, <1>10, <2>1, <2>2, <2>3, <2>4, WakeKeepsLinked
<1> QED
    BY <1>6, <1>7, <1>9, <1>10

-----------------------------------------------------------------------------
(* The mutex *)

Owns(t) == pc[t] = "cs" \/ (pc[t] = "condwake" /\ call[t].back = "cs")

\* A step that leaves the word alone and every thread in or out of the mutex.
LEMMA SameOwners ==
    ASSUME OneOwner, mem'.lock = mem.lock, \A u \in Threads : Owns(u)' <=> Owns(u)
    PROVE  OneOwner'
<1>1. Owners = {u \in Threads : Owns(u)} /\ Owners' = {u \in Threads : Owns(u)'}
    BY DEF Owners, Owns
<1>2. Owners' = Owners
    BY <1>1
<1> QED
    BY <1>2 DEF OneOwner

LEMMA MemWaiters ==
    ASSUME Types
    PROVE  \A w \in {mem.waiters - 1, mem.waiters + 1} :
                /\ [mem EXCEPT !.waiters = w].lock = mem.lock
                /\ [mem EXCEPT !.waiters = w] \in [lock : {0, 1}, waiters : Int, seq : Int]
<1>1. mem \in [lock : {0, 1}, waiters : Int, seq : Int]
    BY DEF Types
<1>2. mem.waiters - 1 \in Int /\ mem.waiters + 1 \in Int
    BY <1>1
<1>3. ASSUME NEW w \in Int
      PROVE  /\ [mem EXCEPT !.waiters = w].lock = mem.lock
             /\ [mem EXCEPT !.waiters = w] \in [lock : {0, 1}, waiters : Int, seq : Int]
    BY <1>1
<1> QED
    BY <1>2, <1>3

\* A step of one thread that neither enters nor leaves the mutex.
LEMMA OneStep ==
    ASSUME Types, Returns, OneOwner, NEW t \in Threads, NEW p \in Steps,
           pc' = [pc EXCEPT ![t] = p], call' = call, mem'.lock = mem.lock,
           p \notin {"wake", "condwake"},
           pc[t] # "condwake", pc[t] = "cs" <=> p = "cs"
    PROVE  pc' \in [Threads -> Steps] /\ Returns' /\ OneOwner'
<1>1. \A u \in Threads : pc'[u] = IF u = t THEN p ELSE pc[u]
    BY DEF Types
<1>2. \A u \in Threads : Owns(u)' <=> Owns(u)
    BY <1>1 DEF Owns
<1>3. OneOwner'
    BY <1>2, SameOwners
<1>4. Returns'
    BY <1>1 DEF Returns
<1> QED
    BY <1>3, <1>4 DEF Types

-----------------------------------------------------------------------------
(* The invariant *)

LEMMA InitIInv == Init => IInv
<1> SUFFICES ASSUME Init PROVE IInv
    OBVIOUS
<1>1. Types
    BY FutexAssumption DEF Init, Types, Steps, NoNode, Idle, Addrs
<1>2. Returns
    BY DEF Init, Returns
<1>3. OneOwner
    BY DEF Init, OneOwner, Owners
<1>4. Linked
    <2>1. \A b \in Buckets : g_buckets[b] = <<>>
        BY DEF Init
    <2>2. \A b \in Buckets : DOMAIN g_buckets[b] = {}
        BY <2>1
    <2> QED
        BY <2>2 DEF Init, Linked, Once, On
<1> QED
    BY <1>1, <1>2, <1>3, <1>4 DEF IInv

\* A step that touches neither the buckets nor what the nodes belong to.
LEMMA SameLinked ==
    ASSUME UNCHANGED <<g_buckets, node, state>>
    PROVE  Linked => Linked'
BY DEF Linked, Once, On

LEMMA CasKeeps ==
    ASSUME IInv, NEW t \in Threads, Cas(t)
    PROVE  IInv'
<1>1. Linked => Linked'
    BY SameLinked DEF Cas
<1>2. CASE mem.lock = 0
    <2>1. mem' = [mem EXCEPT !.lock = 1] /\ pc' = [pc EXCEPT ![t] = "cs"] /\ pc[t] \in {"idle", "cas"}
        BY <1>2 DEF Cas, Goto, At
    <2>2. Owners = {}
        BY <1>2 DEF IInv, OneOwner
    <2>3. \A u \in Threads : ~Owns(u)
        BY <2>2 DEF Owners, Owns
    <2>4. \A u \in Threads : pc'[u] = IF u = t THEN "cs" ELSE pc[u]
        BY <2>1 DEF IInv, Types
    <2>5. \A u \in Threads : Owns(u)' <=> u = t
        BY <2>3, <2>4 DEF Owns, Cas
    <2>6. Owners' = {t}
        <3>1. Owners' = {u \in Threads : Owns(u)'}
            BY DEF Owners, Owns
        <3> QED
            BY <2>5, <3>1
    <2>7. mem'.lock = 1 /\ mem' \in [lock : {0, 1}, waiters : Int, seq : Int]
        BY <2>1 DEF IInv, Types
    <2>8. OneOwner'
        BY <2>6, <2>7 DEF OneOwner
    <2>9. Returns'
        BY <2>4 DEF IInv, Returns, Cas
    <2>10. Types'
        BY <2>1, <2>7 DEF IInv, Types, Cas, Steps
    <2> QED
        BY <1>1, <2>8, <2>9, <2>10 DEF IInv
<1>3. CASE mem.lock # 0
    <2>1. mem' = mem /\ pc' = [pc EXCEPT ![t] = "add"] /\ pc[t] \in {"idle", "cas"} /\ call' = call
        BY <1>3 DEF Cas, Goto, At
    <2>2. pc' \in [Threads -> Steps] /\ Returns' /\ OneOwner'
        BY <2>1, OneStep DEF IInv, Steps
    <2>3. Types'
        BY <2>1, <2>2 DEF IInv, Types, Cas
    <2> QED
        BY <1>1, <2>2, <2>3 DEF IInv
<1> QED
    BY <1>2, <1>3

LEMMA AddWaiterKeeps ==
    ASSUME IInv, NEW t \in Threads, AddWaiter(t)
    PROVE  IInv'
<1>1. /\ mem' = [mem EXCEPT !.waiters = mem.waiters + 1] /\ pc' = [pc EXCEPT ![t] = "lockwait"]
      /\ pc[t] = "add" /\ UNCHANGED <<g_buckets, node, state, call>>
    BY DEF AddWaiter, Goto, At
<1>2. mem'.lock = mem.lock /\ mem' \in [lock : {0, 1}, waiters : Int, seq : Int]
    BY <1>1, MemWaiters DEF IInv
<1>3. pc' \in [Threads -> Steps] /\ Returns' /\ OneOwner'
    BY <1>1, <1>2, OneStep DEF IInv, Steps
<1>4. Types'
    BY <1>1, <1>2, <1>3 DEF IInv, Types
<1> QED
    BY <1>1, <1>3, <1>4, SameLinked DEF IInv

LEMMA SubWaiterKeeps ==
    ASSUME IInv, NEW t \in Threads, SubWaiter(t)
    PROVE  IInv'
<1>1. /\ mem' = [mem EXCEPT !.waiters = mem.waiters - 1] /\ pc' = [pc EXCEPT ![t] = "cas"]
      /\ pc[t] = "sub" /\ UNCHANGED <<g_buckets, node, state, call>>
    BY DEF SubWaiter, Goto, At
<1>2. mem'.lock = mem.lock /\ mem' \in [lock : {0, 1}, waiters : Int, seq : Int]
    BY <1>1, MemWaiters DEF IInv
<1>3. pc' \in [Threads -> Steps] /\ Returns' /\ OneOwner'
    BY <1>1, <1>2, OneStep DEF IInv, Steps
<1>4. Types'
    BY <1>1, <1>2, <1>3 DEF IInv, Types
<1> QED
    BY <1>1, <1>3, <1>4, SameLinked DEF IInv

LEMMA LockWaitKeeps ==
    ASSUME IInv, NEW t \in Threads, LockWait(t)
    PROVE  IInv'
<1>1. futex_wait(t, "lock", 1, "sub") /\ state[t] = "ready" /\ pc[t] = "lockwait"
    BY DEF LockWait, At
<1>2. "lock" \in Addrs /\ "sub" \in Steps /\ "resume" \in Steps
    BY DEF Addrs, Steps
<1>3. /\ g_buckets' \in [Buckets -> Seq(Threads)]
      /\ node' \in [Threads -> [uaddr : Addrs, left : Nat]]
      /\ state' \in [Threads -> {"ready", "blocked", "dead", "freed"}]
      /\ pc' \in [Threads -> Steps]
      /\ pc' = [pc EXCEPT ![t] = "sub"] \/ pc' = [pc EXCEPT ![t] = "resume"]
      /\ Linked => Linked'
    BY <1>1, <1>2, futex_waitLinked DEF IInv
<1>4. mem' = mem /\ call' = call
    BY DEF LockWait
<1>5. Returns' /\ OneOwner'
    BY <1>1, <1>2, <1>3, <1>4, OneStep DEF IInv
<1>6. Types'
    BY <1>3, <1>4 DEF IInv, Types
<1> QED
    BY <1>3, <1>5, <1>6 DEF IInv

LEMMA CondSleepKeeps ==
    ASSUME IInv, NEW t \in Threads, CondSleep(t)
    PROVE  IInv'
<1>1. futex_wait(t, "seq", snap[t], "cas") /\ state[t] = "ready" /\ pc[t] = "condwait"
    BY DEF CondSleep, At
<1>2. "seq" \in Addrs /\ "cas" \in Steps /\ "resume" \in Steps
    BY DEF Addrs, Steps
<1>3. /\ g_buckets' \in [Buckets -> Seq(Threads)]
      /\ node' \in [Threads -> [uaddr : Addrs, left : Nat]]
      /\ state' \in [Threads -> {"ready", "blocked", "dead", "freed"}]
      /\ pc' \in [Threads -> Steps]
      /\ pc' = [pc EXCEPT ![t] = "cas"] \/ pc' = [pc EXCEPT ![t] = "resume"]
      /\ Linked => Linked'
    BY <1>1, <1>2, futex_waitLinked DEF IInv
<1>4. mem' = mem /\ call' = call
    BY DEF CondSleep
<1>5. Returns' /\ OneOwner'
    BY <1>1, <1>2, <1>3, <1>4, OneStep DEF IInv
<1>6. Types'
    BY <1>3, <1>4 DEF IInv, Types
<1> QED
    BY <1>3, <1>5, <1>6 DEF IInv

LEMMA UnlockKeeps ==
    ASSUME IInv, NEW t \in Threads, Unlock(t)
    PROVE  IInv'
<1>1. /\ mem' = [mem EXCEPT !.lock = 0] /\ pc' = [pc EXCEPT ![t] = "load"]
      /\ pc[t] = "cs" /\ UNCHANGED <<g_buckets, node, state, call>>
    BY DEF Unlock, Goto, At
<1>2. mem'.lock = 0 /\ mem' \in [lock : {0, 1}, waiters : Int, seq : Int]
    BY <1>1 DEF IInv, Types
<1>3. \A u \in Threads : pc'[u] = IF u = t THEN "load" ELSE pc[u]
    BY <1>1 DEF IInv, Types
<1>4. \A u \in Threads : Owns(u) => u = t
    <2>1. t \in Owners
        BY <1>1 DEF Owners
    <2>2. Owners = {t}
        BY <2>1 DEF IInv, OneOwner
    <2> QED
        BY <2>2 DEF Owners, Owns
<1>5. \A u \in Threads : ~Owns(u)'
    BY <1>1, <1>3, <1>4 DEF Owns
<1>6. Owners' = {}
    BY <1>5 DEF Owners, Owns
<1>7. OneOwner'
    BY <1>2, <1>6 DEF OneOwner
<1>8. Returns'
    BY <1>1, <1>3 DEF IInv, Returns
<1>9. Types'
    BY <1>1, <1>2 DEF IInv, Types, Steps
<1> QED
    BY <1>1, <1>7, <1>8, <1>9, SameLinked DEF IInv

LEMMA LoadWaitersKeeps ==
    ASSUME IInv, NEW t \in Threads, LoadWaiters(t)
    PROVE  IInv'
<1> DEFINE back == AfterUnlock(t)
<1>0. back \in {"idle", "condwait"}
    BY DEF AfterUnlock
<1>1. pc[t] = "load" /\ UNCHANGED <<mem, g_buckets, node, state>>
    BY DEF LoadWaiters, At
<1>2. CASE mem.waiters > 0
    <2>1. pc' = [pc EXCEPT ![t] = "wake"] /\ call' = [call EXCEPT ![t] = [count |-> 1, back |-> back]]
        BY <1>2 DEF LoadWaiters, Goto
    <2>2. \A u \in Threads : /\ pc'[u] = IF u = t THEN "wake" ELSE pc[u]
                             /\ call'[u] = IF u = t THEN [count |-> 1, back |-> back] ELSE call[u]
        BY <2>1 DEF IInv, Types
    <2> HIDE DEF back
    <2>3. Returns'
        BY <1>0, <2>2 DEF IInv, Returns
    <2>4. \A u \in Threads : Owns(u)' <=> Owns(u)
        BY <1>1, <2>2 DEF Owns
    <2>5. OneOwner'
        BY <1>1, <2>4, SameOwners DEF IInv
    <2>6. back \in Steps /\ "wake" \in Steps
        BY <1>0 DEF Steps
    <2>7. Types'
        BY <1>1, <2>1, <2>6 DEF IInv, Types
    <2> QED
        BY <1>1, <2>3, <2>5, <2>7, SameLinked DEF IInv
<1>3. CASE ~(mem.waiters > 0)
    <2>1. pc' = [pc EXCEPT ![t] = back] /\ call' = call
        BY <1>3 DEF LoadWaiters, Goto
    <2> HIDE DEF back
    <2>2. back \in Steps /\ back \notin {"wake", "condwake", "cs"}
        BY <1>0 DEF Steps
    <2>3. pc' \in [Threads -> Steps] /\ Returns' /\ OneOwner'
        BY <1>1, <2>1, <2>2, OneStep DEF IInv
    <2>4. Types'
        BY <1>1, <2>1, <2>3 DEF IInv, Types
    <2> QED
        BY <1>1, <2>3, <2>4, SameLinked DEF IInv
<1> QED
    BY <1>2, <1>3

\* The end of a wake: the thread goes on where the library returns to.
LEMMA BackFrom ==
    ASSUME Types, Returns, OneOwner, NEW t \in Threads, pc[t] \in {"wake", "condwake"},
           pc' = [pc EXCEPT ![t] = call[t].back], call' = [call EXCEPT ![t] = Idle], mem' = mem
    PROVE  /\ pc' \in [Threads -> Steps] /\ call' \in [Threads -> [count : Nat, back : Steps]]
           /\ Returns' /\ OneOwner'
<1>1. call[t].back \in {"idle", "condwait", "cs"} /\ call[t].back \in Steps
      /\ (pc[t] = "wake" => call[t].back # "cs")
    BY DEF Returns, Types
<1>2. \A u \in Threads : /\ pc'[u] = IF u = t THEN call[t].back ELSE pc[u]
                         /\ call'[u] = IF u = t THEN Idle ELSE call[u]
    BY DEF Types
<1>3. Returns'
    BY <1>1, <1>2 DEF Returns
<1>4. \A u \in Threads : Owns(u)' <=> Owns(u)
    BY <1>1, <1>2 DEF Owns
<1>5. OneOwner'
    BY <1>4, SameOwners
<1>6. pc' \in [Threads -> Steps]
    BY <1>1 DEF Types
<1>7. call' \in [Threads -> [count : Nat, back : Steps]]
    BY DEF Types, Idle, Steps
<1> QED
    BY <1>3, <1>5, <1>6, <1>7

LEMMA UnlockWakeKeeps ==
    ASSUME IInv, NEW t \in Threads, UnlockWake(t)
    PROVE  IInv'
<1>1. /\ pc' = [pc EXCEPT ![t] = call[t].back] /\ call' = [call EXCEPT ![t] = Idle]
      /\ pc[t] = "wake" /\ UNCHANGED <<mem, node>> /\ futex_wake(t, "lock", call[t].count)
    BY DEF UnlockWake, Goto, At
<1>2. "lock" \in Addrs
    BY DEF Addrs
<1>3. /\ g_buckets' \in [Buckets -> Seq(Threads)]
      /\ state' \in [Threads -> {"ready", "blocked", "dead", "freed"}]
      /\ Linked => Linked'
    BY <1>1, <1>2, futex_wakeLinked DEF IInv
<1>4. /\ pc' \in [Threads -> Steps] /\ call' \in [Threads -> [count : Nat, back : Steps]]
      /\ Returns' /\ OneOwner'
    BY <1>1, BackFrom DEF IInv
<1>5. Types'
    BY <1>1, <1>3, <1>4 DEF IInv, Types
<1> QED
    BY <1>3, <1>4, <1>5 DEF IInv

LEMMA CondWakeKeeps ==
    ASSUME IInv, NEW t \in Threads, CondWake(t)
    PROVE  IInv'
<1>1. /\ pc' = [pc EXCEPT ![t] = call[t].back] /\ call' = [call EXCEPT ![t] = Idle]
      /\ pc[t] = "condwake" /\ UNCHANGED <<mem, node>> /\ futex_wake(t, "seq", call[t].count)
    BY DEF CondWake, Goto, At
<1>2. "seq" \in Addrs
    BY DEF Addrs
<1>3. /\ g_buckets' \in [Buckets -> Seq(Threads)]
      /\ state' \in [Threads -> {"ready", "blocked", "dead", "freed"}]
      /\ Linked => Linked'
    BY <1>1, <1>2, futex_wakeLinked DEF IInv
<1>4. /\ pc' \in [Threads -> Steps] /\ call' \in [Threads -> [count : Nat, back : Steps]]
      /\ Returns' /\ OneOwner'
    BY <1>1, BackFrom DEF IInv
<1>5. Types'
    BY <1>1, <1>3, <1>4 DEF IInv, Types
<1> QED
    BY <1>3, <1>4, <1>5 DEF IInv

LEMMA CondWaitKeeps ==
    ASSUME IInv, NEW t \in Threads, CondWait(t)
    PROVE  IInv'
<1>1. UNCHANGED <<mem, g_buckets, node, state, pc, call>>
    BY DEF CondWait
<1> QED
    BY <1>1, SameLinked DEF IInv, Types, Returns, OneOwner, Owners

LEMMA SignalKeeps ==
    ASSUME IInv, NEW t \in Threads, NEW n \in Nat, Signal(t, n)
    PROVE  IInv'
<1>1. /\ mem' = [mem EXCEPT !.seq = (mem.seq + 1) % Wrap]
      /\ call' = [call EXCEPT ![t] = [count |-> n, back |-> pc[t]]]
      /\ pc' = [pc EXCEPT ![t] = "condwake"] /\ pc[t] \in {"idle", "cs"}
      /\ UNCHANGED <<g_buckets, node, state>>
    BY DEF Signal, Goto, At
<1>2. \A u \in Threads : /\ pc'[u] = IF u = t THEN "condwake" ELSE pc[u]
                         /\ call'[u] = IF u = t THEN [count |-> n, back |-> pc[t]] ELSE call[u]
    BY <1>1 DEF IInv, Types
<1>3. Returns'
    BY <1>1, <1>2 DEF IInv, Returns
<1>4. \A u \in Threads : Owns(u)' <=> Owns(u)
    BY <1>1, <1>2 DEF Owns
<1>5. mem'.lock = mem.lock /\ mem' \in [lock : {0, 1}, waiters : Int, seq : Int]
    <2> DEFINE s == (mem.seq + 1) % Wrap
    <2>1. s \in Int
        BY FutexAssumption DEF IInv, Types
    <2>2. mem' = [mem EXCEPT !.seq = s]
        BY <1>1
    <2> HIDE DEF s
    <2> QED
        BY <2>1, <2>2 DEF IInv, Types
<1>6. OneOwner'
    BY <1>4, <1>5, SameOwners DEF IInv
<1>7. call' \in [Threads -> [count : Nat, back : Steps]] /\ pc' \in [Threads -> Steps]
    BY <1>1 DEF IInv, Types, Steps
<1>8. Types'
    BY <1>1, <1>5, <1>7 DEF IInv, Types
<1> QED
    BY <1>1, <1>3, <1>6, <1>8, SameLinked DEF IInv

\* The node of a thread that runs is not linked any more: nothing is unlinked.
LEMMA ResumeKeeps ==
    ASSUME IInv, NEW t \in Threads, Resume(t)
    PROVE  IInv'
<1> DEFINE b == Bucket[node[t].uaddr]
           w == Without(g_buckets[b], {t})
           p == IF node[t].uaddr = "lock" THEN "sub" ELSE "cas"
<1>0. b \in Buckets
    BY FutexAssumption DEF IInv, Types
<1>1. /\ g_buckets' = [g_buckets EXCEPT ![b] = w]
      /\ node' = [node EXCEPT ![t] = NoNode] /\ pc' = [pc EXCEPT ![t] = p]
      /\ state[t] = "ready" /\ pc[t] = "resume" /\ UNCHANGED <<mem, state, call>>
    BY DEF Resume, Unlink, Goto, At
<1>2. /\ w \in Seq(Threads)
      /\ \A u : (\E i \in DOMAIN w : w[i] = u) <=> u \notin {t} /\ On(b, u)
      /\ Once(g_buckets[b]) => Once(w)
    BY <1>0, Unlinked DEF IInv
<1> HIDE DEF w, b
<1>3. p \in Steps /\ p \notin {"wake", "condwake", "cs"}
    BY DEF Steps
<1>4. pc' \in [Threads -> Steps] /\ Returns' /\ OneOwner'
    BY <1>1, <1>3, OneStep DEF IInv
<1>5. \A c \in Buckets : g_buckets'[c] = IF c = b THEN w ELSE g_buckets[c]
    BY <1>0, <1>1 DEF IInv, Types
<1>6. \A u \in Threads : node'[u] = IF u = t THEN NoNode ELSE node[u]
    BY <1>1 DEF IInv, Types
<1>7. ASSUME Linked PROVE Linked'
    <2>1. \A c \in Buckets : Once(g_buckets'[c])
        BY <1>2, <1>5, <1>7 DEF Linked
    <2>2. \A c \in Buckets : ~On(c, t)
        BY <1>1, <1>7 DEF Linked
    <2>3. \A c \in Buckets, u \in Threads : On(c, u)' <=> On(c, u)
        BY <1>2, <1>5, <2>2 DEF On
    <2> QED
        BY <1>1, <1>6, <1>7, <2>1, <2>3 DEF Linked
<1>8. NoNode \in [uaddr : Addrs, left : Nat]
    BY DEF NoNode, Addrs
<1>9. Types'
    BY <1>0, <1>1, <1>2, <1>4, <1>8 DEF IInv, Types
<1> QED
    BY <1>4, <1>7, <1>9 DEF IInv

LEMMA TickKeeps ==
    ASSUME IInv, Tick
    PROVE  IInv'
<1>1. PICK allocated \in [Buckets -> BOOLEAN] : futex_tick(allocated)
    BY DEF Tick
<1>2. /\ g_buckets' \in [Buckets -> Seq(Threads)]
      /\ node' \in [Threads -> [uaddr : Addrs, left : Nat]]
      /\ state' \in [Threads -> {"ready", "blocked", "dead", "freed"}]
      /\ Linked => Linked'
    BY <1>1, futex_tickLinked DEF IInv
<1>3. UNCHANGED <<mem, pc, call>>
    BY DEF Tick
<1>4. Types'
    BY <1>2, <1>3 DEF IInv, Types
<1>5. Returns' /\ OneOwner'
    BY <1>3 DEF IInv, Returns, OneOwner, Owners
<1> QED
    BY <1>2, <1>4, <1>5 DEF IInv

\* The killer takes no sleeper, so nothing that is linked.
LEMMA KillKeeps ==
    ASSUME IInv, NEW t \in Threads, Kill(t) \/ Free(t)
    PROVE  IInv'
<1>1. PICK d \in {"dead", "freed"} : state' = [state EXCEPT ![t] = d]
    BY DEF Kill, Free
<1>2. UNCHANGED <<mem, g_buckets, node, pc, call>>
    BY DEF Kill, Free
<1>3. Types'
    BY <1>1, <1>2 DEF IInv, Types
<1>4. Returns' /\ OneOwner'
    BY <1>2 DEF IInv, Returns, OneOwner, Owners
<1>5. ASSUME ~KillSleeping PROVE Linked'
    <2>1. Linked
        BY <1>5 DEF IInv
    <2>2. state[t] # "blocked"
        BY <1>5 DEF Kill, Free
    <2>3. \A u \in Threads : state'[u] = "blocked" <=> state[u] = "blocked"
        BY <1>1, <2>2 DEF IInv, Types
    <2> QED
        BY <1>2, <2>1, <2>3 DEF Linked, Once, On
<1> QED
    BY <1>3, <1>4, <1>5 DEF IInv

LEMMA NextKeeps == IInv /\ [Next]_fvars => IInv'
<1> SUFFICES ASSUME IInv, [Next]_fvars PROVE IInv'
    OBVIOUS
<1>1. CASE Tick
    BY <1>1, TickKeeps
<1>2. ASSUME NEW t \in Threads, Step(t) PROVE IInv'
    <2>1. 1 \in Nat /\ Cardinality(Threads) \in Nat
        BY FutexAssumption, FS_CardinalityType
    <2> QED
        BY <1>2, <2>1, CasKeeps, AddWaiterKeeps, LockWaitKeeps, SubWaiterKeeps, UnlockKeeps,
           LoadWaitersKeeps, UnlockWakeKeeps, CondWaitKeeps, CondSleepKeeps, SignalKeeps,
           CondWakeKeeps, ResumeKeeps DEF Step
<1>3. ASSUME NEW t \in Threads, Kill(t) \/ Free(t) PROVE IInv'
    BY <1>3, KillKeeps
<1>4. CASE UNCHANGED fvars
    BY <1>4 DEF fvars, IInv, Types, Returns, OneOwner, Owners, Linked, Once, On
<1> QED
    BY <1>1, <1>2, <1>3, <1>4 DEF Next

-----------------------------------------------------------------------------
(* What the invariant says *)

LEMMA LinkedIsCounted == Linked => SleepersLinked
<1> SUFFICES ASSUME Linked, NEW b \in Buckets, NEW t \in Threads
             PROVE  Cardinality({i \in DOMAIN g_buckets[b] : g_buckets[b][i] = t})
                       = IF state[t] = "blocked" /\ Bucket[node[t].uaddr] = b THEN 1 ELSE 0
    BY DEF SleepersLinked
<1> DEFINE at == {i \in DOMAIN g_buckets[b] : g_buckets[b][i] = t}
<1>1. CASE On(b, t)
    <2>1. PICK i \in DOMAIN g_buckets[b] : g_buckets[b][i] = t
        BY <1>1 DEF On
    <2>2. at = {i}
        BY <2>1 DEF Linked, Once
    <2>3. Cardinality(at) = 1
        BY <2>2, FS_Singleton
    <2> QED
        BY <1>1, <2>3 DEF Linked
<1>2. CASE ~On(b, t)
    <2>1. at = {}
        BY <1>2 DEF On
    <2>2. Cardinality(at) = 0
        BY <2>1, FS_EmptySet
    <2> QED
        BY <1>2, <2>2 DEF Linked
<1> QED
    BY <1>1, <1>2

LEMMA OneOwnerCounted == OneOwner => LockCountsOwners
BY FS_EmptySet, FS_Singleton DEF OneOwner, LockCountsOwners

THEOREM FutexInvariant == Spec => []IInv
<1>1. Init => IInv
    BY InitIInv
<1>2. IInv /\ [Next]_fvars => IInv'
    BY NextKeeps
<1> QED
    BY <1>1, <1>2, PTL DEF Spec

\* While the killer takes no thread that sleeps on a futex, a wait node is in
\* its bucket once, exactly while its thread sleeps: no wake-up is lost and no
\* list reaches a stack frame that is gone (futex_wait, futex_wake, futex_tick,
\* for every number of threads, time-out and outcome of the tick's allocation).
THEOREM NodesOfSleepers == ~KillSleeping => (Spec => []SleepersLinked)
<1> SUFFICES ASSUME ~KillSleeping PROVE Spec => []SleepersLinked
    OBVIOUS
<1>1. IInv => SleepersLinked
    BY LinkedIsCounted DEF IInv
<1> QED
    BY <1>1, FutexInvariant, PTL

\* The word of the mutex counts its owners, a killed owner included: two
\* threads are never both in the section (pthread_mutex_lock, pthread_mutex_unlock
\* and pthread_cond_wait over the futexes).
THEOREM MutexHeldOnce == Spec => []LockCountsOwners
<1>1. IInv => LockCountsOwners
    BY OneOwnerCounted DEF IInv
<1> QED
    BY <1>1, FutexInvariant, PTL

=============================================================================
