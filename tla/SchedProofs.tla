----------------------------- MODULE SchedProofs -----------------------------
(***************************************************************************)
(* For every set of threads and all slices, quotas and priorities: the     *)
(* scheduler's memory keeps its types and the ready lists their integrity; *)
(* the lists hold what can run, schedule() always finds a thread, a dead   *)
(* thread stays dead, and the CPU never goes past a READY thread of a      *)
(* higher queue.  One lemma per C function says that it preserves the      *)
(* types and the integrity, and a second one the rest; the actions of      *)
(* Sched are compositions of those functions.                              *)
(***************************************************************************)
EXTENDS Sched, TLAPS

\* The threads that thread_create has made.
Known(s) == {t \in Threads : s.state[t] # "NONE"}

\* What each function of sched.c needs of the memory it starts from: types, sound
\* lists, and no thread on the CPU or in a list that was not created.
Sound(s) ==
    /\ s \in SchedState
    /\ LinkedAs(s, s.queue)
    /\ s.cur \in Known(s)
    /\ \A t \in Threads : s.in_rq[t] => t \in Known(s)

\* What each of them leaves: sound memory, and every thread that there was.
SoundAfter(s, r) == Sound(r) /\ Known(s) \subseteq Known(r)

----------------------------------------------------------------------------
(* Lists *)

\* Every value of the type has the queues of its record as sequences of threads.
LEMMA UnlinkIsSeq ==
    ASSUME NEW s \in Seq(Threads), NEW i \in 1 .. Len(s)
    PROVE  /\ Unlink(s, i) \in Seq(Threads)
           /\ Len(Unlink(s, i)) = Len(s) - 1
           /\ \A j \in 1 .. Len(s) - 1 :
                    Unlink(s, i)[j] = IF j < i THEN s[j] ELSE s[j + 1]
<1>1. Len(s) \in Nat /\ Len(s) - 1 \in Nat
    OBVIOUS
<1>2. \A j \in 1 .. Len(s) - 1 : s[j] \in Threads /\ s[j + 1] \in Threads
    OBVIOUS
<1>3. Unlink(s, i) \in [1 .. Len(s) - 1 -> Threads]
    BY <1>1, <1>2 DEF Unlink
<1> QED
    BY <1>1, <1>3 DEF Unlink

\* Unlinking a member of a list without duplicates leaves the other members.
LEMMA UnlinkMembers ==
    ASSUME NEW s \in Seq(Threads), NEW i \in 1 .. Len(s),
           \A j, k \in DOMAIN s : s[j] = s[k] => j = k
    PROVE  /\ \A j, k \in DOMAIN Unlink(s, i) : Unlink(s, i)[j] = Unlink(s, i)[k] => j = k
           /\ \A t \in Threads :
                t \in Members(Unlink(s, i)) <=> t \in Members(s) /\ t # s[i]
<1> DEFINE u == Unlink(s, i)
<1>1. /\ u \in Seq(Threads) /\ Len(u) = Len(s) - 1
      /\ \A j \in 1 .. Len(s) - 1 : u[j] = IF j < i THEN s[j] ELSE s[j + 1]
    BY UnlinkIsSeq
<1>2. DOMAIN u = 1 .. Len(s) - 1 /\ DOMAIN s = 1 .. Len(s) /\ Len(s) \in Nat
    BY <1>1
<1> HIDE DEF u
<1>3. ASSUME NEW j \in 1 .. Len(s) - 1, NEW k \in 1 .. Len(s) - 1, u[j] = u[k] PROVE j = k
    <2> DEFINE from(n) == IF n < i THEN n ELSE n + 1
    <2>1. /\ from(j) \in 1 .. Len(s) /\ from(k) \in 1 .. Len(s)
          /\ from(j) = from(k) => j = k
        BY <1>2
    <2>2. s[from(j)] = s[from(k)]
        BY <1>1, <1>3
    <2> HIDE DEF from
    <2> QED
        BY <1>2, <2>1, <2>2
<1>4. ASSUME NEW t \in Threads, t \in Members(u) PROVE t \in Members(s) /\ t # s[i]
    <2>1. PICK j \in DOMAIN u : u[j] = t
        BY <1>4 DEF Members
    <2>2. CASE j < i
        BY <1>1, <1>2, <2>1, <2>2 DEF Members
    <2>3. CASE ~(j < i)
        BY <1>1, <1>2, <2>1, <2>3 DEF Members
    <2> QED BY <2>2, <2>3
<1>5. ASSUME NEW t \in Threads, t \in Members(s), t # s[i] PROVE t \in Members(u)
    <2>1. PICK j \in DOMAIN s : s[j] = t
        BY <1>5 DEF Members
    <2>2. CASE j < i
        <3>1. j \in DOMAIN u /\ u[j] = t
            BY <1>1, <1>2, <2>1, <2>2
        <3> QED BY <3>1 DEF Members
    <2>3. CASE ~(j < i)
        <3>1. j # i
            BY <1>5, <2>1
        <3>2. j - 1 \in DOMAIN u /\ u[j - 1] = t
            BY <1>1, <1>2, <2>1, <2>3, <3>1
        <3> QED BY <3>2 DEF Members
    <2> QED BY <2>2, <2>3
<1>6. \A j, k \in DOMAIN u : u[j] = u[k] => j = k
    BY <1>2, <1>3
<1>7. \A t \in Threads : t \in Members(u) <=> t \in Members(s) /\ t # s[i]
    BY <1>4, <1>5
<1> QED BY <1>6, <1>7 DEF u

\* Appending a thread that is not in a list without duplicates.
LEMMA AppendMembers ==
    ASSUME NEW s \in Seq(Threads), NEW t \in Threads, t \notin Members(s),
           \A j, k \in DOMAIN s : s[j] = s[k] => j = k
    PROVE  /\ Append(s, t) \in Seq(Threads)
           /\ \A j, k \in DOMAIN Append(s, t) :
                    Append(s, t)[j] = Append(s, t)[k] => j = k
           /\ \A u \in Threads :
                u \in Members(Append(s, t)) <=> u \in Members(s) \/ u = t
<1> DEFINE a == Append(s, t)
<1>1. /\ a \in Seq(Threads) /\ Len(s) \in Nat
      /\ DOMAIN a = 1 .. Len(s) + 1 /\ DOMAIN s = 1 .. Len(s)
      /\ a[Len(s) + 1] = t /\ \A j \in 1 .. Len(s) : a[j] = s[j]
    OBVIOUS
<1> HIDE DEF a
<1>2. \A j \in 1 .. Len(s) : s[j] # t
    BY <1>1 DEF Members
<1>3. \A j, k \in DOMAIN a : a[j] = a[k] => j = k
    BY <1>1, <1>2
<1>4. ASSUME NEW u \in Threads, u \in Members(s) \/ u = t PROVE u \in Members(a)
    <2>1. \E j \in DOMAIN a : a[j] = u
        BY <1>1, <1>4 DEF Members
    <2> QED BY <2>1 DEF Members
<1>5. ASSUME NEW u \in Threads, u \in Members(a) PROVE u \in Members(s) \/ u = t
    BY <1>1, <1>5 DEF Members
<1> QED BY <1>1, <1>3, <1>4, <1>5 DEF a

\* What is left of a list when its first i threads are popped.
LEMMA RestOfList ==
    ASSUME NEW s \in Seq(Threads), NEW i \in 1 .. Len(s)
    PROVE  LET l == SubSeq(s, i + 1, Len(s))
           IN  /\ l \in Seq(Threads)
               /\ DOMAIN l = 1 .. Len(s) - i
               /\ \A j \in 1 .. Len(s) - i : l[j] = s[j + i]
OBVIOUS

----------------------------------------------------------------------------
(* The functions of sched.c *)

\* A thread that is in no list may have any queue.
LEMMA Unlinked ==
    ASSUME NEW s \in SchedState, NEW loc \in [Threads -> Queues], LinkedAs(s, loc),
           NEW t \in Threads, ~s.in_rq[t], NEW q \in Queues
    PROVE  LinkedAs(s, [loc EXCEPT ![t] = q])
BY DEF LinkedAs, SchedState

\* rq_push keeps the lists sound.
LEMMA rq_pushSound ==
    ASSUME NEW s, Sound(s), NEW t \in Known(s), NEW q \in Queues
    PROVE  SoundAfter(s, rq_push(s, q, t))
<1> DEFINE r == rq_push(s, q, t)
<1>0. s \in SchedState /\ LinkedAs(s, s.queue) /\ t \in Threads
    BY DEF Sound, Known
<1>1. CASE s.in_rq[t]
    BY <1>1 DEF rq_push, SoundAfter
<1>2. CASE ~s.in_rq[t]
    <2>1. r = [s EXCEPT !.rq[q] = Append(@, t), !.queue[t] = q, !.in_rq[t] = TRUE]
        BY <1>2 DEF rq_push
    <2>2. s.rq[q] \in Seq(Threads) /\ t \notin Members(s.rq[q])
        BY <1>0, <1>2 DEF SchedState, LinkedAs
    <2>3. \A j, k \in DOMAIN s.rq[q] : s.rq[q][j] = s.rq[q][k] => j = k
        BY <1>0 DEF LinkedAs
    <2>4. /\ Append(s.rq[q], t) \in Seq(Threads)
          /\ \A j, k \in DOMAIN Append(s.rq[q], t) :
                Append(s.rq[q], t)[j] = Append(s.rq[q], t)[k] => j = k
          /\ \A u \in Threads :
                u \in Members(Append(s.rq[q], t)) <=> u \in Members(s.rq[q]) \/ u = t
        BY <1>0, <2>2, <2>3, AppendMembers
    <2>5. /\ r.rq = [s.rq EXCEPT ![q] = Append(s.rq[q], t)]
          /\ r.queue = [s.queue EXCEPT ![t] = q]
          /\ r.in_rq = [s.in_rq EXCEPT ![t] = TRUE]
          /\ r.state = s.state /\ r.slice = s.slice /\ r.cur = s.cur
        BY <1>0, <2>1 DEF SchedState
    <2> HIDE DEF r
    <2>6. r \in SchedState
        <3>1. /\ [s.rq EXCEPT ![q] = Append(s.rq[q], t)] \in [Queues -> Seq(Threads)]
              /\ [s.queue EXCEPT ![t] = q] \in [Threads -> Queues]
              /\ [s.in_rq EXCEPT ![t] = TRUE] \in [Threads -> BOOLEAN]
            BY <1>0, <2>1, <2>4 DEF SchedState
        <3> QED BY <1>0, <2>1, <2>5, <3>1 DEF SchedState
    <2>7. ASSUME NEW h \in Queues
          PROVE  /\ \A j, k \in DOMAIN r.rq[h] : r.rq[h][j] = r.rq[h][k] => j = k
                 /\ \A u \in Threads :
                        u \in Members(r.rq[h]) <=> r.in_rq[u] /\ r.queue[u] = h
        <3>1. CASE h = q
            <4>1. r.rq[h] = Append(s.rq[q], t)
                BY <1>0, <2>5, <3>1 DEF SchedState
            <4>2. ASSUME NEW u \in Threads
                  PROVE  u \in Members(s.rq[q]) \/ u = t <=> r.in_rq[u] /\ r.queue[u] = q
                BY <1>0, <1>2, <2>5 DEF LinkedAs, SchedState
            <4> QED BY <2>4, <3>1, <4>1, <4>2
        <3>2. CASE h # q
            BY <1>0, <1>2, <2>5, <3>2 DEF LinkedAs, SchedState
        <3> QED BY <3>1, <3>2
    <2>8. LinkedAs(r, r.queue)
        BY <2>7 DEF LinkedAs
    <2>9. /\ Known(r) = Known(s) /\ r.cur \in Known(r)
          /\ \A u \in Threads : r.in_rq[u] => u \in Known(r)
        BY <1>0, <2>5 DEF Known, Sound, SchedState
    <2> QED BY <2>6, <2>8, <2>9 DEF Sound, SoundAfter, r
<1> QED BY <1>1, <1>2

\* rq_remove unlinks t if the list it is told is the one t is linked in.
LEMMA rq_removeSound ==
    ASSUME NEW s \in SchedState, NEW loc \in [Threads -> Queues], LinkedAs(s, loc),
           NEW t \in Threads
    PROVE  LET r == rq_remove(s, loc[t], t)
           IN  /\ r \in SchedState
               /\ LinkedAs(r, loc)
               /\ ~r.in_rq[t] /\ \A u \in Threads : r.in_rq[u] => s.in_rq[u]
               /\ r.queue = s.queue /\ r.cur = s.cur /\ r.state = s.state
<1> DEFINE q == loc[t]
           r == rq_remove(s, q, t)
<1>1. CASE ~s.in_rq[t]
    BY <1>1 DEF rq_remove
<1>2. CASE s.in_rq[t]
    <2> DEFINE i == CHOOSE i \in DOMAIN s.rq[q] : s.rq[q][i] = t
               l == Unlink(s.rq[q], i)
    <2>1. q \in Queues /\ t \in Members(s.rq[q]) /\ s.rq[q] \in Seq(Threads)
        BY <1>2 DEF LinkedAs, SchedState
    <2>2. i \in 1 .. Len(s.rq[q]) /\ s.rq[q][i] = t
        BY <2>1 DEF Members
    <2>3. \A j, k \in DOMAIN s.rq[q] : s.rq[q][j] = s.rq[q][k] => j = k
        BY <2>1 DEF LinkedAs
    <2>4. r = [s EXCEPT !.rq[q] = l, !.in_rq[t] = FALSE]
        BY <1>2, <2>1 DEF rq_remove
    <2> HIDE DEF i
    <2>5. /\ l \in Seq(Threads)
          /\ \A j, k \in DOMAIN l : l[j] = l[k] => j = k
          /\ \A u \in Threads : u \in Members(l) <=> u \in Members(s.rq[q]) /\ u # t
        BY <2>1, <2>2, <2>3, UnlinkIsSeq, UnlinkMembers
    <2> HIDE DEF l, q, r
    <2>6. /\ r.rq = [s.rq EXCEPT ![q] = l] /\ r.in_rq = [s.in_rq EXCEPT ![t] = FALSE]
          /\ r.queue = s.queue /\ r.cur = s.cur /\ r.state = s.state
        BY <2>4 DEF SchedState
    <2>7. r \in SchedState
        BY <2>1, <2>4, <2>5 DEF SchedState
    <2>8. ASSUME NEW h \in Queues
          PROVE  /\ \A j, k \in DOMAIN r.rq[h] : r.rq[h][j] = r.rq[h][k] => j = k
                 /\ \A u \in Threads :
                        u \in Members(r.rq[h]) <=> r.in_rq[u] /\ loc[u] = h
        <3>1. CASE h = q
            BY <2>1, <2>5, <2>6, <3>1 DEF LinkedAs, SchedState
        <3>2. CASE h # q
            BY <2>1, <2>6, <3>2 DEF LinkedAs, SchedState, q
        <3> QED BY <3>1, <3>2
    <2>9. ~r.in_rq[t] /\ \A u \in Threads : r.in_rq[u] => s.in_rq[u]
        BY <2>6 DEF SchedState
    <2> QED BY <2>6, <2>7, <2>8, <2>9 DEF LinkedAs, r, q
<1> QED BY <1>1, <1>2

\* Changes of state and slice_remaining leave the lists as they are.
LEMMA StateSound ==
    ASSUME NEW s, Sound(s), NEW t \in Threads, NEW x \in States \ {"NONE"}
    PROVE  SoundAfter(s, [s EXCEPT !.state[t] = x])
<1> DEFINE r == [s EXCEPT !.state[t] = x]
<1>1. /\ r \in SchedState /\ r.rq = s.rq /\ r.in_rq = s.in_rq /\ r.queue = s.queue
      /\ r.cur = s.cur /\ r.state = [s.state EXCEPT ![t] = x]
    BY DEF Sound, SchedState
<1> HIDE DEF r
<1>2. Known(s) \subseteq Known(r)
    BY <1>1 DEF Known, Sound, SchedState
<1> QED BY <1>1, <1>2 DEF Sound, SoundAfter, LinkedAs, r

LEMMA SliceSound ==
    ASSUME NEW s, Sound(s), NEW t \in Threads, NEW n \in Nat
    PROVE  SoundAfter(s, [s EXCEPT !.slice[t] = n])
<1> DEFINE r == [s EXCEPT !.slice[t] = n]
<1>1. /\ r \in SchedState /\ r.rq = s.rq /\ r.in_rq = s.in_rq /\ r.queue = s.queue
      /\ r.cur = s.cur /\ r.state = s.state
    BY DEF Sound, SchedState
<1> HIDE DEF r
<1> QED BY <1>1 DEF Sound, SoundAfter, LinkedAs, Known, r

LEMMA StateSliceSound ==
    ASSUME NEW s, Sound(s), NEW t \in Threads, NEW n \in Nat,
           NEW x \in States \ {"NONE"}
    PROVE  SoundAfter(s, [s EXCEPT !.state[t] = x, !.slice[t] = n])
<1> DEFINE d == [s EXCEPT !.state[t] = x]
<1>1. SoundAfter(s, d) /\ SoundAfter(d, [d EXCEPT !.slice[t] = n])
    BY StateSound, SliceSound DEF SoundAfter
<1>2. [d EXCEPT !.slice[t] = n] = [s EXCEPT !.state[t] = x, !.slice[t] = n]
    BY DEF Sound, SchedState
<1> HIDE DEF d
<1> QED BY <1>1, <1>2 DEF SoundAfter

\* The slices of the three queues are numbers.
LEMMA SliceType == \A q \in Queues : Slice[q] \in Nat
BY NumbersAssumption

\* The caller of schedule() goes back to its list.
LEMMA RequeueSound ==
    ASSUME NEW s, Sound(s)
    PROVE  SoundAfter(s, Requeue(s))
<1> DEFINE d == [s EXCEPT !.state[s.cur] = "READY", !.slice[s.cur] = Slice[s.queue[s.cur]]]
<1>1. /\ s.cur \in Threads /\ s.cur \in Known(s) /\ s.queue[s.cur] \in Queues
      /\ Slice[s.queue[s.cur]] \in Nat /\ "READY" \in States \ {"NONE"}
    BY SliceType DEF Sound, SchedState, States
<1>2. SoundAfter(s, d)
    BY <1>1, StateSliceSound
<1> HIDE DEF d
<1>3. SoundAfter(d, rq_push(d, s.queue[s.cur], s.cur))
    BY <1>1, <1>2, rq_pushSound DEF SoundAfter
<1> QED BY <1>2, <1>3 DEF Requeue, SoundAfter, d

\* The switch: every popped thread loses its link and its flag together.
LEMMA DispatchSound ==
    ASSUME NEW s, Sound(s), NEW q \in Queues, NEW i \in DOMAIN s.rq[q]
    PROVE  SoundAfter(s, Dispatch(s, q, i))
<1> DEFINE r == Dispatch(s, q, i)
           n == Len(s.rq[q])
<1>0. \A g \in Queues : g \in Nat /\ ~(g > g)
    BY DEF Queues, LOW, MID, HIGH
<1>1. /\ s \in SchedState /\ s.rq[q] \in Seq(Threads) /\ s.rq[q][i] \in Threads
      /\ i \in 1 .. n /\ n \in Nat /\ DOMAIN s.rq[q] = 1 .. n
    BY DEF Sound, SchedState
<1>2. /\ r.rq = [h \in Queues |-> IF h > q THEN << >>
                                  ELSE IF h = q THEN SubSeq(s.rq[q], i + 1, Len(s.rq[q]))
                                  ELSE s.rq[h]]
      /\ r.in_rq = [t \in Threads |-> s.in_rq[t] /\ ~Popped(s, q, i, t)]
      /\ r.queue = s.queue
      /\ r.state = [s.state EXCEPT ![s.rq[q][i]] = "RUNNING"]
      /\ r.cur = s.rq[q][i]
    BY <1>1 DEF Dispatch, SchedState
<1>3. r \in SchedState
    <2>1. r.rq \in [Queues -> Seq(Threads)]
        BY <1>1, <1>2 DEF SchedState
    <2>2. r.in_rq \in [Threads -> BOOLEAN]
        BY <1>1, <1>2 DEF SchedState
    <2>3. [s.state EXCEPT ![s.rq[q][i]] = "RUNNING"] \in [Threads -> States]
        BY <1>1 DEF SchedState, States
    <2> QED BY <1>1, <1>2, <2>1, <2>2, <2>3 DEF SchedState, Dispatch
<1> HIDE DEF r
<1>4. ASSUME NEW h \in Queues
      PROVE  /\ \A j, k \in DOMAIN r.rq[h] : r.rq[h][j] = r.rq[h][k] => j = k
             /\ \A t \in Threads :
                    t \in Members(r.rq[h]) <=> r.in_rq[t] /\ r.queue[t] = h
    <2>0. \A t \in Threads, g \in Queues :
                t \in Members(s.rq[g]) <=> s.in_rq[t] /\ s.queue[t] = g
        BY DEF Sound, LinkedAs
    <2>1. CASE h > q
        <3>1. r.rq[h] = << >>
            BY <1>2, <2>1
        <3>2. ASSUME NEW t \in Threads, r.in_rq[t], r.queue[t] = h PROVE FALSE
            <4>1. s.in_rq[t] /\ ~Popped(s, q, i, t) /\ s.queue[t] = h
                BY <1>2, <3>2
            <4>2. t \in Members(s.rq[h])
                BY <2>0, <4>1
            <4> QED BY <2>1, <4>1, <4>2 DEF Popped
        <3> QED BY <3>1, <3>2 DEF Members
    <2>2. CASE h = q
        <3> DEFINE l == r.rq[h]
        <3>1. l = SubSeq(s.rq[q], i + 1, n)
            BY <1>0, <1>2, <2>2
        <3>2. /\ DOMAIN l = 1 .. n - i
              /\ \A j \in 1 .. n - i : l[j] = s.rq[q][j + i]
            BY <1>1, <3>1, RestOfList
        <3>3. \A j, k \in DOMAIN s.rq[q] : s.rq[q][j] = s.rq[q][k] => j = k
            BY DEF Sound, LinkedAs
        <3> HIDE DEF l, n
        <3>4. \A j, k \in DOMAIN l : l[j] = l[k] => j = k
            <4> SUFFICES ASSUME NEW j \in DOMAIN l, NEW k \in DOMAIN l, l[j] = l[k]
                         PROVE  j = k
                OBVIOUS
            <4>1. j + i \in DOMAIN s.rq[q] /\ k + i \in DOMAIN s.rq[q]
                BY <1>1, <3>2
            <4>2. s.rq[q][j + i] = s.rq[q][k + i]
                BY <3>2
            <4> QED BY <1>1, <3>2, <3>3, <4>1, <4>2
        <3>5. ASSUME NEW t \in Threads, t \in Members(l)
              PROVE  r.in_rq[t] /\ r.queue[t] = h
            <4>1. PICK j \in DOMAIN l : l[j] = t
                BY <3>5 DEF Members
            <4>2. j + i \in DOMAIN s.rq[q] /\ s.rq[q][j + i] = t
                BY <1>1, <3>2, <4>1
            <4>3. s.in_rq[t] /\ s.queue[t] = q
                BY <2>0, <4>2 DEF Members
            <4>4. ~Popped(s, q, i, t)
                <5>1. \A g \in Queues : g > q => t \notin Members(s.rq[g])
                    BY <1>0, <2>0, <4>3
                <5>2. \A k \in 1 .. i : s.rq[q][k] # t
                    <6> SUFFICES ASSUME NEW k \in 1 .. i, s.rq[q][k] = t PROVE FALSE
                        OBVIOUS
                    <6>1. k \in DOMAIN s.rq[q] /\ k # j + i
                        BY <1>1, <3>2
                    <6> QED BY <3>3, <4>2, <6>1
                <5> QED BY <5>1, <5>2 DEF Popped
            <4> QED BY <1>2, <2>2, <4>3, <4>4
        <3>6. ASSUME NEW t \in Threads, r.in_rq[t], r.queue[t] = h
              PROVE  t \in Members(l)
            <4>1. s.in_rq[t] /\ ~Popped(s, q, i, t) /\ s.queue[t] = q
                BY <1>2, <2>2, <3>6
            <4>2. PICK k \in DOMAIN s.rq[q] : s.rq[q][k] = t
                BY <2>0, <4>1 DEF Members
            <4>3. ~(k \in 1 .. i)
                BY <4>1, <4>2 DEF Popped
            <4>4. k - i \in DOMAIN l /\ l[k - i] = t
                BY <1>1, <3>2, <4>2, <4>3
            <4> QED BY <4>4 DEF Members
        <3> QED BY <3>4, <3>5, <3>6 DEF l
    <2>3. CASE ~(h > q) /\ h # q
        <3>1. r.rq[h] = s.rq[h]
            BY <1>2, <2>3
        <3>2. ASSUME NEW t \in Threads
              PROVE  r.in_rq[t] /\ r.queue[t] = h <=> s.in_rq[t] /\ s.queue[t] = h
            <4>1. ASSUME s.in_rq[t], s.queue[t] = h PROVE ~Popped(s, q, i, t)
                <5>1. \A g \in Queues : g # h => t \notin Members(s.rq[g])
                    BY <2>0, <4>1
                <5>2. ~(\E g \in Queues : g > q /\ t \in Members(s.rq[g]))
                    BY <2>3, <5>1
                <5>3. ~(\E j \in 1 .. i : s.rq[q][j] = t)
                    BY <1>1, <2>3, <5>1 DEF Members
                <5> QED BY <5>2, <5>3 DEF Popped
            <4> QED BY <1>2, <4>1
        <3> QED BY <2>0, <3>1, <3>2 DEF Sound, LinkedAs
    <2> QED BY <2>1, <2>2, <2>3
<1>5. /\ r.cur \in Known(r) /\ Known(s) \subseteq Known(r)
      /\ \A t \in Threads : r.in_rq[t] => t \in Known(r)
    <2>1. Known(s) \subseteq Known(r) /\ r.cur \in Known(r)
        BY <1>1, <1>2 DEF Known, SchedState
    <2>2. \A t \in Threads : r.in_rq[t] => s.in_rq[t]
        BY <1>2
    <2> QED BY <2>1, <2>2 DEF Sound
<1>6. LinkedAs(r, r.queue)
    BY <1>4 DEF LinkedAs
<1> QED BY <1>3, <1>5, <1>6 DEF Sound, SoundAfter, r

\* schedule() as a whole.
LEMMA scheduleSound ==
    ASSUME NEW s, Sound(s), NEW s2, schedule(s, s2)
    PROVE  SoundAfter(s, s2)
<1>1. CASE KeepsCpu(s)
    BY <1>1 DEF schedule, SoundAfter
<1>2. CASE ~KeepsCpu(s)
    <2>1. PICK q \in Queues : \E i \in DOMAIN Requeue(s).rq[q] :
                                    s2 = Dispatch(Requeue(s), q, i)
        BY <1>2 DEF schedule
    <2>2. SoundAfter(s, Requeue(s)) /\ SoundAfter(Requeue(s), s2)
        BY <2>1, RequeueSound, DispatchSound DEF SoundAfter
    <2> QED BY <2>2 DEF SoundAfter
<1> QED BY <1>1, <1>2

\* enqueue_locked and sched_enqueue_thread.
LEMMA EnqueueSound ==
    ASSUME NEW s, Sound(s), NEW t \in Known(s)
    PROVE  /\ SoundAfter(s, enqueue_locked(s, t))
           /\ SoundAfter(s, sched_enqueue_thread(s, t))
<1> DEFINE d == [s EXCEPT !.state[t] = "READY", !.slice[t] = Slice[s.queue[t]]]
<1>1. /\ t \in Threads /\ s.queue[t] \in Queues /\ Slice[s.queue[t]] \in Nat
      /\ "READY" \in States \ {"NONE"}
    BY SliceType DEF Sound, SchedState, Known, States
<1>2. SoundAfter(s, d)
    BY <1>1, StateSliceSound
<1> HIDE DEF d
<1>3. SoundAfter(d, rq_push(d, s.queue[t], t))
    BY <1>1, <1>2, rq_pushSound DEF SoundAfter
<1>4. SoundAfter(s, enqueue_locked(s, t))
    BY <1>2, <1>3 DEF enqueue_locked, SoundAfter, d
<1> QED BY <1>4 DEF sched_enqueue_thread, SoundAfter

\* sched_remove_from_queue.
LEMMA RemoveSound ==
    ASSUME NEW s, Sound(s), NEW t \in Threads
    PROVE  SoundAfter(s, sched_remove_from_queue(s, t))
<1> DEFINE r == rq_remove(s, s.queue[t], t)
<1>1. s \in SchedState /\ LinkedAs(s, s.queue) /\ s.queue \in [Threads -> Queues]
    BY DEF Sound, SchedState
<1>2. /\ r \in SchedState /\ LinkedAs(r, s.queue) /\ r.queue = s.queue
      /\ r.cur = s.cur /\ r.state = s.state
      /\ \A u \in Threads : r.in_rq[u] => s.in_rq[u]
    BY <1>1, rq_removeSound
<1> HIDE DEF r
<1>3. SoundAfter(s, r)
    BY <1>2 DEF Sound, SoundAfter, Known
<1>4. SoundAfter(r, [r EXCEPT !.state[t] = "DEAD"])
    BY <1>3, StateSound DEF SoundAfter, States
<1> QED BY <1>3, <1>4 DEF SoundAfter, sched_remove_from_queue, r

\* prio_to_queue yields a queue.
LEMMA prio_to_queueType == \A p : prio_to_queue(p) \in Queues
BY DEF prio_to_queue, Queues, LOW, MID, HIGH

\* The quota moves the running thread from list to list: between its change of
\* queue and its unlinking, the thread sits in a list that is not its own.
LEMMA ThrottleSound ==
    ASSUME NEW s, Sound(s), NEW used, NEW limit, NEW p
    PROVE  SoundAfter(s, Throttle(s, used, limit, p))
<1> DEFINE c == s.cur
<1>1. /\ s \in SchedState /\ LinkedAs(s, s.queue) /\ s.queue \in [Threads -> Queues]
      /\ c \in Threads /\ LOW \in Queues /\ prio_to_queue(p) \in Queues
      /\ c \in Known(s) /\ \A u \in Threads : s.in_rq[u] => u \in Known(s)
    BY prio_to_queueType DEF Sound, SchedState, Queues
<1>2. ASSUME s.queue[c] # LOW
      PROVE  SoundAfter(s, rq_push([rq_remove(s, s.queue[c], c) EXCEPT !.queue[c] = LOW],
                                   LOW, c))
    <2> DEFINE r == rq_remove(s, s.queue[c], c)
               d == [r EXCEPT !.queue[c] = LOW]
    <2>1. /\ r \in SchedState /\ LinkedAs(r, s.queue) /\ ~r.in_rq[c] /\ r.queue = s.queue
          /\ r.cur = s.cur /\ r.state = s.state
          /\ \A u \in Threads : r.in_rq[u] => s.in_rq[u]
        BY <1>1, rq_removeSound
    <2> HIDE DEF r
    <2>2. LinkedAs(r, [s.queue EXCEPT ![c] = LOW])
        BY <1>1, <2>1, Unlinked
    <2>3. /\ d \in SchedState /\ d.queue = [s.queue EXCEPT ![c] = LOW]
          /\ d.rq = r.rq /\ d.in_rq = r.in_rq /\ d.cur = s.cur /\ d.state = s.state
        BY <1>1, <2>1 DEF SchedState
    <2> HIDE DEF d
    <2>4. SoundAfter(s, d)
        BY <1>1, <2>1, <2>2, <2>3 DEF Sound, SoundAfter, LinkedAs, Known
    <2>5. SoundAfter(d, rq_push(d, LOW, c))
        BY <1>1, <2>4, rq_pushSound DEF SoundAfter
    <2> QED BY <2>4, <2>5 DEF d, r, SoundAfter
<1>3. ASSUME s.queue[c] = LOW
      PROVE  SoundAfter(s, rq_push(rq_remove([s EXCEPT !.queue[c] = prio_to_queue(p)], LOW, c),
                                   prio_to_queue(p), c))
    <2> DEFINE q == prio_to_queue(p)
               d == [s EXCEPT !.queue[c] = q]
               r == rq_remove(d, LOW, c)
    <2>1. /\ d \in SchedState /\ d.queue = [s.queue EXCEPT ![c] = q]
          /\ d.rq = s.rq /\ d.in_rq = s.in_rq /\ d.cur = s.cur /\ d.state = s.state
        BY <1>1 DEF SchedState
    <2> HIDE DEF d, q
    <2>2. LinkedAs(d, s.queue)
        BY <1>1, <2>1 DEF LinkedAs
    <2>3. /\ r \in SchedState /\ LinkedAs(r, s.queue) /\ ~r.in_rq[c] /\ r.queue = d.queue
          /\ r.cur = d.cur /\ r.state = d.state
          /\ \A u \in Threads : r.in_rq[u] => d.in_rq[u]
        BY <1>1, <1>3, <2>1, <2>2, rq_removeSound
    <2> HIDE DEF r
    <2>4. LinkedAs(r, [s.queue EXCEPT ![c] = q])
        BY <1>1, <2>3, Unlinked DEF q
    <2>5. SoundAfter(s, r)
        BY <1>1, <2>1, <2>3, <2>4 DEF Sound, SoundAfter, Known
    <2>6. SoundAfter(r, rq_push(r, q, c))
        BY <1>1, <2>5, rq_pushSound DEF q, SoundAfter
    <2> QED BY <2>5, <2>6 DEF d, q, r, SoundAfter
<1> QED BY <1>2, <1>3 DEF Throttle, SoundAfter

\* The charge of a tick never takes the slice below zero.
LEMMA ChargeSound ==
    ASSUME NEW s, Sound(s)
    PROVE  SoundAfter(s, Charge(s))
<1> DEFINE n == IF s.slice[s.cur] > 0 THEN s.slice[s.cur] - 1 ELSE 0
<1>1. s.cur \in Threads /\ n \in Nat
    BY DEF Sound, SchedState
<1>2. Charge(s) = [s EXCEPT !.slice[s.cur] = n]
    BY DEF Charge, Sound, SchedState
<1> HIDE DEF n
<1> QED BY <1>1, <1>2, SliceSound

\* What a timer interrupt does before it charges or kills the running thread.
LEMMA ReapSound ==
    ASSUME NEW s, Sound(s), NEW w \in Known(s) \cup {None},
           NEW v \in Threads \cup {None}, NEW j \in Known(s) \cup {None}
    PROVE  SoundAfter(s, Reap(s, w, v, j))
<1> DEFINE s1 == IF w = None THEN s ELSE sched_enqueue_thread(s, w)
           s2 == IF v = None THEN s1 ELSE sched_remove_from_queue(s1, v)
           s3 == IF j = None THEN s2 ELSE sched_enqueue_thread(s2, j)
<1>1. SoundAfter(s, s1)
    BY EnqueueSound DEF SoundAfter
<1> HIDE DEF s1
<1>2. SoundAfter(s1, s2)
    BY <1>1, RemoveSound DEF SoundAfter
<1> HIDE DEF s2
<1>3. SoundAfter(s2, s3)
    BY <1>1, <1>2, EnqueueSound DEF SoundAfter
<1>4. SoundAfter(s, s3)
    BY <1>1, <1>2, <1>3 DEF SoundAfter
<1> QED BY <1>4 DEF Reap, s1, s2

\* thread_create links a thread that never was in a list.
LEMMA CreateSound ==
    ASSUME NEW s, Sound(s), NEW t \in Threads \ Known(s), NEW p
    PROVE  SoundAfter(s, thread_create(s, t, p))
<1> DEFINE q == prio_to_queue(p)
           d == [s EXCEPT !.state[t] = "READY", !.queue[t] = q, !.slice[t] = Slice[q]]
<1>1. q \in Queues /\ Slice[q] \in Nat
    BY prio_to_queueType, SliceType
<1>2. /\ s \in SchedState /\ LinkedAs(s, s.queue) /\ s.queue \in [Threads -> Queues]
      /\ ~s.in_rq[t]
    BY DEF Sound, SchedState
<1> HIDE DEF q
<1>3. LinkedAs(s, [s.queue EXCEPT ![t] = q])
    BY <1>1, <1>2, Unlinked
<1>4. /\ d \in SchedState /\ d.queue = [s.queue EXCEPT ![t] = q]
      /\ d.rq = s.rq /\ d.in_rq = s.in_rq /\ d.cur = s.cur
      /\ d.state = [s.state EXCEPT ![t] = "READY"]
    BY <1>1, <1>2 DEF SchedState, States
<1> HIDE DEF d
<1>5. Known(s) \subseteq Known(d) /\ t \in Known(d)
    BY <1>2, <1>4 DEF Known, SchedState
<1>6. SoundAfter(s, d)
    BY <1>3, <1>4, <1>5 DEF Sound, SoundAfter, LinkedAs
<1>7. SoundAfter(d, rq_push(d, q, t))
    BY <1>1, <1>5, <1>6, rq_pushSound DEF SoundAfter
<1> QED BY <1>6, <1>7 DEF thread_create, d, q, SoundAfter

----------------------------------------------------------------------------
(* The inductive invariant *)

\* Whoever waits, or is being woken, was created once.
WaitersKnown ==
    /\ waiters \subseteq Known(sch)
    /\ \A u \in Threads : waking[u] \in Known(sch) \cup {None}

IInv == TypeOK /\ Sound(sch) /\ WaitersKnown

\* Before the first thread is created every list is empty.
LEMMA InitIInv == Init => IInv
<1> SUFFICES ASSUME Init PROVE IInv
    OBVIOUS
<1> USE ThreadsAssumption, NumbersAssumption
<1>1. sch \in SchedState
    <2>1. [q \in Queues |-> << >>] \in [Queues -> Seq(Threads)]
        OBVIOUS
    <2> QED BY <2>1 DEF Init, SchedState, States, Queues
<1>2. TypeOK
    <2>1. 0 % Window = 0 /\ 0 \in 0 .. Window - 1 /\ 0 \in 0 .. Window
        OBVIOUS
    <2> QED BY <1>1, <2>1 DEF Init, TypeOK
<1>3. sch.cur \in Known(sch) /\ \A t \in Threads : ~sch.in_rq[t]
    BY DEF Init, Known
<1>4. LinkedAs(sch, sch.queue)
    <2>1. \A q \in Queues : sch.rq[q] = << >>
        BY DEF Init
    <2> QED BY <1>3, <2>1 DEF LinkedAs, Members
<1>5. WaitersKnown
    BY DEF Init, WaitersKnown
<1> QED BY <1>1, <1>2, <1>3, <1>4, <1>5 DEF IInv, Sound

\* If sch stays sound and nobody starts to wait, so does the rest.
LEMMA StaysKnown ==
    ASSUME IInv, SoundAfter(sch, sch'), waiters' \subseteq waiters,
           \A u \in Threads : waking'[u] \in {waking[u], None}
    PROVE  Sound(sch)' /\ WaitersKnown'
<1>1. Sound(sch') /\ Known(sch) \subseteq Known(sch')
    BY DEF SoundAfter
<1>2. Sound(sch)' <=> Sound(sch')
    BY DEF Sound, LinkedAs, Known, SchedState
<1>3. Known(sch)' = Known(sch')
    BY DEF Known
<1> QED BY <1>1, <1>2, <1>3 DEF IInv, WaitersKnown

\* One timer interrupt.
LEMMA TickIInv == IInv /\ Tick => IInv'
<1> SUFFICES ASSUME IInv, Tick PROVE IInv'
    OBVIOUS
<1>1. /\ TypeOK /\ Sound(sch) /\ waiters \subseteq Known(sch) /\ cur \in Threads
      /\ sch.cur = cur
    BY DEF IInv, WaitersKnown, TypeOK, SchedState, cur
<1>2. PICK w \in waiters \cup {None}, v \in Threads \cup {None},
           j \in waiters \cup {None}, k \in waiters \cup {None} :
        /\ waiters' = waiters \ {w, j, k}
        /\ \/ TickKillsCurrent(Reap(sch, w, v, j), k)
           \/ TickCharges(Reap(sch, w, v, j))
    BY ThreadsAssumption DEF Tick
<1> DEFINE s == Reap(sch, w, v, j)
<1>3. SoundAfter(sch, s)
    BY <1>1, <1>2, ReapSound
<1> HIDE DEF s
<1>4. CASE TickKillsCurrent(s, k)
    <2> DEFINE s1 == IF k = None THEN s ELSE sched_enqueue_thread(s, k)
               s2 == [s1 EXCEPT !.state[cur] = "DEAD"]
    <2>1. SoundAfter(s, s1)
        BY <1>1, <1>2, <1>3, EnqueueSound DEF SoundAfter
    <2>2. schedule(s2, sch')
        BY <1>4 DEF TickKillsCurrent
    <2> HIDE DEF s1
    <2>3. SoundAfter(s1, s2)
        BY <1>1, <2>1, StateSound DEF SoundAfter, States
    <2> HIDE DEF s2
    <2>4. SoundAfter(sch, sch')
        BY <1>3, <2>1, <2>2, <2>3, scheduleSound DEF SoundAfter
    <2>5. /\ waking' = [waking EXCEPT ![cur] = None]
          /\ pc' = [pc EXCEPT ![cur] = "halt"] /\ UNCHANGED <<prio, ticks, quota>>
        BY <1>4 DEF TickKillsCurrent
    <2>6. Sound(sch)' /\ WaitersKnown'
        <3>1. \A u \in Threads : waking'[u] \in {waking[u], None}
            BY <1>1, <2>5 DEF TypeOK
        <3> QED BY <1>2, <2>4, <3>1, StaysKnown
    <2>7. TypeOK'
        BY <1>1, <1>2, <2>5, <2>6 DEF TypeOK, Sound
    <2> QED BY <2>6, <2>7 DEF IInv
<1>5. CASE TickCharges(s)
    <2> DEFINE used == (ticks[cur] + 1) % Window
               s1 == Throttle(Charge(s), used, quota[cur], prio[cur])
    <2>1. /\ IF s1.slice[cur] = 0 THEN schedule(s1, sch') ELSE sch' = s1
          /\ ticks' = [ticks EXCEPT ![cur] = used]
          /\ UNCHANGED <<prio, quota, pc, waking>>
        BY <1>5 DEF TickCharges
    <2>2. SoundAfter(s, Charge(s)) /\ SoundAfter(Charge(s), s1)
        BY <1>3, ChargeSound, ThrottleSound DEF SoundAfter
    <2>3. used \in 0 .. Window - 1
        BY <1>1, NumbersAssumption DEF TypeOK
    <2> HIDE DEF used, s1
    <2>4. SoundAfter(sch, sch')
        BY <1>3, <2>1, <2>2, scheduleSound DEF SoundAfter
    <2>5. Sound(sch)' /\ WaitersKnown'
        BY <1>2, <2>1, <2>4, StaysKnown
    <2>6. TypeOK'
        BY <1>1, <1>2, <2>1, <2>3, <2>5 DEF TypeOK, Sound
    <2> QED BY <2>5, <2>6 DEF IInv
<1> QED BY <1>2, <1>4, <1>5 DEF s

\* Every other step of a thread, of main.c or of a waker.
LEMMA NextIInv == IInv /\ [Next]_vars => IInv'
<1> SUFFICES ASSUME IInv, [Next]_vars PROVE IInv'
    OBVIOUS
<1> USE ThreadsAssumption, NumbersAssumption
<1>0. /\ TypeOK /\ Sound(sch) /\ WaitersKnown
      /\ cur \in Threads /\ cur = sch.cur /\ cur \in Known(sch)
    BY DEF IInv, TypeOK, SchedState, cur, Sound
<1>1. ASSUME NEW t \in Threads, NEW p \in Prios, Create(t, p) PROVE IInv'
    <2>1. SoundAfter(sch, sch')
        BY <1>0, <1>1, CreateSound DEF Create, Known
    <2>2. UNCHANGED <<ticks, quota, pc, waiters, waking>> /\ prio' = [prio EXCEPT ![t] = p]
        BY <1>1 DEF Create
    <2>3. Sound(sch)' /\ WaitersKnown'
        BY <2>1, <2>2, StaysKnown
    <2> QED BY <1>0, <2>2, <2>3 DEF IInv, TypeOK, Sound
<1>2. ASSUME sched_start PROVE IInv'
    <2>1. SoundAfter(sch, sch') /\ UNCHANGED <<prio, ticks, quota, pc, waiters, waking>>
        BY <1>0, <1>2, scheduleSound DEF sched_start
    <2>2. Sound(sch)' /\ WaitersKnown'
        BY <2>1, StaysKnown
    <2> QED BY <1>0, <2>1, <2>2 DEF IInv, TypeOK, Sound
<1>3. ASSUME Block PROVE IInv'
    <2>1. SoundAfter(sch, sch')
        BY <1>0, <1>3, StateSound DEF Block, States
    <2>2. /\ UNCHANGED <<prio, ticks, quota, waking>> /\ waiters' = waiters \cup {cur}
          /\ pc' = [pc EXCEPT ![cur] = "sched"]
        BY <1>3 DEF Block
    <2>3. Sound(sch') /\ Known(sch) \subseteq Known(sch')
        BY <2>1 DEF SoundAfter
    <2>4. Sound(sch)' /\ WaitersKnown'
        <3>1. Known(sch)' = Known(sch')
            BY DEF Known
        <3>2. Sound(sch)'
            BY <2>3 DEF Sound, LinkedAs, Known, SchedState
        <3> QED BY <1>0, <2>2, <2>3, <3>1, <3>2 DEF WaitersKnown
    <2> QED BY <1>0, <2>2, <2>4 DEF IInv, TypeOK, Sound
<1>4. ASSUME thread_yield PROVE IInv'
    <2>1. /\ SoundAfter(sch, sch') /\ UNCHANGED <<prio, ticks, quota, waiters, waking>>
          /\ pc' = [pc EXCEPT ![cur] = "sched"]
        BY <1>0, <1>4, SliceSound DEF thread_yield
    <2>2. Sound(sch)' /\ WaitersKnown'
        BY <2>1, StaysKnown
    <2> QED BY <1>0, <2>1, <2>2 DEF IInv, TypeOK, Sound
<1>5. ASSUME thread_exit PROVE IInv'
    <2>1. /\ SoundAfter(sch, sch') /\ UNCHANGED <<prio, ticks, quota, waiters, waking>>
          /\ pc' = [pc EXCEPT ![cur] = "exit"]
        BY <1>0, <1>5, StateSound DEF thread_exit, States
    <2>2. Sound(sch)' /\ WaitersKnown'
        BY <2>1, StaysKnown
    <2> QED BY <1>0, <2>1, <2>2 DEF IInv, TypeOK, Sound
<1>6. ASSUME CallSchedule PROVE IInv'
    <2>1. /\ SoundAfter(sch, sch') /\ UNCHANGED <<prio, ticks, quota, waiters, waking>>
          /\ pc' = [pc EXCEPT ![cur] = "run"] \/ pc' = pc
        BY <1>0, <1>6, scheduleSound DEF CallSchedule
    <2>2. Sound(sch)' /\ WaitersKnown'
        BY <2>1, StaysKnown
    <2> QED BY <1>0, <2>1, <2>2 DEF IInv, TypeOK, Sound
<1>7. ASSUME NEW t \in Threads, Wake(t) PROVE IInv'
    <2>1. t \in Known(sch)
        BY <1>0, <1>7 DEF Wake, WaitersKnown
    <2>2. SoundAfter(sch, sch') /\ UNCHANGED <<prio, ticks, quota, pc, waking>>
        BY <1>0, <1>7, <2>1, EnqueueSound DEF Wake
    <2>3. waiters' \subseteq waiters
        BY <1>7 DEF Wake
    <2>4. Sound(sch)' /\ WaitersKnown'
        BY <2>2, <2>3, StaysKnown
    <2> QED BY <1>0, <2>2, <2>3, <2>4 DEF IInv, TypeOK, Sound
<1>8. ASSUME NEW t \in Threads, WakeCheck(t) PROVE IInv'
    <2>1. /\ UNCHANGED <<sch, prio, ticks, quota, pc>> /\ waiters' \subseteq waiters
          /\ t \in waiters
          /\ waking' = [waking EXCEPT ![cur] = t] \/ waking' = [waking EXCEPT ![cur] = None]
        BY <1>8 DEF WakeCheck
    <2>2. TypeOK'
        BY <1>0, <2>1 DEF TypeOK
    <2>3. Sound(sch)' /\ WaitersKnown'
        <3>1. Sound(sch)'
            BY <1>0, <2>1 DEF Sound, LinkedAs, Known, SchedState
        <3>2. Known(sch)' = Known(sch) /\ t \in Known(sch)
            BY <1>0, <2>1 DEF Known, WaitersKnown
        <3>3. \A u \in Threads : waking'[u] \in {waking[u], t, None}
            BY <1>0, <2>1 DEF TypeOK
        <3> QED BY <1>0, <2>1, <3>1, <3>2, <3>3 DEF WaitersKnown
    <2> QED BY <2>2, <2>3 DEF IInv
<1>9. ASSUME WakeCommit PROVE IInv'
    <2>1. waking[cur] \in Known(sch)
        BY <1>0, <1>9 DEF WakeCommit, WaitersKnown
    <2>2. /\ SoundAfter(sch, sch') /\ UNCHANGED <<prio, ticks, quota, pc, waiters>>
          /\ waking' = [waking EXCEPT ![cur] = None]
        BY <1>0, <1>9, <2>1, EnqueueSound DEF WakeCommit
    <2>3. \A u \in Threads : waking'[u] \in {waking[u], None}
        BY <1>0, <2>2 DEF TypeOK
    <2>4. Sound(sch)' /\ WaitersKnown'
        BY <2>2, <2>3, StaysKnown
    <2> QED BY <1>0, <2>2, <2>4 DEF IInv, TypeOK, Sound
<1>10. ASSUME NEW t \in Throttled, NEW n \in Quotas, SetCpuQuota(t, n) PROVE IInv'
    <2>1. /\ UNCHANGED <<sch, prio, ticks, pc, waiters, waking>>
          /\ quota' = [quota EXCEPT ![t] = n]
        BY <1>10 DEF SetCpuQuota
    <2>2. Sound(sch)' /\ WaitersKnown'
        BY <1>0, <2>1 DEF Sound, LinkedAs, Known, SchedState, WaitersKnown
    <2> QED BY <1>0, <2>1, <2>2 DEF IInv, TypeOK
<1>11. ASSUME UNCHANGED vars PROVE IInv'
    BY <1>11 DEF vars, IInv, TypeOK, Sound, LinkedAs, Known, SchedState, WaitersKnown
<1> QED BY <1>1, <1>2, <1>3, <1>4, <1>5, <1>6, <1>7, <1>8, <1>9, <1>10, <1>11, TickIInv DEF Next

\* The invariant holds throughout.
THEOREM SchedInvariant == Spec => []IInv
<1> QED BY InitIInv, NextIInv, PTL DEF Spec

\* Every field keeps its type: slices never go negative, queues stay in range.
THEOREM TypeCorrect == Spec => []TypeOK
<1>1. IInv => TypeOK
    BY DEF IInv
<1> QED BY <1>1, SchedInvariant, PTL

\* No call sequence of schedule, ticks, quotas, kills and wakes links a thread
\* twice, or into a list other than that of its queue field.
THEOREM ListIntegrity == Spec => []QueueIntegrity
<1>1. IInv => QueueIntegrity
    BY DEF IInv, Sound, QueueIntegrity
<1> QED BY <1>1, SchedInvariant, PTL

-----------------------------------------------------------------------------
(* What the lists serve *)

\* What the lists promise to schedule(), of any value of the scheduler's memory.
Serves(s) ==
    /\ \A t \in Threads : s.state[t] = "READY" => s.in_rq[t]
    /\ \A t \in Threads \ Throttled : s.in_rq[t] => s.state[t] \in {"READY", "DEAD"}
    /\ s.state[Idle] # "NONE" =>
            /\ s.queue[Idle] = LOW
            /\ \/ s.cur = Idle /\ s.state[Idle] = "RUNNING"
               \/ s.in_rq[Idle] /\ s.state[Idle] = "READY"

KeepsDead(s, r) == \A t \in Threads : s.state[t] = "DEAD" => r.state[t] = "DEAD"

\* A function other than schedule(): the lists still serve, the dead are dead, and the
\* CPU has not changed hands.
ServesAfter(s, r) == Serves(r) /\ KeepsDead(s, r) /\ r.cur = s.cur

\* No READY thread has a higher queue than the one that has the CPU.
Strict(s) == \A t \in Threads : s.state[t] = "READY" => s.queue[t] <= s.queue[s.cur]

----------------------------------------------------------------------------
(* The functions of sched.c *)

\* rq_push sets the flag, and the queue of a thread it links.
LEMMA rq_pushFields ==
    ASSUME NEW s \in SchedState, NEW q \in Queues, NEW t \in Threads
    PROVE  LET r == rq_push(s, q, t)
           IN  /\ r.state = s.state /\ r.cur = s.cur
               /\ \A u \in Threads : r.in_rq[u] <=> u = t \/ s.in_rq[u]
               /\ \A u \in Threads : r.queue[u] = IF u = t /\ ~s.in_rq[t] THEN q ELSE s.queue[u]
<1>1. CASE s.in_rq[t]
    BY <1>1 DEF rq_push
<1>2. CASE ~s.in_rq[t]
    BY <1>2 DEF rq_push, SchedState
<1> QED
    BY <1>1, <1>2

\* rq_remove clears the flag and nothing else.
LEMMA rq_removeFields ==
    ASSUME NEW s \in SchedState, NEW q \in Queues, NEW t \in Threads
    PROVE  LET r == rq_remove(s, q, t)
           IN  /\ r.state = s.state /\ r.cur = s.cur /\ r.queue = s.queue
               /\ \A u \in Threads : r.in_rq[u] <=> u # t /\ s.in_rq[u]
<1>1. CASE ~s.in_rq[t]
    BY <1>1 DEF rq_remove
<1>2. CASE s.in_rq[t]
    BY <1>2 DEF rq_remove, SchedState
<1> QED
    BY <1>1, <1>2

\* The caller of schedule() that can still run waits in its list.
LEMMA RequeueServes ==
    ASSUME NEW s, Sound(s), Serves(s), ~KeepsCpu(s)
    PROVE  /\ ServesAfter(s, Requeue(s))
           /\ Requeue(s).state[Idle] # "NONE" =>
                Requeue(s).in_rq[Idle] /\ Requeue(s).state[Idle] = "READY"
<1> DEFINE p == s.cur
           d == [s EXCEPT !.state[p] = "READY", !.slice[p] = Slice[s.queue[p]]]
           r == rq_push(d, s.queue[p], p)
<1>1. s \in SchedState /\ p \in Threads /\ s.queue[p] \in Queues /\ Idle \in Threads
    BY ThreadsAssumption DEF Sound, SchedState
<1>2. CASE s.state[p] # "RUNNING"
    BY <1>1, <1>2 DEF Requeue, ServesAfter, KeepsDead, Serves
<1>3. CASE s.state[p] = "RUNNING"
    <2>1. /\ d \in SchedState /\ d.state = [s.state EXCEPT ![p] = "READY"]
          /\ d.in_rq = s.in_rq /\ d.queue = s.queue /\ d.cur = s.cur
        BY <1>1, SliceType DEF SchedState, States
    <2> HIDE DEF d
    <2>2. /\ r.state = d.state /\ r.cur = d.cur
          /\ \A u \in Threads : r.queue[u] = s.queue[u]
          /\ \A u \in Threads : r.in_rq[u] <=> u = p \/ s.in_rq[u]
        BY <1>1, <2>1, rq_pushFields
    <2>3. Requeue(s) = r
        BY <1>3 DEF Requeue, d
    <2> HIDE DEF r
    <2>4. KeepsDead(s, r) /\ r.cur = s.cur
        BY <1>1, <1>3, <2>1, <2>2 DEF KeepsDead, SchedState
    <2>5. Serves(r) /\ (r.state[Idle] # "NONE" => r.in_rq[Idle] /\ r.state[Idle] = "READY")
        BY <1>1, <1>3, <2>1, <2>2 DEF Serves, SchedState
    <2> QED
        BY <2>3, <2>4, <2>5 DEF ServesAfter
<1> QED
    BY <1>2, <1>3

\* The threads that the pop loop drops are dead, and no READY one is in a higher list.
LEMMA DispatchServes ==
    ASSUME NEW s, Sound(s), Serves(s), NEW q \in Queues, NEW i \in DOMAIN s.rq[q],
           StopsAt(s, q, i),
           s.state[Idle] # "NONE" => s.in_rq[Idle] /\ s.state[Idle] = "READY"
    PROVE  /\ Serves(Dispatch(s, q, i)) /\ KeepsDead(s, Dispatch(s, q, i))
           /\ Strict(Dispatch(s, q, i))
<1> DEFINE r == Dispatch(s, q, i)
           n == s.rq[q][i]
<1>1. /\ s \in SchedState /\ n \in Threads /\ i \in 1 .. Len(s.rq[q])
      /\ \A t \in Threads, h \in Queues :
            t \in Members(s.rq[h]) <=> s.in_rq[t] /\ s.queue[t] = h
      /\ s.queue \in [Threads -> Queues] /\ Idle \in Threads
    <2>1. s \in SchedState /\ s.rq[q] \in Seq(Threads) /\ s.queue \in [Threads -> Queues]
        BY DEF Sound, SchedState
    <2>2. i \in 1 .. Len(s.rq[q]) /\ n \in Threads
        BY <2>1
    <2>3. LinkedAs(s, s.queue)
        BY DEF Sound
    <2> QED
        BY <2>1, <2>2, <2>3, ThreadsAssumption DEF LinkedAs
<1>2. /\ r.in_rq = [t \in Threads |-> s.in_rq[t] /\ ~Popped(s, q, i, t)]
      /\ r.queue = s.queue
      /\ r.state = [s.state EXCEPT ![n] = "RUNNING"]
      /\ r.cur = n
    BY <1>1 DEF Dispatch, SchedState
<1>3. s.in_rq[n] /\ s.queue[n] = q /\ s.state[n] # "DEAD"
    BY <1>1 DEF Members, StopsAt, Live
<1>4. ASSUME NEW t \in Threads, Popped(s, q, i, t), t # n
      PROVE  s.state[t] = "DEAD"
    <2>1. CASE \E h \in Queues : h > q /\ t \in Members(s.rq[h])
        BY <2>1 DEF StopsAt, Live, Members
    <2>2. CASE \E j \in 1 .. i : s.rq[q][j] = t
        <3>1. PICK j \in 1 .. i : s.rq[q][j] = t
            BY <2>2
        <3>2. j \in 1 .. i - 1
            BY <1>1, <1>4, <3>1
        <3> QED
            BY <3>1, <3>2 DEF StopsAt, Live
    <2> QED
        BY <1>4, <2>1, <2>2 DEF Popped
<1>5. Popped(s, q, i, n)
    BY <1>1 DEF Popped
<1> HIDE DEF r, n
<1>6. KeepsDead(s, r)
    BY <1>1, <1>2, <1>3 DEF KeepsDead, SchedState
<1>7. Serves(r)
    <2>1. \A t \in Threads : r.state[t] = "READY" => r.in_rq[t]
        <3> SUFFICES ASSUME NEW t \in Threads, r.state[t] = "READY" PROVE r.in_rq[t]
            OBVIOUS
        <3>1. t # n /\ s.state[t] = "READY"
            BY <1>1, <1>2 DEF SchedState
        <3> QED
            BY <1>2, <1>4, <3>1 DEF Serves
    <2>2. \A t \in Threads \ Throttled : r.in_rq[t] => r.state[t] \in {"READY", "DEAD"}
        <3> SUFFICES ASSUME NEW t \in Threads \ Throttled, r.in_rq[t]
                     PROVE  r.state[t] \in {"READY", "DEAD"}
            OBVIOUS
        <3>1. t # n /\ s.in_rq[t]
            BY <1>2, <1>5
        <3> QED
            BY <1>1, <1>2, <3>1 DEF Serves, SchedState
    <2>3. s.state[Idle] # "NONE" => s.queue[Idle] = LOW
        BY DEF Serves
    <2>4. CASE Idle = n
        BY <1>1, <1>2, <1>3, <2>1, <2>2, <2>4, <2>3 DEF Serves, SchedState, Known, Sound
    <2>5. CASE Idle # n
        <3>1. r.state[Idle] = s.state[Idle]
            BY <1>1, <1>2, <2>5 DEF SchedState
        <3> QED
            BY <1>1, <1>2, <2>1, <2>2, <2>3, <2>5, <3>1 DEF Serves
    <2> QED
        BY <2>4, <2>5
<1>8. Strict(r)
    <2> SUFFICES ASSUME NEW t \in Threads, r.state[t] = "READY"
                 PROVE  s.queue[t] <= q
        BY <1>2, <1>3 DEF Strict
    <2>1. t # n /\ s.state[t] = "READY" /\ s.in_rq[t] /\ ~Popped(s, q, i, t)
        BY <1>1, <1>2, <1>4 DEF Serves, SchedState
    <2>2. t \in Members(s.rq[s.queue[t]]) /\ s.queue[t] \in Queues
        BY <1>1, <2>1
    <2>3. ~(s.queue[t] > q)
        BY <2>1, <2>2 DEF Popped
    <2> QED
        BY <2>2, <2>3 DEF Queues, LOW, MID, HIGH
<1> QED
    BY <1>6, <1>7, <1>8 DEF r

\* schedule() as a whole.
LEMMA scheduleServes ==
    ASSUME NEW s, Sound(s), Serves(s), NEW s2, schedule(s, s2)
    PROVE  /\ Serves(s2) /\ KeepsDead(s, s2)
           /\ s2.cur # s.cur => Strict(s2)
<1>1. CASE KeepsCpu(s)
    BY <1>1 DEF schedule, KeepsDead
<1>2. CASE ~KeepsCpu(s)
    <2> DEFINE r == Requeue(s)
    <2>0. PICK q \in Queues : \E i \in DOMAIN r.rq[q] : StopsAt(r, q, i) /\ s2 = Dispatch(r, q, i)
        BY <1>2 DEF schedule
    <2>1. PICK i \in DOMAIN r.rq[q] : StopsAt(r, q, i) /\ s2 = Dispatch(r, q, i)
        BY <2>0
    <2>2. Sound(r)
        BY RequeueSound DEF SoundAfter
    <2>3. ServesAfter(s, r) /\ (r.state[Idle] # "NONE" => r.in_rq[Idle] /\ r.state[Idle] = "READY")
        BY <1>2, RequeueServes
    <2> HIDE DEF r
    <2>4. Serves(s2) /\ KeepsDead(r, s2) /\ Strict(s2)
        BY <2>1, <2>2, <2>3, DispatchServes DEF ServesAfter
    <2> QED
        BY <2>3, <2>4 DEF ServesAfter, KeepsDead
<1> QED
    BY <1>1, <1>2

\* enqueue_locked makes a thread READY and links it, in one.
LEMMA enqueue_lockedServes ==
    ASSUME NEW s, Sound(s), Serves(s), NEW t \in Known(s)
    PROVE  LET r == enqueue_locked(s, t)
           IN  /\ Serves(r) /\ r.cur = s.cur
               /\ \A u \in Threads \ {t} : r.state[u] = s.state[u]
               /\ s.state[t] # "DEAD" => KeepsDead(s, r)
<1> DEFINE d == [s EXCEPT !.state[t] = "READY", !.slice[t] = Slice[s.queue[t]]]
           r == rq_push(d, s.queue[t], t)
<1>1. s \in SchedState /\ t \in Threads /\ s.queue[t] \in Queues /\ Idle \in Threads
    BY ThreadsAssumption DEF Sound, SchedState, Known
<1>2. CASE s.in_rq[t]
    BY <1>2 DEF enqueue_locked, KeepsDead
<1>3. CASE ~s.in_rq[t]
    <2>1. /\ d \in SchedState /\ d.state = [s.state EXCEPT ![t] = "READY"]
          /\ d.in_rq = s.in_rq /\ d.queue = s.queue /\ d.cur = s.cur
        BY <1>1, SliceType DEF SchedState, States
    <2> HIDE DEF d
    <2>2. /\ r.state = d.state /\ r.cur = d.cur
          /\ \A u \in Threads : r.queue[u] = s.queue[u]
          /\ \A u \in Threads : r.in_rq[u] <=> u = t \/ s.in_rq[u]
        BY <1>1, <2>1, rq_pushFields
    <2>3. enqueue_locked(s, t) = r
        BY <1>3 DEF enqueue_locked, d
    <2> HIDE DEF r
    <2>4. /\ r.cur = s.cur /\ \A u \in Threads \ {t} : r.state[u] = s.state[u]
          /\ s.state[t] # "DEAD" => KeepsDead(s, r)
        BY <1>1, <2>1, <2>2 DEF KeepsDead, SchedState
    <2>5. Serves(r)
        BY <1>1, <2>1, <2>2 DEF Serves, SchedState, Known
    <2> QED
        BY <2>3, <2>4, <2>5
<1> QED
    BY <1>2, <1>3

LEMMA EnqueueServes ==
    ASSUME NEW s, Sound(s), Serves(s), NEW t \in Known(s)
    PROVE  ServesAfter(s, sched_enqueue_thread(s, t))
BY enqueue_lockedServes DEF sched_enqueue_thread, ServesAfter, Live, KeepsDead

\* sched_remove_from_queue: the dead thread is in no list; the idle thread is no victim.
LEMMA RemoveServes ==
    ASSUME NEW s, Sound(s), Serves(s), NEW t \in Threads \ {Idle}
    PROVE  ServesAfter(s, sched_remove_from_queue(s, t))
<1> DEFINE d == rq_remove(s, s.queue[t], t)
           r == [d EXCEPT !.state[t] = "DEAD"]
<1>1. s \in SchedState /\ s.queue[t] \in Queues /\ Idle \in Threads
    BY ThreadsAssumption DEF Sound, SchedState
<1>2. /\ d.state = s.state /\ d.cur = s.cur /\ d.queue = s.queue
      /\ \A u \in Threads : d.in_rq[u] <=> u # t /\ s.in_rq[u]
    BY <1>1, rq_removeFields
<1>3. d \in SchedState
    BY <1>1, rq_removeSound DEF Sound, SchedState
<1> HIDE DEF d
<1>4. /\ r.state = [s.state EXCEPT ![t] = "DEAD"] /\ r.cur = s.cur /\ r.queue = s.queue
      /\ \A u \in Threads : r.in_rq[u] <=> u # t /\ s.in_rq[u]
    BY <1>2, <1>3 DEF SchedState
<1>5. sched_remove_from_queue(s, t) = r
    BY DEF sched_remove_from_queue, d
<1> HIDE DEF r
<1>6. KeepsDead(s, r) /\ Serves(r)
    BY <1>1, <1>4 DEF KeepsDead, Serves, SchedState
<1> QED
    BY <1>4, <1>5, <1>6 DEF ServesAfter

\* A quota moves the running thread between lists; no quota is aimed at others.
LEMMA ThrottleServes ==
    ASSUME NEW s, Sound(s), Serves(s), NEW used, NEW limit, NEW p,
           s.cur \in Throttled \/ limit = 0
    PROVE  ServesAfter(s, Throttle(s, used, limit, p))
<1> DEFINE c == s.cur
           q == prio_to_queue(p)
           d1 == rq_remove(s, s.queue[c], c)
           e1 == [d1 EXCEPT !.queue[c] = LOW]
           d2 == [s EXCEPT !.queue[c] = q]
           e2 == rq_remove(d2, LOW, c)
<1>1. /\ s \in SchedState /\ c \in Threads /\ s.queue[c] \in Queues /\ LOW \in Queues
      /\ q \in Queues /\ Idle \in Threads \ Throttled
    BY ThreadsAssumption, prio_to_queueType DEF Sound, SchedState, Queues
<1>2. ASSUME NEW e \in SchedState, NEW h \in Queues, c \in Throttled,
             e.state = s.state, e.cur = s.cur, \A u \in Threads : e.in_rq[u] <=> u # c /\ s.in_rq[u],
             \A u \in Threads \ {c} : e.queue[u] = s.queue[u]
      PROVE  ServesAfter(s, rq_push(e, h, c))
    <2> DEFINE r == rq_push(e, h, c)
    <2>1. /\ r.state = s.state /\ r.cur = s.cur
          /\ \A u \in Threads : r.in_rq[u] <=> u = c \/ e.in_rq[u]
          /\ \A u \in Threads \ {c} : r.queue[u] = s.queue[u]
        BY <1>1, <1>2, rq_pushFields
    <2> HIDE DEF r
    <2>2. KeepsDead(s, r)
        BY <1>2, <2>1 DEF KeepsDead
    <2>3. /\ \A u \in Threads : r.in_rq[u] <=> u = c \/ s.in_rq[u]
          /\ c # Idle /\ r.queue[Idle] = s.queue[Idle] /\ r.state = s.state /\ r.cur = s.cur
        BY <1>1, <1>2, <2>1
    <2>4. /\ \A u \in Threads : r.state[u] = "READY" => r.in_rq[u]
          /\ \A u \in Threads \ Throttled : r.in_rq[u] => r.state[u] \in {"READY", "DEAD"}
        BY <1>2, <2>3 DEF Serves
    <2>5. Serves(r)
        BY <1>1, <2>3, <2>4 DEF Serves
    <2> QED
        BY <1>2, <2>1, <2>2, <2>5 DEF ServesAfter, r
<1>3. ASSUME c \in Throttled PROVE ServesAfter(s, rq_push(e1, LOW, c))
    <2>1. /\ d1.state = s.state /\ d1.cur = s.cur /\ d1.queue = s.queue
          /\ \A u \in Threads : d1.in_rq[u] <=> u # c /\ s.in_rq[u]
        BY <1>1, rq_removeFields
    <2>2. d1 \in SchedState
        BY <1>1, rq_removeSound DEF Sound, SchedState
    <2> HIDE DEF d1
    <2>3. /\ e1 \in SchedState /\ e1.state = s.state /\ e1.cur = s.cur
          /\ \A u \in Threads : e1.in_rq[u] <=> u # c /\ s.in_rq[u]
          /\ \A u \in Threads \ {c} : e1.queue[u] = s.queue[u]
        BY <1>1, <2>1, <2>2 DEF SchedState
    <2> HIDE DEF e1
    <2> QED
        BY <1>1, <1>2, <1>3, <2>3
<1>4. ASSUME c \in Throttled PROVE ServesAfter(s, rq_push(e2, q, c))
    <2>1. /\ d2 \in SchedState /\ d2.state = s.state /\ d2.cur = s.cur
          /\ d2.in_rq = s.in_rq /\ d2.rq = s.rq /\ d2.queue = [s.queue EXCEPT ![c] = q]
        BY <1>1 DEF SchedState
    <2> HIDE DEF d2
    <2>2. /\ e2.state = s.state /\ e2.cur = s.cur
          /\ \A u \in Threads : e2.in_rq[u] <=> u # c /\ s.in_rq[u]
          /\ \A u \in Threads \ {c} : e2.queue[u] = s.queue[u]
        <3>1. \A u \in Threads \ {c} : d2.queue[u] = s.queue[u]
            BY <1>1, <2>1 DEF SchedState
        <3>2. /\ e2.state = d2.state /\ e2.cur = d2.cur /\ e2.queue = d2.queue
              /\ \A u \in Threads : e2.in_rq[u] <=> u # c /\ d2.in_rq[u]
            BY <1>1, <2>1, rq_removeFields
        <3> HIDE DEF e2
        <3> QED
            BY <2>1, <3>1, <3>2
    <2>3. e2 \in SchedState
        <3>1. CASE ~d2.in_rq[c]
            BY <2>1, <3>1 DEF rq_remove
        <3>2. CASE d2.in_rq[c] /\ c \notin Members(d2.rq[LOW])
            BY <1>1, <2>1, <3>2 DEF rq_remove, SchedState
        <3>3. CASE d2.in_rq[c] /\ c \in Members(d2.rq[LOW])
            <4> DEFINE l == d2.rq[LOW]
                       i == CHOOSE i \in DOMAIN l : l[i] = c
            <4>1. l \in Seq(Threads) /\ i \in 1 .. Len(l)
                BY <1>1, <2>1, <3>3 DEF SchedState, Members
            <4> HIDE DEF i
            <4>2. Unlink(l, i) \in Seq(Threads)
                BY <4>1, UnlinkIsSeq
            <4>3. e2 = [d2 EXCEPT !.rq[LOW] = Unlink(l, i), !.in_rq[c] = FALSE]
                BY <3>3 DEF rq_remove, i
            <4>4. /\ [d2.rq EXCEPT ![LOW] = Unlink(l, i)] \in [Queues -> Seq(Threads)]
                  /\ [d2.in_rq EXCEPT ![c] = FALSE] \in [Threads -> BOOLEAN]
                BY <1>1, <2>1, <4>2 DEF SchedState
            <4> QED
                BY <2>1, <4>3, <4>4 DEF SchedState
        <3> QED
            BY <3>1, <3>2, <3>3
    <2> HIDE DEF e2
    <2> QED
        BY <1>1, <1>2, <1>4, <2>2, <2>3
<1>5. ServesAfter(s, s)
    BY DEF ServesAfter, KeepsDead
<1> QED
    BY <1>3, <1>4, <1>5 DEF Throttle

\* The charge leaves everything but the slice.
LEMMA ChargeServes ==
    ASSUME NEW s, Sound(s), Serves(s)
    PROVE  ServesAfter(s, Charge(s))
<1>1. /\ Charge(s).state = s.state /\ Charge(s).cur = s.cur
      /\ Charge(s).in_rq = s.in_rq /\ Charge(s).queue = s.queue
    BY DEF Charge, Sound, SchedState
<1> QED
    BY <1>1 DEF ServesAfter, Serves, KeepsDead

LEMMA ServesTwice ==
    ASSUME NEW s, NEW r, NEW u, ServesAfter(s, r), ServesAfter(r, u)
    PROVE  ServesAfter(s, u)
BY DEF ServesAfter, KeepsDead

\* Wake-ups and a kill by the timer interrupt.
LEMMA ReapServes ==
    ASSUME NEW s, Sound(s), Serves(s), NEW w \in Known(s) \cup {None},
           NEW v \in (Threads \ {Idle}) \cup {None}, NEW j \in Known(s) \cup {None}
    PROVE  ServesAfter(s, Reap(s, w, v, j))
<1> DEFINE s1 == IF w = None THEN s ELSE sched_enqueue_thread(s, w)
           s2 == IF v = None THEN s1 ELSE sched_remove_from_queue(s1, v)
           s3 == IF j = None THEN s2 ELSE sched_enqueue_thread(s2, j)
<1>0. \A r : Serves(r) => ServesAfter(r, r)
    BY DEF ServesAfter, KeepsDead
<1>1. SoundAfter(s, s1) /\ ServesAfter(s, s1)
    BY <1>0, EnqueueSound, EnqueueServes DEF SoundAfter
<1> HIDE DEF s1
<1>2. SoundAfter(s1, s2) /\ ServesAfter(s1, s2)
    BY <1>0, <1>1, RemoveSound, RemoveServes DEF SoundAfter, ServesAfter
<1> HIDE DEF s2
<1>3. j \in Known(s2) \cup {None}
    BY <1>1, <1>2 DEF SoundAfter
<1>4. ServesAfter(s2, s3)
    BY <1>0, <1>2, <1>3, EnqueueServes DEF SoundAfter, ServesAfter
<1>5. Reap(s, w, v, j) = s3
    BY DEF Reap, s1, s2
<1> HIDE DEF s3
<1> QED
    BY <1>1, <1>2, <1>4, <1>5, ServesTwice

\* thread_create; the idle thread is asked for with the lowest priority.
LEMMA CreateServes ==
    ASSUME NEW s, Sound(s), Serves(s), NEW t \in Threads \ Known(s), NEW p,
           t = Idle => p = 0
    PROVE  ServesAfter(s, thread_create(s, t, p))
<1> DEFINE q == prio_to_queue(p)
           d == [s EXCEPT !.state[t] = "READY", !.queue[t] = q, !.slice[t] = Slice[q]]
           r == rq_push(d, q, t)
<1>1. /\ q \in Queues /\ Slice[q] \in Nat /\ s \in SchedState /\ ~s.in_rq[t]
      /\ Idle \in Threads /\ s.state[t] = "NONE"
    BY prio_to_queueType, SliceType, ThreadsAssumption DEF Sound, Known
<1>2. t = Idle => q = LOW
    BY DEF prio_to_queue
<1> HIDE DEF q
<1>3. /\ d \in SchedState /\ d.state = [s.state EXCEPT ![t] = "READY"]
      /\ d.in_rq = s.in_rq /\ d.queue = [s.queue EXCEPT ![t] = q] /\ d.cur = s.cur
    BY <1>1 DEF SchedState, States
<1> HIDE DEF d
<1>4. /\ r.state = d.state /\ r.cur = s.cur
      /\ \A u \in Threads : r.queue[u] = d.queue[u]
      /\ \A u \in Threads : r.in_rq[u] <=> u = t \/ s.in_rq[u]
    <2>1. ASSUME NEW u \in Threads PROVE r.queue[u] = d.queue[u]
        <3>1. d.queue[t] = q /\ t \in Threads /\ ~d.in_rq[t] /\ d \in SchedState /\ q \in Queues
            BY <1>1, <1>3 DEF SchedState
        <3>2. r.queue[u] = IF u = t /\ ~d.in_rq[t] THEN q ELSE d.queue[u]
            BY <3>1, rq_pushFields
        <3> QED
            BY <3>1, <3>2
    <2>3. /\ r.state = d.state /\ r.cur = d.cur
          /\ \A u \in Threads : r.in_rq[u] <=> u = t \/ d.in_rq[u]
        BY <1>1, <1>3, rq_pushFields
    <2> QED
        BY <1>3, <2>1, <2>3
<1>5. thread_create(s, t, p) = r
    BY DEF thread_create, d, q
<1> HIDE DEF r
<1>6. KeepsDead(s, r)
    BY <1>1, <1>3, <1>4 DEF KeepsDead, SchedState
<1>7. Serves(r)
    <2>0. s.state \in [Threads -> States] /\ s.queue \in [Threads -> Queues]
        BY <1>1 DEF SchedState
    <2>1. r.state[t] = "READY" /\ \A u \in Threads \ {t} : r.state[u] = s.state[u]
        BY <1>3, <1>4, <2>0
    <2>2. r.queue[t] = q /\ \A u \in Threads \ {t} : r.queue[u] = s.queue[u]
        BY <1>3, <1>4, <2>0
    <2> QED
        BY <1>1, <1>2, <1>4, <2>1, <2>2 DEF Serves
<1> QED
    BY <1>4, <1>5, <1>6, <1>7 DEF ServesAfter

----------------------------------------------------------------------------
(* The steps *)

\* Only threads of Throttled have a quota, and the lists serve.
SInv == IInv /\ Serves(sch) /\ \A t \in Threads \ Throttled : quota[t] = 0

\* What a step owes: the lists still serve, a death is undone only by a wake-up that had
\* tested the thread before, and another thread gets the CPU only if none waits higher.
StepSound ==
    /\ Serves(sch')
    /\ \A t \in Threads : sch.state[t] = "DEAD" /\ ~InFlight(t) => sch'.state[t] = "DEAD"
    /\ sch'.cur # sch.cur => Strict(sch')

\* A thread that has the CPU and is not the idle thread changes its own state.
LEMMA OwnStateServes ==
    ASSUME NEW s, Sound(s), Serves(s), s.cur # Idle, s.state[s.cur] = "RUNNING",
           NEW x \in {"BLOCKED", "DEAD"}
    PROVE  ServesAfter(s, [s EXCEPT !.state[s.cur] = x])
<1> DEFINE r == [s EXCEPT !.state[s.cur] = x]
<1>1. /\ s \in SchedState /\ s.cur \in Threads /\ Idle \in Threads
    BY ThreadsAssumption DEF Sound, SchedState
<1>2. /\ r.state = [s.state EXCEPT ![s.cur] = x] /\ r.cur = s.cur
      /\ r.in_rq = s.in_rq /\ r.queue = s.queue
    BY <1>1 DEF SchedState
<1> HIDE DEF r
<1>3. KeepsDead(s, r) /\ Serves(r)
    BY <1>1, <1>2 DEF KeepsDead, Serves, SchedState
<1> QED
    BY <1>2, <1>3 DEF ServesAfter, r

\* The timer handler kills the running thread, whatever its state.
LEMMA KillServes ==
    ASSUME NEW s, Sound(s), Serves(s), NEW c \in Threads \ {Idle}
    PROVE  ServesAfter(s, [s EXCEPT !.state[c] = "DEAD"])
<1> DEFINE r == [s EXCEPT !.state[c] = "DEAD"]
<1>1. s \in SchedState /\ Idle \in Threads
    BY ThreadsAssumption DEF Sound, SchedState
<1>2. /\ r.state = [s.state EXCEPT ![c] = "DEAD"] /\ r.cur = s.cur
      /\ r.in_rq = s.in_rq /\ r.queue = s.queue
    BY <1>1 DEF SchedState
<1> HIDE DEF r
<1>3. KeepsDead(s, r) /\ Serves(r)
    BY <1>1, <1>2 DEF KeepsDead, Serves, SchedState
<1> QED
    BY <1>2, <1>3 DEF ServesAfter, r

LEMMA TickServes == SInv /\ Tick => StepSound
<1> SUFFICES ASSUME SInv, Tick PROVE StepSound
    OBVIOUS
<1>1. /\ TypeOK /\ Sound(sch) /\ Serves(sch) /\ waiters \subseteq Known(sch)
      /\ cur \in Threads /\ sch.cur = cur
    BY DEF SInv, IInv, WaitersKnown, TypeOK, SchedState, cur
<1>2. PICK w \in waiters \cup {None}, v \in (Threads \ {Idle}) \cup {None},
           j \in waiters \cup {None}, k \in waiters \cup {None} :
        \/ TickKillsCurrent(Reap(sch, w, v, j), k)
        \/ TickCharges(Reap(sch, w, v, j))
    BY ThreadsAssumption DEF Tick
<1> DEFINE s == Reap(sch, w, v, j)
<1>3. SoundAfter(sch, s) /\ ServesAfter(sch, s)
    BY <1>1, <1>2, ReapSound, ReapServes
<1> HIDE DEF s
<1>4. CASE TickKillsCurrent(s, k)
    <2> DEFINE s1 == IF k = None THEN s ELSE sched_enqueue_thread(s, k)
               s2 == [s1 EXCEPT !.state[cur] = "DEAD"]
    <2>0. ServesAfter(s, s)
        BY <1>3 DEF ServesAfter, KeepsDead
    <2>1. SoundAfter(s, s1) /\ ServesAfter(s, s1)
        BY <1>1, <1>2, <1>3, <2>0, EnqueueSound, EnqueueServes DEF SoundAfter, ServesAfter
    <2>2. schedule(s2, sch') /\ cur # Idle
        BY <1>4, ThreadsAssumption DEF TickKillsCurrent
    <2> HIDE DEF s1
    <2>3. SoundAfter(s1, s2) /\ ServesAfter(s1, s2)
        BY <1>1, <2>1, <2>2, StateSound, KillServes DEF SoundAfter, ServesAfter, States
    <2> HIDE DEF s2
    <2>4. Serves(sch') /\ KeepsDead(s2, sch') /\ (sch'.cur # s2.cur => Strict(sch'))
        BY <2>2, <2>3, scheduleServes DEF SoundAfter, ServesAfter
    <2> QED
        BY <1>3, <2>1, <2>3, <2>4 DEF ServesAfter, KeepsDead, StepSound
<1>5. CASE TickCharges(s)
    <2> DEFINE used == (ticks[cur] + 1) % Window
               s0 == Charge(s)
               s1 == Throttle(s0, used, quota[cur], prio[cur])
    <2>1. IF s1.slice[cur] = 0 THEN schedule(s1, sch') ELSE sch' = s1
        BY <1>5 DEF TickCharges
    <2>2. SoundAfter(s, s0) /\ ServesAfter(s, s0)
        BY <1>3, ChargeSound, ChargeServes DEF SoundAfter, ServesAfter
    <2> HIDE DEF used, s0
    <2>3. s0.cur = cur /\ (cur \in Throttled \/ quota[cur] = 0)
        BY <1>1, <1>3, <2>2 DEF ServesAfter, SInv
    <2>4. SoundAfter(s0, s1) /\ ServesAfter(s0, s1)
        BY <2>2, <2>3, ThrottleSound, ThrottleServes DEF SoundAfter, ServesAfter
    <2> HIDE DEF s1
    <2>5. Serves(sch') /\ KeepsDead(s1, sch') /\ (sch'.cur # s1.cur => Strict(sch'))
        <3>1. CASE schedule(s1, sch')
            BY <2>4, <3>1, scheduleServes DEF SoundAfter, ServesAfter
        <3>2. CASE sch' = s1
            BY <2>4, <3>2 DEF ServesAfter, KeepsDead
        <3> QED
            BY <2>1, <3>1, <3>2
    <2> QED
        BY <1>3, <2>2, <2>4, <2>5 DEF ServesAfter, KeepsDead, StepSound
<1> QED
    BY <1>2, <1>4, <1>5 DEF s

LEMMA NextServes == SInv /\ [Next]_vars => StepSound
<1> SUFFICES ASSUME SInv, [Next]_vars PROVE StepSound
    OBVIOUS
<1>0. /\ TypeOK /\ Sound(sch) /\ Serves(sch) /\ WaitersKnown /\ IInv
      /\ cur \in Threads /\ cur = sch.cur
    BY DEF SInv, IInv, TypeOK, SchedState, cur
<1>1. ASSUME ServesAfter(sch, sch') PROVE StepSound
    BY <1>1 DEF ServesAfter, KeepsDead, StepSound
<1>2. ASSUME schedule(sch, sch') PROVE StepSound
    BY <1>0, <1>2, scheduleServes DEF KeepsDead, StepSound
<1>3. ASSUME sch' = sch PROVE StepSound
    BY <1>0, <1>3 DEF StepSound
<1>4. ASSUME NEW t \in Threads, NEW p \in Prios, Create(t, p) PROVE StepSound
    BY <1>0, <1>1, <1>4, CreateServes DEF Create, Known
<1>5. ASSUME Block PROVE StepSound
    BY <1>0, <1>1, <1>5, OwnStateServes DEF Block, Executing
<1>6. ASSUME thread_yield PROVE StepSound
    <2>1. /\ sch'.state = sch.state /\ sch'.in_rq = sch.in_rq /\ sch'.queue = sch.queue
          /\ sch'.cur = sch.cur
        BY <1>0, <1>6 DEF thread_yield, Sound, SchedState
    <2> QED
        BY <1>0, <1>1, <2>1 DEF ServesAfter, Serves, KeepsDead
<1>7. ASSUME thread_exit PROVE StepSound
    BY <1>0, <1>1, <1>7, OwnStateServes DEF thread_exit, Executing
<1>8. ASSUME NEW t \in Threads, Wake(t) PROVE StepSound
    BY <1>0, <1>1, <1>8, EnqueueServes DEF Wake, WaitersKnown
<1>9. ASSUME WakeCommit PROVE StepSound
    <2> DEFINE t == waking[cur]
    <2>1. t \in Known(sch) /\ InFlight(t)
        BY <1>0, <1>9 DEF WakeCommit, WaitersKnown, InFlight
    <2>2. sch' = enqueue_locked(sch, t)
        BY <1>9 DEF WakeCommit
    <2> HIDE DEF t
    <2> QED
        BY <1>0, <2>1, <2>2, enqueue_lockedServes DEF StepSound
<1> QED
    BY <1>2, <1>3, <1>4, <1>5, <1>6, <1>7, <1>8, <1>9, TickServes
    DEF Next, sched_start, CallSchedule, WakeCheck, SetCpuQuota, vars

LEMMA InitSInv == Init => SInv
<1> SUFFICES ASSUME Init PROVE SInv
    OBVIOUS
<1>1. IInv
    BY InitIInv
<1>2. Serves(sch) /\ \A t \in Threads : quota[t] = 0
    BY ThreadsAssumption DEF Init, Serves
<1> QED
    BY <1>1, <1>2 DEF SInv

LEMMA QuotaStays ==
    ASSUME SInv, [Next]_vars PROVE \A t \in Threads \ Throttled : quota'[t] = 0
<1>1. quota \in [Threads -> 0 .. Window] /\ \A t \in Threads \ Throttled : quota[t] = 0
    BY DEF SInv, IInv, TypeOK
<1>2. ASSUME NEW t \in Throttled, NEW n \in Quotas, SetCpuQuota(t, n)
      PROVE  \A u \in Threads \ Throttled : quota'[u] = 0
    BY <1>1, <1>2 DEF SetCpuQuota
<1>3. ASSUME Tick PROVE quota' = quota
    BY <1>3 DEF Tick, TickKillsCurrent, TickCharges
<1> QED
    BY <1>1, <1>2, <1>3 DEF Next, vars, Create, sched_start, Block, thread_yield,
       thread_exit, CallSchedule, Wake, WakeCheck, WakeCommit

LEMMA NextSInv == SInv /\ [Next]_vars => SInv'
<1> SUFFICES ASSUME SInv, [Next]_vars PROVE SInv'
    OBVIOUS
<1>1. IInv' /\ Serves(sch') /\ \A t \in Threads \ Throttled : quota'[t] = 0
    BY NextIInv, NextServes, QuotaStays DEF SInv, StepSound
<1>2. Serves(sch)'
    BY <1>1 DEF Serves
<1> QED
    BY <1>1, <1>2 DEF SInv

----------------------------------------------------------------------------
(* The theorems *)

THEOREM ServesInvariant == Spec => []SInv
BY InitSInv, NextSInv, PTL DEF Spec

\* In every reachable state what can run is in a ready list, what is in one can run or
\* is dead, and the idle thread is there for schedule() (sched.c, g_idle is null).
THEOREM ScheduleFinds == Spec => []ListsServe
<1>1. SInv => ListsServe
    <2> SUFFICES ASSUME SInv PROVE ListsServe
        OBVIOUS
    <2>1. Serves(sch) /\ LinkedAs(sch, sch.queue) /\ Idle \in Threads /\ cur = sch.cur
        BY ThreadsAssumption DEF SInv, IInv, Sound, cur
    <2>2. QueuedAreRunnable
        BY <2>1 DEF Serves, QueuedAreRunnable
    <2>3. IdleAvailable
        BY <2>1 DEF Serves, LinkedAs, IdleAvailable, LOW, MID, HIGH, Queues
    <2> QED
        BY <2>2, <2>3 DEF ListsServe
<1> QED
    BY <1>1, ServesInvariant, PTL

\* No tick, wake-up, kill or quota revives a dead thread, but for the wake-up that had
\* tested it before it died (sched_enqueue_thread's test outside the lock).
THEOREM DeadStay == Spec => DeadStaysDead
<1>1. SInv /\ [Next]_vars =>
        [\A t \in Threads :
            sch.state[t] = "DEAD" /\ ~InFlight(t) => sch'.state[t] = "DEAD"]_vars
    BY NextServes DEF StepSound
<1> QED
    BY <1>1, ServesInvariant, PTL DEF Spec, DeadStaysDead

\* Whenever the CPU changes hands no READY thread has a higher queue than the new one.
THEOREM PrioritiesStrict == Spec => StrictPriority
<1>1. SInv /\ [Next]_vars =>
        [sch'.cur # sch.cur =>
            \A t \in Threads : sch'.state[t] = "READY" =>
                                    sch'.queue[t] <= sch'.queue[sch'.cur]]_vars
    BY NextServes DEF StepSound, Strict
<1> QED
    BY <1>1, ServesInvariant, PTL DEF Spec, StrictPriority

=============================================================================
