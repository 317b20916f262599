---------------------------- MODULE CallsProofs ----------------------------
(***************************************************************************)
(* For every set of tasks, descriptors and pipes, and rings of any size:   *)
(* each open file is held once and each pipe lives as long as its ends; a  *)
(* ring keeps what was written in order; a task that sleeps in poll is     *)
(* linked, once, while none of its descriptors is ready.  For every set of *)
(* files and programs, and buffers of any size: a read finds what was      *)
(* written, and mv takes nothing away that did not arrive.                 *)
(***************************************************************************)
EXTENDS Calls, FileIo, ListsProofs

Entries == {Closed, End("plain", 0)} \cup [kind : {"read", "write"}, pipe : 1..MaxPipes]
Rings == [live : BOOLEAN, readers : Nat, writers : Nat, head : 0..PIPE_BUF_SIZE - 1,
          tail : 0..PIPE_BUF_SIZE - 1, len : 0..PIPE_BUF_SIZE,
          data : [0..PIPE_BUF_SIZE - 1 -> 0..PIPE_BUF_SIZE]]

Types ==
    /\ tstate \in [Callers -> {"unborn", "user", "asleep", "dead", "gone"}]
    /\ fd_table \in [Callers -> [Fds -> Entries]]
    /\ pipes \in [1..MaxPipes -> Rings]
    /\ sent \in [1..MaxPipes -> 0..PIPE_BUF_SIZE]
    /\ call_ \in [Callers -> [op : {"none", "read", "write", "poll"}, fds : SUBSET Fds, left : Int]]
    /\ g_poll_waiters \in Seq(Callers)
    /\ waiter \in [Callers -> {"none", "linked", "freed"}]

\* The descriptors of the table F that have a file, and those that have one end of p.
Pairs == Callers \X Fds
OpenIn(F) == { h \in Pairs : F[h[1]][h[2]] # Closed }
EndsIn(F, kind, p) == { h \in Pairs : F[h[1]][h[2]] = End(kind, p) }

Counts(F, n, P) ==
    /\ n = Cardinality(OpenIn(F))
    /\ \A p \in 1..MaxPipes :
         /\ P[p].readers = Cardinality(EndsIn(F, "read", p))
         /\ P[p].writers = Cardinality(EndsIn(F, "write", p))
         /\ P[p].live <=> EndsIn(F, "read", p) \cup EndsIn(F, "write", p) # {}
         /\ ~P[p].live => P[p] = NoPipe

\* The table G is F with the descriptors C of t closed, or with fd of t holding e.
Emptied(F, t, C, G) ==
    \A u \in Callers, d \in Fds :
        /\ u = t /\ d \in C => G[u][d] = Closed
        /\ u # t \/ d \notin C => G[u][d] = F[u][d]
OpenSlots(F, t, C) == {fd \in C : F[t][fd] # Closed}
EndSlots(F, t, C, kind, p) == {fd \in C : F[t][fd] = End(kind, p)}
Taken(F, t, C, P, rd, wr) ==
    \A p \in 1..MaxPipes :
        /\ rd[p] = P[p].readers - Cardinality(EndSlots(F, t, C, "read", p))
        /\ wr[p] = P[p].writers - Cardinality(EndSlots(F, t, C, "write", p))
Shrunk(P, rd, wr, Q) ==
    Q = [p \in 1..MaxPipes |-> IF rd[p] = 0 /\ wr[p] = 0 THEN NoPipe
                               ELSE [P[p] EXCEPT !.readers = rd[p], !.writers = wr[p]]]
SameRings(P, Q) == \A p \in 1..MaxPipes : Q[p] = P[p]
Pipeless(F, t, C) == \A fd \in C : F[t][fd].pipe = 0
Fill(F, t, fd, e) == [F EXCEPT ![t][fd] = e]
Filled(F, t, fd, e, G) ==
    /\ G[t][fd] = e
    /\ \A u \in Callers, d \in Fds : u # t \/ d # fd => G[u][d] = F[u][d]

\* What a file in one more descriptor changes.
Gained(F, t, fd, e, G) ==
    /\ Cardinality(OpenIn(G)) = Cardinality(OpenIn(F)) + 1
    /\ \A p \in 1..MaxPipes : \A kind \in {"read", "write"} :
          /\ e = End(kind, p) => EndsIn(G, kind, p) = EndsIn(F, kind, p) \cup {<<t, fd>>}
          /\ e # End(kind, p) => EndsIn(G, kind, p) = EndsIn(F, kind, p)

Gone == \A t \in Callers : tstate[t] = "gone" => \A fd \in Fds : fd_table[t][fd] = Closed

On(t) == t \in ToSet(g_poll_waiters)
Once(s) == \A i, j \in DOMAIN s : s[i] = s[j] => i = j
Polls(t) == tstate[t] = "asleep" /\ call_[t].op = "poll"

Waits ==
    /\ Once(g_poll_waiters)
    /\ \A t \in Callers :
         /\ waiter[t] = "linked" <=> On(t)
         /\ On(t) => tstate[t] \in {"asleep", "dead", "gone"}
         /\ Polls(t) => On(t) /\ \A fd \in call_[t].fds : WouldSleep(t, fd)

\* The tail is behind what the ring holds, and this is the end of what was sent.
Wrap(x, n) == x % n
OrderedRing(head, tail, len, data, s) ==
    /\ tail = Wrap(head + len, PIPE_BUF_SIZE)
    /\ \A i \in 0..len - 1 : data[Wrap(head + i, PIPE_BUF_SIZE)] = Wrap(s - len + i, Units)

Orders ==
    \A p \in 1..MaxPipes : pipes[p].live =>
        OrderedRing(pipes[p].head, pipes[p].tail, pipes[p].len, pipes[p].data, sent[p])

IInv == Types /\ Counts(fd_table, files, pipes) /\ Gone /\ Waits /\ Orders

-----------------------------------------------------------------------------
(* Descriptors *)

LEMMA PairsFinite ==
    /\ IsFiniteSet(Pairs) /\ IsFiniteSet(Fds)
    /\ \A S \in SUBSET Pairs : IsFiniteSet(S) /\ Cardinality(S) \in Nat
    /\ \A S \in SUBSET Fds : IsFiniteSet(S) /\ Cardinality(S) \in Nat
<1>1. IsFiniteSet(Pairs) /\ IsFiniteSet(Fds)
    BY CallsAssumption, FS_Product DEF Pairs
<1>2. ASSUME NEW S \in SUBSET Pairs PROVE IsFiniteSet(S) /\ Cardinality(S) \in Nat
    BY <1>1, FS_Subset, FS_CardinalityType
<1>3. ASSUME NEW S \in SUBSET Fds PROVE IsFiniteSet(S) /\ Cardinality(S) \in Nat
    BY <1>1, FS_Subset, FS_CardinalityType
<1> QED
    BY <1>1, <1>2, <1>3

\* A task's descriptors are as many pairs.
LEMMA PairsOfTask ==
    ASSUME NEW t \in Callers, NEW C \in SUBSET Fds
    PROVE  /\ {t} \X C \in SUBSET Pairs
           /\ Cardinality({t} \X C) = Cardinality(C)
<1>1. {t} \X C \in SUBSET Pairs
    BY DEF Pairs
<1>2. IsFiniteSet({t}) /\ Cardinality({t}) = 1 /\ IsFiniteSet(C) /\ Cardinality(C) \in Nat
    BY FS_Singleton, PairsFinite
<1>3. Cardinality({t} \X C) = Cardinality({t}) * Cardinality(C)
    BY <1>2, FS_Product
<1> QED
    BY <1>1, <1>2, <1>3

\* Pairs of one task taken out of a set that has them.
LEMMA PairsLeave ==
    ASSUME NEW S \in SUBSET Pairs, NEW t \in Callers, NEW C \in SUBSET Fds, {t} \X C \subseteq S
    PROVE  Cardinality(S \ ({t} \X C)) = Cardinality(S) - Cardinality(C)
<1>1. IsFiniteSet(S) /\ S \cap ({t} \X C) = {t} \X C
    BY PairsFinite
<1>2. Cardinality(S \ ({t} \X C)) = Cardinality(S) - Cardinality(S \cap ({t} \X C))
    BY <1>1, FS_Difference
<1> QED
    BY <1>1, <1>2, PairsOfTask

LEMMA EndFacts ==
    ASSUME NEW kind, NEW p \in 1..MaxPipes
    PROVE  End(kind, p) # Closed /\ End(kind, p).pipe # 0
<1>1. End(kind, p).pipe = p /\ Closed.pipe = 0 /\ p # 0
    BY DEF End, Closed
<1> QED
    BY <1>1

LEMMA MinusZero == \A a \in Nat : a - 0 = a
OBVIOUS

LEMMA NoEnds == \A S, T : S \cup T = {} <=> S = {} /\ T = {}
OBVIOUS

LEMMA EmptyRing ==
    /\ NoPipe \in Rings
    /\ ~NoPipe.live /\ NoPipe.readers = 0 /\ NoPipe.writers = 0
<1>1. 0 \in 0..PIPE_BUF_SIZE - 1 /\ 0 \in 0..PIPE_BUF_SIZE
    BY CallsAssumption
<1>2. [i \in 0..PIPE_BUF_SIZE - 1 |-> 0] \in [0..PIPE_BUF_SIZE - 1 -> 0..PIPE_BUF_SIZE]
    BY <1>1
<1> QED
    BY <1>1, <1>2 DEF NoPipe, Rings

\* What vfs_close leaves of a table and of the pipes.
LEMMA ClosesCount ==
    ASSUME NEW F \in [Callers -> [Fds -> Entries]], NEW n, NEW P \in [1..MaxPipes -> Rings],
           Counts(F, n, P), NEW t \in Callers, NEW C \in SUBSET Fds, NEW F2, NEW P2,
           F2 \in [Callers -> [Fds -> Entries]], Emptied(F, t, C, F2),
           NEW rd, NEW wr, Taken(F, t, C, P, rd, wr), Shrunk(P, rd, wr, P2)
    PROVE  /\ Counts(F2, n - Cardinality(OpenSlots(F, t, C)), P2)
           /\ P2 \in [1..MaxPipes -> Rings]
<1>0. ASSUME NEW h \in Pairs, NEW E \in SUBSET Fds
      PROVE  h[1] \in Callers /\ h[2] \in Fds /\ (h \in {t} \X E <=> h[1] = t /\ h[2] \in E)
    BY DEF Pairs
<1>1. ASSUME NEW h \in Pairs
      PROVE  /\ h[1] = t /\ h[2] \in C => F2[h[1]][h[2]] = Closed
             /\ h[1] # t \/ h[2] \notin C => F2[h[1]][h[2]] = F[h[1]][h[2]]
    BY DEF Emptied, Pairs
<1>2. ASSUME NEW kind \in {"read", "write"}, NEW p \in 1..MaxPipes
      PROVE  Cardinality(EndsIn(F2, kind, p)) =
                Cardinality(EndsIn(F, kind, p)) - Cardinality(EndSlots(F, t, C, kind, p))
    <2> DEFINE E == EndSlots(F, t, C, kind, p)
    <2>0. \A fd : fd \in E <=> fd \in C /\ F[t][fd] = End(kind, p)
        BY DEF EndSlots
    <2>1. E \in SUBSET Fds /\ {t} \X E \subseteq EndsIn(F, kind, p) /\ EndsIn(F, kind, p) \in SUBSET Pairs
        BY DEF EndsIn, Pairs, EndSlots
    <2>2. EndsIn(F2, kind, p) = EndsIn(F, kind, p) \ ({t} \X E)
        <3>1. End(kind, p) # Closed
            BY DEF End, Closed
        <3>2. ASSUME NEW h \in Pairs
              PROVE  h \in EndsIn(F2, kind, p) <=> h \in EndsIn(F, kind, p) /\ h \notin {t} \X E
            <4> HIDE DEF E
            <4>1. CASE h[1] = t /\ h[2] \in C
                BY <1>0, <1>1, <2>0, <2>1, <3>1, <4>1 DEF EndsIn
            <4>2. CASE h[1] # t \/ h[2] \notin C
                BY <1>0, <1>1, <2>0, <2>1, <4>2 DEF EndsIn
            <4> QED
                BY <4>1, <4>2
        <3> QED
            BY <3>2 DEF EndsIn
    <2> HIDE DEF E
    <2>3. Cardinality(EndsIn(F, kind, p) \ ({t} \X E)) = Cardinality(EndsIn(F, kind, p)) - Cardinality(E)
        BY <2>1, PairsLeave
    <2> QED
        BY <2>2, <2>3 DEF E
<1>3. Cardinality(OpenIn(F2)) =
            Cardinality(OpenIn(F)) - Cardinality(OpenSlots(F, t, C))
    <2> DEFINE E == OpenSlots(F, t, C)
    <2>0. \A fd : fd \in E <=> fd \in C /\ F[t][fd] # Closed
        BY DEF OpenSlots
    <2>1. E \in SUBSET Fds /\ {t} \X E \subseteq OpenIn(F) /\ OpenIn(F) \in SUBSET Pairs
        BY DEF OpenIn, Pairs, OpenSlots
    <2>2. OpenIn(F2) = OpenIn(F) \ ({t} \X E)
        <3>1. ASSUME NEW h \in Pairs
              PROVE  h \in OpenIn(F2) <=> h \in OpenIn(F) /\ h \notin {t} \X E
            <4> HIDE DEF E
            <4>1. CASE h[1] = t /\ h[2] \in C
                BY <1>0, <1>1, <2>0, <2>1, <4>1 DEF OpenIn
            <4>2. CASE h[1] # t \/ h[2] \notin C
                BY <1>0, <1>1, <2>0, <2>1, <4>2 DEF OpenIn
            <4> QED
                BY <4>1, <4>2
        <3> QED
            BY <3>1 DEF OpenIn
    <2> HIDE DEF E
    <2>3. Cardinality(OpenIn(F) \ ({t} \X E)) = Cardinality(OpenIn(F)) - Cardinality(E)
        BY <2>1, PairsLeave
    <2> QED
        BY <2>2, <2>3 DEF E
<1>4. ASSUME NEW p \in 1..MaxPipes
      PROVE  /\ rd[p] = Cardinality(EndsIn(F2, "read", p)) /\ rd[p] \in Nat
             /\ wr[p] = Cardinality(EndsIn(F2, "write", p)) /\ wr[p] \in Nat
             /\ rd[p] = 0 <=> EndsIn(F2, "read", p) = {}
             /\ wr[p] = 0 <=> EndsIn(F2, "write", p) = {}
    <2>1. \A k \in {"read", "write"} : EndsIn(F2, k, p) \in SUBSET Pairs
        BY DEF EndsIn
    <2>2. \A k \in {"read", "write"} : IsFiniteSet(EndsIn(F2, k, p)) /\ Cardinality(EndsIn(F2, k, p)) \in Nat
        BY <2>1, PairsFinite
    <2>3. \A k \in {"read", "write"} : Cardinality(EndsIn(F2, k, p)) = 0 <=> EndsIn(F2, k, p) = {}
        BY <2>2, FS_EmptySet
    <2>4. rd[p] = Cardinality(EndsIn(F2, "read", p)) /\ wr[p] = Cardinality(EndsIn(F2, "write", p))
        BY <1>2 DEF Counts, Taken
    <2> QED
        BY <2>2, <2>3, <2>4
<1>5. ASSUME NEW p \in 1..MaxPipes
      PROVE  /\ P2[p].readers = rd[p] /\ P2[p].writers = wr[p]
             /\ P2[p].live <=> ~(rd[p] = 0 /\ wr[p] = 0)
             /\ ~P2[p].live => P2[p] = NoPipe
             /\ P2[p] \in Rings
    <2>1. P[p] \in Rings /\ NoPipe \in Rings /\ ~NoPipe.live /\ NoPipe.readers = 0 /\ NoPipe.writers = 0
        BY EmptyRing
    <2>2. CASE rd[p] = 0 /\ wr[p] = 0
        BY <2>1, <2>2 DEF Shrunk
    <2>3. CASE ~(rd[p] = 0 /\ wr[p] = 0)
        <3>1. P2[p] = [P[p] EXCEPT !.readers = rd[p], !.writers = wr[p]]
            BY <2>3 DEF Shrunk
        <3>2. P2[p] \in Rings /\ P2[p].live = P[p].live /\ P2[p].readers = rd[p] /\ P2[p].writers = wr[p]
            BY <1>4, <2>1, <3>1 DEF Rings
        <3>3. P[p].live
            <4>1. EndsIn(F2, "read", p) \cup EndsIn(F2, "write", p) # {}
                BY <1>4, <2>3
            <4>2. End("read", p) # Closed /\ End("write", p) # Closed
                BY DEF End, Closed
            <4>3. /\ EndsIn(F2, "read", p) \subseteq EndsIn(F, "read", p)
                  /\ EndsIn(F2, "write", p) \subseteq EndsIn(F, "write", p)
                BY <1>0, <1>1, <4>2 DEF EndsIn
            <4> QED
                BY <4>1, <4>3 DEF Counts
        <3> QED
            BY <2>3, <3>2, <3>3
    <2> QED
        BY <2>2, <2>3
<1>6. Counts(F2, n - Cardinality(OpenSlots(F, t, C)), P2)
    <2>1. n - Cardinality(OpenSlots(F, t, C)) = Cardinality(OpenIn(F2))
        BY <1>3 DEF Counts
    <2>2. ASSUME NEW p \in 1..MaxPipes
          PROVE  /\ P2[p].readers = Cardinality(EndsIn(F2, "read", p))
                 /\ P2[p].writers = Cardinality(EndsIn(F2, "write", p))
                 /\ P2[p].live <=> EndsIn(F2, "read", p) \cup EndsIn(F2, "write", p) # {}
                 /\ ~P2[p].live => P2[p] = NoPipe
        <3>1. rd[p] = 0 /\ wr[p] = 0 <=> EndsIn(F2, "read", p) \cup EndsIn(F2, "write", p) = {}
            <4>1. /\ rd[p] = 0 <=> EndsIn(F2, "read", p) = {}
                  /\ wr[p] = 0 <=> EndsIn(F2, "write", p) = {}
                BY <1>4
            <4>2. EndsIn(F2, "read", p) \cup EndsIn(F2, "write", p) = {}
                    <=> EndsIn(F2, "read", p) = {} /\ EndsIn(F2, "write", p) = {}
                BY NoEnds
            <4> QED
                BY <4>1, <4>2, Zenon
        <3>2. P2[p].readers = Cardinality(EndsIn(F2, "read", p)) /\ P2[p].writers = Cardinality(EndsIn(F2, "write", p))
            <4>1. P2[p].readers = rd[p] /\ P2[p].writers = wr[p]
                BY <1>5
            <4> QED
                BY <1>4, <4>1
        <3>3. P2[p].live <=> ~(rd[p] = 0 /\ wr[p] = 0)
            BY <1>5
        <3>4. P2[p].live <=> EndsIn(F2, "read", p) \cup EndsIn(F2, "write", p) # {}
            BY <3>1, <3>3, Zenon
        <3> QED
            BY <1>5, <3>2, <3>4
    <2> QED
        BY <2>1, <2>2 DEF Counts
<1>7. P2 \in [1..MaxPipes -> Rings]
    <2>1. DOMAIN P2 = 1..MaxPipes /\ P2 = [p \in 1..MaxPipes |-> P2[p]]
        BY DEF Shrunk
    <2> QED
        BY <1>5, <2>1
<1> QED
    BY <1>6, <1>7

\* Descriptors without a pipe change none.
LEMMA ClosesNoPipe ==
    ASSUME NEW F, NEW n, NEW P \in [1..MaxPipes -> Rings],
           Counts(F, n, P), NEW t, NEW C, NEW P2,
           NEW rd, NEW wr, Taken(F, t, C, P, rd, wr), Shrunk(P, rd, wr, P2),
           Pipeless(F, t, C)
    PROVE  SameRings(P, P2)
<1> SUFFICES ASSUME NEW p \in 1..MaxPipes PROVE P2[p] = P[p]
    BY DEF SameRings
<1>1. P[p] \in Rings /\ (~P[p].live => P[p] = NoPipe) /\ NoPipe.readers = 0 /\ NoPipe.writers = 0
    BY DEF Counts, NoPipe
<1>2. EndSlots(F, t, C, "read", p) = {} /\ EndSlots(F, t, C, "write", p) = {}
    <2>1. ASSUME NEW fd \in C PROVE F[t][fd] # End("read", p) /\ F[t][fd] # End("write", p)
        BY EndFacts DEF Pipeless
    <2> QED
        BY <2>1 DEF EndSlots
<1>3. rd[p] = P[p].readers /\ wr[p] = P[p].writers
    <2>1. rd[p] = P[p].readers - Cardinality({}) /\ wr[p] = P[p].writers - Cardinality({})
        BY <1>2 DEF Taken
    <2>2. P[p].readers \in Nat /\ P[p].writers \in Nat /\ Cardinality({}) = 0
        BY <1>1, FS_EmptySet DEF Rings
    <2> QED
        BY <2>1, <2>2, MinusZero
<1>4. CASE rd[p] = 0 /\ wr[p] = 0
    <2>1. P2[p] = NoPipe
        BY <1>4 DEF Shrunk
    <2>2. EndsIn(F, "read", p) = {} /\ EndsIn(F, "write", p) = {}
        <3>1. \A k \in {"read", "write"} : EndsIn(F, k, p) \in SUBSET Pairs
            BY DEF EndsIn
        <3>2. \A k \in {"read", "write"} : IsFiniteSet(EndsIn(F, k, p))
            BY <3>1, PairsFinite
        <3> QED
            BY <1>3, <1>4, <3>2, FS_EmptySet DEF Counts
    <2> QED
        BY <1>1, <2>1, <2>2 DEF Counts
<1>5. CASE ~(rd[p] = 0 /\ wr[p] = 0)
    BY <1>1, <1>3, <1>5 DEF Rings, Shrunk
<1> QED
    BY <1>4, <1>5

\* vfs_close of some descriptors of a task.
LEMMA CloseFilesCounts ==
    ASSUME Types, Counts(fd_table, files, pipes), NEW t \in Callers, NEW C \in SUBSET Fds,
           CloseFiles(t, C)
    PROVE  /\ Counts(fd_table', files', pipes')
           /\ fd_table' \in [Callers -> [Fds -> Entries]]
           /\ pipes' \in [1..MaxPipes -> Rings]
           /\ Pipeless(fd_table, t, C) => pipes' = pipes
           /\ Emptied(fd_table, t, C, fd_table')
<1> DEFINE rd == [p \in 1..MaxPipes |-> pipes[p].readers - Cardinality(EndSlots(fd_table, t, C, "read", p))]
           wr == [p \in 1..MaxPipes |-> pipes[p].writers - Cardinality(EndSlots(fd_table, t, C, "write", p))]
           new == [fd \in Fds |-> IF fd \in C THEN Closed ELSE fd_table[t][fd]]
<1>1. /\ fd_table \in [Callers -> [Fds -> Entries]]
      /\ pipes \in [1..MaxPipes -> Rings]
    BY DEF Types
<1>2. fd_table' \in [Callers -> [Fds -> Entries]] /\ Emptied(fd_table, t, C, fd_table')
    <2>1. fd_table' = [fd_table EXCEPT ![t] = new]
        BY <1>1 DEF CloseFiles
    <2>2. Closed \in Entries
        BY DEF Entries
    <2>3. new \in [Fds -> Entries] /\ \A fd \in Fds : new[fd] = IF fd \in C THEN Closed ELSE fd_table[t][fd]
        BY <1>1, <2>2
    <2> HIDE DEF new
    <2> QED
        BY <1>1, <2>1, <2>3 DEF Emptied
<1>3. files' = files - Cardinality(OpenSlots(fd_table, t, C))
    BY DEF CloseFiles, Open, fd_get, OpenSlots
<1>4. Shrunk(pipes, rd, wr, pipes')
    BY <1>1 DEF CloseFiles, pipefs_close, Ends, fd_get, EndSlots, Shrunk
<1>5. Taken(fd_table, t, C, pipes, rd, wr)
    BY DEF Taken
<1> HIDE DEF rd, wr
<1>6. /\ Counts(fd_table', files - Cardinality(OpenSlots(fd_table, t, C)), pipes')
      /\ pipes' \in [1..MaxPipes -> Rings]
    BY <1>1, <1>2, <1>4, <1>5, ClosesCount
<1>7. ASSUME Pipeless(fd_table, t, C) PROVE pipes' = pipes
    <2>1. SameRings(pipes, pipes')
        BY <1>1, <1>4, <1>5, <1>7, ClosesNoPipe
    <2>2. pipes = [p \in 1..MaxPipes |-> pipes[p]] /\ pipes' = [p \in 1..MaxPipes |-> pipes'[p]]
        BY <1>1, <1>6
    <2> QED
        BY <2>1, <2>2 DEF SameRings
<1> QED
    BY <1>2, <1>3, <1>6, <1>7

\* A free descriptor, and a second one.
LEMMA FreeFdFound ==
    ASSUME NEW T \in SUBSET Fds, T # {}
    PROVE  Min(T) \in T
<1>1. Fds \subseteq Nat
    BY CallsAssumption
<1>2. \E x \in T : \A y \in T : x <= y
    BY <1>1, NatMin
<1> QED
    BY <1>2 DEF Min

LEMMA TwoFree ==
    ASSUME NEW T \in SUBSET Fds, Cardinality(T) >= 2
    PROVE  T # {} /\ \A x : T \ {x} # {}
<1>1. IsFiniteSet(T) /\ Cardinality(T) \in Nat
    BY PairsFinite
<1>2. T # {}
    BY FS_EmptySet
<1>3. ASSUME NEW x, T \ {x} = {} PROVE FALSE
    <2>1. T \subseteq {x} /\ T = {x}
        BY <1>2, <1>3
    <2>2. Cardinality(T) = 1
        BY <2>1, FS_Singleton
    <2> QED
        BY <2>2
<1> QED
    BY <1>2, <1>3

LEMMA FillTable ==
    ASSUME NEW F \in [Callers -> [Fds -> Entries]], NEW t \in Callers, NEW fd \in Fds, NEW e \in Entries
    PROVE  /\ Fill(F, t, fd, e) \in [Callers -> [Fds -> Entries]]
           /\ Filled(F, t, fd, e, Fill(F, t, fd, e))
<1> DEFINE new == [F[t] EXCEPT ![fd] = e]
<1>1. new \in [Fds -> Entries] /\ \A d \in Fds : new[d] = IF d = fd THEN e ELSE F[t][d]
    OBVIOUS
<1>2. Fill(F, t, fd, e) = [F EXCEPT ![t] = new]
    BY DEF Fill
<1> HIDE DEF new
<1> QED
    BY <1>1, <1>2 DEF Filled

\* A free descriptor gets a file.
LEMMA OpensCount ==
    ASSUME NEW F \in [Callers -> [Fds -> Entries]], NEW t \in Callers, NEW fd \in Fds, F[t][fd] = Closed,
           NEW e \in Entries, e # Closed, NEW G \in [Callers -> [Fds -> Entries]], Filled(F, t, fd, e, G)
    PROVE  Gained(F, t, fd, e, G)
<1>1. \A u \in Callers, d \in Fds : G[u][d] = IF u = t /\ d = fd THEN e ELSE F[u][d]
    BY DEF Filled
<1>2. \A h \in Pairs : h[1] \in Callers /\ h[2] \in Fds /\ (h = <<t, fd>> <=> h[1] = t /\ h[2] = fd)
    BY DEF Pairs
<1>3. <<t, fd>> \in Pairs /\ <<t, fd>> \notin OpenIn(F) /\ OpenIn(F) \in SUBSET Pairs
    BY DEF Pairs, OpenIn
<1>4. OpenIn(G) = OpenIn(F) \cup {<<t, fd>>}
    <2>1. ASSUME NEW h \in Pairs PROVE h \in OpenIn(G) <=> h \in OpenIn(F) \/ h = <<t, fd>>
        BY <1>1, <1>2 DEF OpenIn
    <2> QED
        BY <1>3, <2>1 DEF OpenIn
<1>5. Cardinality(OpenIn(G)) = Cardinality(OpenIn(F)) + 1
    BY <1>3, <1>4, PairsFinite, FS_AddElement
<1>6. ASSUME NEW p \in 1..MaxPipes, NEW kind \in {"read", "write"}
      PROVE  /\ e = End(kind, p) => EndsIn(G, kind, p) = EndsIn(F, kind, p) \cup {<<t, fd>>}
             /\ e # End(kind, p) => EndsIn(G, kind, p) = EndsIn(F, kind, p)
    <2>1. End(kind, p) # Closed
        BY EndFacts
    <2>2. ASSUME NEW h \in Pairs
          PROVE  h \in EndsIn(G, kind, p) <=> h \in EndsIn(F, kind, p) \/ (h = <<t, fd>> /\ e = End(kind, p))
        BY <1>1, <1>2, <2>1 DEF EndsIn
    <2> QED
        BY <1>3, <2>2 DEF EndsIn
<1> QED
    BY <1>5, <1>6 DEF Gained

\* vfs_open.
LEMMA OpenFileCounts ==
    ASSUME Types, Counts(fd_table, files, pipes), NEW t \in Callers, OpenFile(t)
    PROVE  /\ Counts(fd_table', files', pipes')
           /\ fd_table' \in [Callers -> [Fds -> Entries]]
           /\ \A u \in Callers, fd \in Fds : u # t => fd_table'[u][fd] = fd_table[u][fd]
<1>1. fd_table \in [Callers -> [Fds -> Entries]] /\ pipes' = pipes
    BY DEF Types, OpenFile
<1>2. CASE FreeFds(t) = {}
    BY <1>1, <1>2 DEF OpenFile
<1>3. CASE FreeFds(t) # {}
    <2> DEFINE fd == fd_alloc(t)
               e == End("plain", 0)
    <2>1. fd \in Fds /\ fd_table[t][fd] = Closed
        BY <1>3, FreeFdFound DEF FreeFds, fd_alloc, fd_get
    <2>2. e \in Entries /\ e # Closed /\ \A p \in 1..MaxPipes : \A k \in {"read", "write"} : e # End(k, p)
        BY DEF Entries, End, Closed
    <2>3. files' = files + 1 /\ fd_table' = [fd_table EXCEPT ![t][fd] = e]
        BY <1>3 DEF OpenFile
    <2> HIDE DEF fd, e
    <2>4. fd_table' \in [Callers -> [Fds -> Entries]] /\ Filled(fd_table, t, fd, e, fd_table')
        <3>1. fd_table' = Fill(fd_table, t, fd, e)
            BY <2>3 DEF Fill
        <3> QED
            BY <1>1, <2>1, <2>2, <3>1, FillTable
    <2>5. /\ Cardinality(OpenIn(fd_table')) = Cardinality(OpenIn(fd_table)) + 1
          /\ \A p \in 1..MaxPipes : \A k \in {"read", "write"} : EndsIn(fd_table', k, p) = EndsIn(fd_table, k, p)
        <3>1. Gained(fd_table, t, fd, e, fd_table')
            BY <1>1, <2>1, <2>2, <2>4, OpensCount
        <3> QED
            BY <2>2, <3>1 DEF Gained
    <2> QED
        <3>1. files' = Cardinality(OpenIn(fd_table'))
            BY <2>3, <2>5 DEF Counts
        <3>2. Counts(fd_table', files', pipes')
            BY <1>1, <2>5, <3>1 DEF Counts
        <3> QED
            BY <2>4, <3>2 DEF Filled
<1> QED
    BY <1>2, <1>3

\* pipefs_create.
LEMMA CreateCounts ==
    ASSUME Types, Counts(fd_table, files, pipes), NEW t \in Callers, pipefs_create(t)
    PROVE  /\ Counts(fd_table', files', pipes')
           /\ fd_table' \in [Callers -> [Fds -> Entries]]
           /\ pipes' \in [1..MaxPipes -> Rings]
           /\ \A u \in Callers, fd \in Fds :
                 u # t \/ fd_table[u][fd] # Closed => fd_table'[u][fd] = fd_table[u][fd]
           /\ \E p \in 1..MaxPipes :
                 /\ ~pipes[p].live /\ sent' = [sent EXCEPT ![p] = 0]
                 /\ pipes' = [pipes EXCEPT ![p] = pipes'[p]]
                 /\ pipes'[p].head = 0 /\ pipes'[p].tail = 0 /\ pipes'[p].len = 0
<1> DEFINE rd == fd_alloc(t)
           wr == Min(FreeFds(t) \ {rd})
           new == [NoPipe EXCEPT !.live = TRUE, !.readers = 1, !.writers = 1]
<1>1. /\ fd_table \in [Callers -> [Fds -> Entries]] /\ pipes \in [1..MaxPipes -> Rings]
      /\ Cardinality(FreeFds(t)) >= 2 /\ files' = files + 2
    BY DEF Types, pipefs_create
<1>2. PICK p \in 1..MaxPipes :
         /\ ~pipes[p].live
         /\ fd_table' = Fill(Fill(fd_table, t, rd, End("read", p)), t, wr, End("write", p))
         /\ pipes' = [pipes EXCEPT ![p] = new]
         /\ sent' = [sent EXCEPT ![p] = 0]
    BY <1>1 DEF pipefs_create, Fill
<1>3. rd \in Fds /\ wr \in Fds /\ rd # wr /\ fd_table[t][rd] = Closed /\ fd_table[t][wr] = Closed
    <2>1. FreeFds(t) \in SUBSET Fds /\ FreeFds(t) \ {rd} \in SUBSET Fds
        BY DEF FreeFds
    <2>2. FreeFds(t) # {} /\ FreeFds(t) \ {rd} # {}
        BY <1>1, <2>1, TwoFree
    <2>3. rd \in FreeFds(t) /\ wr \in FreeFds(t) \ {rd}
        BY <2>1, <2>2, FreeFdFound DEF fd_alloc
    <2> QED
        BY <2>3 DEF FreeFds, fd_get
<1>4. /\ new \in Rings /\ new.live /\ new.readers = 1 /\ new.writers = 1
      /\ new.head = 0 /\ new.tail = 0 /\ new.len = 0
    BY EmptyRing DEF NoPipe, Rings
<1>5. /\ End("read", p) \in Entries /\ End("read", p) # Closed
      /\ End("write", p) \in Entries /\ End("write", p) # Closed
      /\ End("read", p) # End("write", p)
      /\ \A q \in 1..MaxPipes : q # p =>
            /\ End("read", p) # End("write", q) /\ End("write", p) # End("read", q)
            /\ End("read", p) # End("read", q) /\ End("write", p) # End("write", q)
    BY DEF Entries, End, Closed
<1> DEFINE mid == Fill(fd_table, t, rd, End("read", p))
<1> HIDE DEF rd, wr, new
<1>6. /\ mid \in [Callers -> [Fds -> Entries]]
      /\ Filled(fd_table, t, rd, End("read", p), mid)
    BY <1>1, <1>3, <1>5, FillTable
<1>7. mid[t][wr] = Closed
    BY <1>3, <1>6 DEF Filled
<1>8. fd_table' = Fill(mid, t, wr, End("write", p))
    BY <1>2
<1> HIDE DEF mid
<1>9. /\ fd_table' \in [Callers -> [Fds -> Entries]]
      /\ Filled(mid, t, wr, End("write", p), fd_table')
    BY <1>3, <1>5, <1>6, <1>8, FillTable
<1>10. /\ Cardinality(OpenIn(mid)) = Cardinality(OpenIn(fd_table)) + 1
       /\ EndsIn(mid, "read", p) = EndsIn(fd_table, "read", p) \cup {<<t, rd>>}
       /\ EndsIn(mid, "write", p) = EndsIn(fd_table, "write", p)
       /\ \A q \in 1..MaxPipes : q # p =>
             EndsIn(mid, "read", q) = EndsIn(fd_table, "read", q) /\ EndsIn(mid, "write", q) = EndsIn(fd_table, "write", q)
    <2>1. Gained(fd_table, t, rd, End("read", p), mid)
        BY <1>1, <1>3, <1>5, <1>6, OpensCount
    <2>2. Cardinality(OpenIn(mid)) = Cardinality(OpenIn(fd_table)) + 1
        BY <2>1 DEF Gained
    <2>3. /\ EndsIn(mid, "read", p) = EndsIn(fd_table, "read", p) \cup {<<t, rd>>}
          /\ EndsIn(mid, "write", p) = EndsIn(fd_table, "write", p)
        BY <1>5, <2>1, Zenon DEF Gained
    <2>4. ASSUME NEW q \in 1..MaxPipes, q # p
          PROVE  EndsIn(mid, "read", q) = EndsIn(fd_table, "read", q) /\ EndsIn(mid, "write", q) = EndsIn(fd_table, "write", q)
        BY <1>5, <2>1, <2>4, Zenon DEF Gained
    <2> QED
        BY <2>2, <2>3, <2>4
<1>11. /\ Cardinality(OpenIn(fd_table')) = Cardinality(OpenIn(mid)) + 1
       /\ EndsIn(fd_table', "write", p) = EndsIn(mid, "write", p) \cup {<<t, wr>>}
       /\ EndsIn(fd_table', "read", p) = EndsIn(mid, "read", p)
       /\ \A q \in 1..MaxPipes : q # p =>
             EndsIn(fd_table', "read", q) = EndsIn(mid, "read", q) /\ EndsIn(fd_table', "write", q) = EndsIn(mid, "write", q)
    <2>1. Gained(mid, t, wr, End("write", p), fd_table')
        BY <1>3, <1>5, <1>6, <1>7, <1>9, OpensCount
    <2>2. Cardinality(OpenIn(fd_table')) = Cardinality(OpenIn(mid)) + 1
        BY <2>1 DEF Gained
    <2>3. /\ EndsIn(fd_table', "write", p) = EndsIn(mid, "write", p) \cup {<<t, wr>>}
          /\ EndsIn(fd_table', "read", p) = EndsIn(mid, "read", p)
        BY <1>5, <2>1, Zenon DEF Gained
    <2>4. ASSUME NEW q \in 1..MaxPipes, q # p
          PROVE  EndsIn(fd_table', "read", q) = EndsIn(mid, "read", q) /\ EndsIn(fd_table', "write", q) = EndsIn(mid, "write", q)
        BY <1>5, <2>1, <2>4, Zenon DEF Gained
    <2> QED
        BY <2>2, <2>3, <2>4
<1>12. /\ EndsIn(fd_table', "read", p) = {<<t, rd>>} /\ Cardinality(EndsIn(fd_table', "read", p)) = 1
       /\ EndsIn(fd_table', "write", p) = {<<t, wr>>} /\ Cardinality(EndsIn(fd_table', "write", p)) = 1
    <2>1. EndsIn(fd_table, "read", p) = {} /\ EndsIn(fd_table, "write", p) = {}
        BY <1>2, NoEnds DEF Counts
    <2>2. EndsIn(fd_table', "read", p) = {<<t, rd>>} /\ EndsIn(fd_table', "write", p) = {<<t, wr>>}
        BY <1>10, <1>11, <2>1
    <2> QED
        BY <2>2, FS_Singleton
<1>13. pipes' \in [1..MaxPipes -> Rings] /\ pipes'[p] = new /\ \A q \in 1..MaxPipes : q # p => pipes'[q] = pipes[q]
    BY <1>1, <1>2, <1>4
<1>14. files' = Cardinality(OpenIn(fd_table'))
    <2>1. OpenIn(fd_table) \in SUBSET Pairs
        BY DEF OpenIn
    <2>2. Cardinality(OpenIn(fd_table)) \in Nat /\ files = Cardinality(OpenIn(fd_table))
        BY <2>1, PairsFinite DEF Counts
    <2> QED
        BY <1>1, <1>10, <1>11, <2>2
<1>15. Counts(fd_table', files', pipes')
    <2>1. ASSUME NEW q \in 1..MaxPipes
          PROVE  /\ pipes'[q].readers = Cardinality(EndsIn(fd_table', "read", q))
                 /\ pipes'[q].writers = Cardinality(EndsIn(fd_table', "write", q))
                 /\ pipes'[q].live <=> EndsIn(fd_table', "read", q) \cup EndsIn(fd_table', "write", q) # {}
                 /\ ~pipes'[q].live => pipes'[q] = NoPipe
        <3>1. CASE q = p
            BY <1>4, <1>12, <1>13, <3>1
        <3>2. CASE q # p
            <4>1. pipes'[q] = pipes[q] /\ EndsIn(fd_table', "read", q) = EndsIn(fd_table, "read", q)
                    /\ EndsIn(fd_table', "write", q) = EndsIn(fd_table, "write", q)
                BY <1>10, <1>11, <1>13, <3>2
            <4> QED
                BY <4>1 DEF Counts
        <3> QED
            BY <3>1, <3>2
    <2> QED
        BY <1>14, <2>1 DEF Counts
<1>16. ASSUME NEW u \in Callers, NEW fd \in Fds, u # t \/ fd_table[u][fd] # Closed
       PROVE  fd_table'[u][fd] = fd_table[u][fd]
    BY <1>3, <1>6, <1>9, <1>16 DEF Filled
<1>17. /\ pipes' = [pipes EXCEPT ![p] = pipes'[p]]
       /\ pipes'[p].head = 0 /\ pipes'[p].tail = 0 /\ pipes'[p].len = 0
    BY <1>2, <1>4, <1>13
<1> QED
    BY <1>2, <1>9, <1>13, <1>15, <1>16, <1>17

-----------------------------------------------------------------------------
(* The ring *)

LEMMA WrapFacts ==
    ASSUME NEW n \in Nat \ {0}
    PROVE  /\ \A x \in Int : Wrap(x, n) \in 0..n - 1
           /\ \A x \in 0..n - 1 : Wrap(x, n) = x
           /\ \A x \in n..2 * n - 1 : Wrap(x, n) = x - n
           /\ \A x \in -n..-1 : Wrap(x, n) = x + n
<1>1. ASSUME NEW x \in Int PROVE Wrap(x, n) \in 0..n - 1
    BY SMT DEF Wrap
<1>2. ASSUME NEW x \in 0..n - 1 PROVE Wrap(x, n) = x
    BY SMT DEF Wrap
<1>3. ASSUME NEW x \in n..2 * n - 1 PROVE Wrap(x, n) = x - n
    BY SMT DEF Wrap
<1>4. ASSUME NEW x \in -n..-1 PROVE Wrap(x, n) = x + n
    BY SMT DEF Wrap
<1> QED
    BY <1>1, <1>2, <1>3, <1>4

\* Going round the ring in two parts, or one turn back, is going round it once.
LEMMA WrapAdds ==
    ASSUME NEW n \in Nat \ {0}
    PROVE  /\ \A x \in 0..2 * n - 1 : \A y \in 0..n - 1 :
                 x + y <= 2 * n - 1 => Wrap(Wrap(x, n) + y, n) = Wrap(x + y, n)
           /\ \A x \in 0..n - 1 : Wrap(x - n, n) = x
<1>1. ASSUME NEW x \in 0..2 * n - 1, NEW y \in 0..n - 1, x + y <= 2 * n - 1
      PROVE  Wrap(Wrap(x, n) + y, n) = Wrap(x + y, n)
    <2>1. CASE x < n
        BY <1>1, <2>1, WrapFacts
    <2>2. CASE x >= n
        <3>1. Wrap(x, n) = x - n /\ x - n + y \in 0..n - 1 /\ x + y \in n..2 * n - 1
            BY <1>1, <2>2, WrapFacts
        <3>2. Wrap(x - n + y, n) = x - n + y /\ Wrap(x + y, n) = x + y - n
            BY <3>1, WrapFacts
        <3> QED
            BY <3>1, <3>2
    <2> QED
        BY <2>1, <2>2
<1>2. ASSUME NEW x \in 0..n - 1 PROVE Wrap(x - n, n) = x
    <2>1. x - n \in -n..-1
        OBVIOUS
    <2> QED
        BY <2>1, WrapFacts
<1> QED
    BY <1>1, <1>2

LEMMA Sizes == PIPE_BUF_SIZE \in Nat \ {0} /\ Units \in Nat \ {0} /\ Units = PIPE_BUF_SIZE + 1
    BY CallsAssumption DEF Units

\* What a read leaves is in order.
LEMMA TakesInOrder ==
    ASSUME NEW head \in 0..PIPE_BUF_SIZE - 1, NEW len \in 0..PIPE_BUF_SIZE, NEW tail, NEW data,
           NEW s \in 0..PIPE_BUF_SIZE, OrderedRing(head, tail, len, data, s), NEW take \in 0..len
    PROVE  OrderedRing(Wrap(head + take, PIPE_BUF_SIZE), tail, len - take, data, s)
<1> DEFINE n == PIPE_BUF_SIZE
<1>0. n \in Nat \ {0}
    BY Sizes
<1> HIDE DEF n
<1>1. \A y \in 0..n - 1 : head + take + y <= 2 * n - 1 =>
          Wrap(Wrap(head + take, n) + y, n) = Wrap(head + take + y, n)
    <2>1. head + take \in 0..2 * n - 1
        BY <1>0 DEF n
    <2> QED
        BY <1>0, <2>1, WrapAdds
<1>2. tail = Wrap(Wrap(head + take, n) + (len - take), n)
    <2>1. CASE len - take < n
        <3>1. len - take \in 0..n - 1 /\ head + take + (len - take) <= 2 * n - 1
                /\ head + take + (len - take) = head + len
            BY <1>0, <2>1 DEF n
        <3> QED
            BY <1>1, <3>1 DEF OrderedRing, n
    <2>2. CASE len - take >= n
        <3>1. len = n /\ take = 0 /\ len - take = n /\ head + take = head /\ head \in 0..n - 1
            BY <1>0, <2>2 DEF n
        <3>2. Wrap(head, n) = head
            BY <1>0, <3>1, WrapFacts
        <3> QED
            BY <3>1, <3>2 DEF OrderedRing, n
    <2> QED
        BY <1>0, <2>1, <2>2 DEF n
<1>3. ASSUME NEW i \in 0..len - take - 1
      PROVE  data[Wrap(Wrap(head + take, n) + i, n)] = Wrap(s - (len - take) + i, Units)
    <2>1. i \in 0..n - 1 /\ head + take + i <= 2 * n - 1 /\ take + i \in 0..len - 1
            /\ head + take + i = head + (take + i) /\ s - (len - take) + i = s - len + (take + i)
        BY <1>0 DEF n
    <2>2. Wrap(Wrap(head + take, n) + i, n) = Wrap(head + (take + i), n)
        BY <1>1, <2>1
    <2>3. data[Wrap(head + (take + i), n)] = Wrap(s - len + (take + i), Units)
        BY <2>1 DEF OrderedRing, n
    <2> QED
        BY <2>1, <2>2, <2>3
<1> QED
    BY <1>2, <1>3 DEF OrderedRing, n

\* What a write leaves in the slots it fills, and in the others.
Laid(data, d, tail, take, s) ==
    /\ \A i \in 0..take - 1 : d[Wrap(tail + i, PIPE_BUF_SIZE)] = Wrap(s + i, Units)
    /\ \A j \in 0..PIPE_BUF_SIZE - 1 :
          (\A i \in 0..take - 1 : Wrap(tail + i, PIPE_BUF_SIZE) # j) => d[j] = data[j]

\* What was written last is at the end of the ring, behind what it held.
LEMMA PutsInOrder ==
    ASSUME NEW head \in 0..PIPE_BUF_SIZE - 1, NEW len \in 0..PIPE_BUF_SIZE, NEW tail, NEW data,
           NEW s \in 0..PIPE_BUF_SIZE, OrderedRing(head, tail, len, data, s),
           NEW take \in 0..PIPE_BUF_SIZE - len, NEW d, Laid(data, d, tail, take, s)
    PROVE  OrderedRing(head, Wrap(tail + take, PIPE_BUF_SIZE), len + take, d, Wrap(s + take, Units))
<1> DEFINE n == PIPE_BUF_SIZE
<1>0. n \in Nat \ {0} /\ Units \in Nat \ {0} /\ Units = n + 1
    BY Sizes
<1> HIDE DEF n
<1>1. head \in 0..n - 1 /\ len \in 0..n /\ take \in 0..n - len /\ s \in 0..n
    BY DEF n
<1>2. tail = Wrap(head + len, n)
    BY DEF OrderedRing, n
<1>3. ASSUME NEW y \in 0..take, y <= n - 1
      PROVE  Wrap(tail + y, n) = Wrap(head + (len + y), n)
    <2>1. head + len \in 0..2 * n - 1 /\ y \in 0..n - 1 /\ head + len + y <= 2 * n - 1
            /\ head + len + y = head + (len + y)
        BY <1>0, <1>1, <1>3
    <2>2. Wrap(Wrap(head + len, n) + y, n) = Wrap(head + len + y, n)
        BY <1>0, <2>1, WrapAdds
    <2> QED
        BY <1>2, <2>1, <2>2
<1>4. Wrap(tail + take, n) = Wrap(head + (len + take), n)
    <2>1. CASE take <= n - 1
        BY <1>0, <1>1, <1>3, <2>1
    <2>2. CASE take > n - 1
        <3>1. take = n /\ len = 0 /\ head + len = head /\ tail = head
            <4>1. take = n /\ len = 0 /\ head + len = head
                BY <1>0, <1>1, <2>2
            <4> QED
                BY <1>0, <1>1, <1>2, <4>1, WrapFacts
        <3> QED
            BY <3>1, <1>1, <1>0
    <2> QED
        BY <1>0, <1>1, <2>1, <2>2
<1>5. ASSUME NEW i \in 0..len - 1, NEW k \in 0..take - 1
      PROVE  Wrap(tail + k, n) # Wrap(head + i, n)
    <2>1. /\ head + (len + k) \in 0..2 * n - 1 /\ head + i \in 0..2 * n - 1
          /\ k \in 0..take /\ k <= n - 1
          /\ i < len + k /\ len + k < i + n
        BY <1>0, <1>1
    <2>2. Wrap(tail + k, n) = Wrap(head + (len + k), n)
        BY <1>3, <2>1
    <2>3. ASSUME NEW x \in 0..2 * n - 1
          PROVE  (x < n /\ Wrap(x, n) = x) \/ (x >= n /\ Wrap(x, n) = x - n)
        BY <1>0, WrapFacts
    <2>4. Wrap(head + (len + k), n) # Wrap(head + i, n)
        <3>1. PICK a, b : a = head + (len + k) /\ b = head + i
            OBVIOUS
        <3>2. a \in 0..2 * n - 1 /\ b \in 0..2 * n - 1 /\ b < a /\ a < b + n
            BY <1>0, <1>1, <2>1, <3>1
        <3>3. Wrap(a, n) # Wrap(b, n)
            <4>1. (a < n /\ Wrap(a, n) = a) \/ (a >= n /\ Wrap(a, n) = a - n)
                BY <2>3, <3>2
            <4>2. (b < n /\ Wrap(b, n) = b) \/ (b >= n /\ Wrap(b, n) = b - n)
                BY <2>3, <3>2
            <4> QED
                BY <1>0, <3>2, <4>1, <4>2
        <3> QED
            BY <3>1, <3>3
    <2> QED
        BY <2>2, <2>4
<1>6. ASSUME NEW x \in -n..n, s + take < Units \/ x >= 1
      PROVE  Wrap(Wrap(s + take, Units) - (s + take) + x, Units) = Wrap(x, Units)
    <2>1. CASE s + take < Units
        <3>1. Wrap(s + take, Units) = s + take
            BY <1>0, <1>1, <2>1, WrapFacts
        <3> QED
            BY <1>1, <3>1
    <2>2. CASE s + take >= Units
        <3>1. s + take \in Units..2 * Units - 1
            BY <1>0, <1>1, <2>2
        <3>2. Wrap(s + take, Units) = s + take - Units
            BY <1>0, <3>1, WrapFacts
        <3>3. Wrap(s + take, Units) - (s + take) + x = x - Units
            BY <1>0, <1>1, <3>2
        <3>4. x \in 0..Units - 1
            BY <1>0, <1>6, <2>2
        <3>5. Wrap(x - Units, Units) = x /\ Wrap(x, Units) = x
            BY <1>0, <3>4, WrapAdds, WrapFacts
        <3> QED
            BY <3>3, <3>5
    <2> QED
        BY <1>0, <1>1, <2>1, <2>2
<1>7. ASSUME NEW i \in 0..len + take - 1
      PROVE  d[Wrap(head + i, n)] = Wrap(Wrap(s + take, Units) - (len + take) + i, Units)
    <2> DEFINE x == s - len + i
    <2>1. Wrap(s + take, Units) \in Int
        BY <1>0, <1>1, WrapFacts
    <2>2. Wrap(s + take, Units) - (len + take) + i = Wrap(s + take, Units) - (s + take) + x
        BY <1>1, <2>1
    <2>3. CASE i < len
        <3>1. i \in 0..len - 1 /\ x \in -n..n /\ (s + take < Units \/ x >= 1)
            BY <1>0, <1>1, <2>3
        <3>2. Wrap(head + i, n) \in 0..n - 1
            BY <1>0, <1>1, WrapFacts
        <3>3. d[Wrap(head + i, n)] = data[Wrap(head + i, n)]
            BY <1>5, <3>1, <3>2 DEF Laid, n
        <3>4. data[Wrap(head + i, n)] = Wrap(x, Units)
            BY <3>1 DEF OrderedRing, n
        <3>5. Wrap(Wrap(s + take, Units) - (s + take) + x, Units) = Wrap(x, Units)
            BY <1>6, <3>1
        <3> QED
            BY <2>2, <3>3, <3>4, <3>5
    <2>4. CASE i >= len
        <3> DEFINE k == i - len
        <3>1. k \in 0..take - 1 /\ k \in 0..take /\ k <= n - 1 /\ len + k = i /\ x = s + k
            BY <1>0, <1>1, <2>4
        <3>2. Wrap(tail + k, n) = Wrap(head + i, n)
            BY <1>3, <3>1
        <3>3. d[Wrap(tail + k, n)] = Wrap(s + k, Units)
            BY <3>1 DEF Laid, n
        <3>4. Wrap(Wrap(s + take, Units) - (s + take) + x, Units) = Wrap(s + k, Units)
            <4>1. CASE s + take < Units \/ x <= n
                <5>1. x \in -n..n /\ (s + take < Units \/ x >= 1)
                    BY <1>0, <1>1, <3>1, <4>1
                <5> QED
                    BY <1>6, <3>1, <5>1
            <4>2. CASE s + take >= Units /\ x > n
                <5>1. s + take \in Units..2 * Units - 1 /\ x \in Units..2 * Units - 1
                    BY <1>0, <1>1, <3>1, <4>2
                <5>2. Wrap(s + take, Units) = s + take - Units /\ Wrap(x, Units) = x - Units
                    BY <1>0, <5>1, WrapFacts
                <5>3. Wrap(s + take, Units) - (s + take) + x = x - Units /\ x - Units \in 0..Units - 1
                    BY <1>0, <1>1, <5>1, <5>2
                <5> QED
                    BY <1>0, <3>1, <5>2, <5>3, WrapFacts
            <4> QED
                BY <1>0, <1>1, <3>1, <4>1, <4>2
        <3> QED
            BY <2>2, <3>2, <3>3, <3>4
    <2> QED
        BY <1>1, <2>3, <2>4
<1> QED
    BY <1>4, <1>7 DEF OrderedRing, n

-----------------------------------------------------------------------------
(* The list of pollers *)

LEMMA EntryFacts ==
    ASSUME NEW e \in Entries
    PROVE  /\ e.kind = "read" => e.pipe \in 1..MaxPipes /\ e = End("read", e.pipe)
           /\ e.kind = "write" => e.pipe \in 1..MaxPipes /\ e = End("write", e.pipe)
           /\ e = Closed => e.kind = "none"
BY DEF Entries, Closed, End

LEMMA OnFacts ==
    ASSUME NEW t
    PROVE  On(t) <=> \E i \in DOMAIN g_poll_waiters : g_poll_waiters[i] = t
BY DEF On, ToSet

\* A notice empties the list and leaves nobody asleep in poll.
LEMMA NoticeWaits ==
    ASSUME Waits, g_poll_waiters' = <<>>,
           \A u \in Callers : waiter'[u] = IF On(u) THEN "freed" ELSE waiter[u],
           \A u \in Callers : Polls(u)' => Polls(u) /\ ~On(u)
    PROVE  Waits'
<1>1. Once(g_poll_waiters')
    BY DEF Once
<1>2. \A u : ~On(u)'
    BY DEF On, ToSet
<1> QED
    BY <1>1, <1>2 DEF Waits

\* A step that leaves the list alone, and what its pollers wait for.
LEMMA QuietWaits ==
    ASSUME Waits, g_poll_waiters' = g_poll_waiters, waiter' = waiter,
           \A u \in Callers : On(u) => tstate'[u] \in {"asleep", "dead", "gone"},
           \A u \in Callers : Polls(u)' =>
               Polls(u) /\ \A fd \in call_'[u].fds : fd \in call_[u].fds /\ (WouldSleep(u, fd) => WouldSleep(u, fd)')
    PROVE  Waits'
<1>1. Once(g_poll_waiters')
    BY DEF Waits
<1>2. \A u : On(u)' <=> On(u)
    BY DEF On
<1> QED
    BY <1>1, <1>2 DEF Waits

LEMMA WakeFacts ==
    ASSUME NEW W, NEW u \in Callers
    PROVE  Wake(W)[u] = IF u \in W /\ tstate[u] = "asleep" THEN "user" ELSE tstate[u]
BY DEF Wake

\* select_notify_wakeup.
LEMMA NotifyFacts ==
    ASSUME Types, Waits, select_notify_wakeup
    PROVE  /\ g_poll_waiters' = <<>> /\ g_poll_waiters' \in Seq(Callers)
           /\ tstate' \in [Callers -> {"unborn", "user", "asleep", "dead", "gone"}]
           /\ waiter' \in [Callers -> {"none", "linked", "freed"}]
           /\ \A u \in Callers : /\ waiter'[u] = IF On(u) THEN "freed" ELSE waiter[u]
                                /\ tstate'[u] = IF On(u) /\ tstate[u] = "asleep" THEN "user" ELSE tstate[u]
<1>1. g_poll_waiters' = <<>> /\ g_poll_waiters' \in Seq(Callers)
    BY DEF select_notify_wakeup
<1>2. waiter' = [u \in Callers |-> IF On(u) THEN "freed" ELSE waiter[u]]
    BY DEF select_notify_wakeup, On
<1>3. tstate' = [u \in Callers |-> IF On(u) /\ tstate[u] = "asleep" THEN "user" ELSE tstate[u]]
    BY DEF select_notify_wakeup, On, Wake
<1> QED
    BY <1>1, <1>2, <1>3 DEF Types

-----------------------------------------------------------------------------
(* The steps *)

\* A descriptor that is not touched waits on as long as its pipe's state is the same.
LEMMA SleepKept ==
    ASSUME NEW u, NEW fd, fd_table'[u][fd] = fd_table[u][fd], WouldSleep(u, fd),
           pipes'[PipeOf(u, fd)].len = pipes[PipeOf(u, fd)].len,
           pipes'[PipeOf(u, fd)].readers = pipes[PipeOf(u, fd)].readers,
           pipes'[PipeOf(u, fd)].writers = pipes[PipeOf(u, fd)].writers
    PROVE  WouldSleep(u, fd)'
BY DEF WouldSleep, IsEnd, PipeOf, fd_get

LEMMA PollSleeps ==
    ASSUME Types, NEW t \in Callers, NEW fd \in Fds, ~fd_ready(t, fd)
    PROVE  WouldSleep(t, fd)
<1>1. fd_table[t][fd] \in Entries
    BY DEF Types
<1>2. CASE IsEnd(t, fd, "read")
    <2>1. pipes[PipeOf(t, fd)] \in Rings
        BY <1>1, <1>2, EntryFacts DEF Types, IsEnd, PipeOf, fd_get
    <2>2. ~(pipes[PipeOf(t, fd)].len > 0) /\ pipes[PipeOf(t, fd)].writers # 0
        BY <1>2 DEF fd_ready, IsEnd
    <2> QED
        BY <1>2, <2>1, <2>2, CallsAssumption DEF WouldSleep, Rings
<1>3. CASE IsEnd(t, fd, "write")
    <2>1. pipes[PipeOf(t, fd)] \in Rings
        BY <1>1, <1>3, EntryFacts DEF Types, IsEnd, PipeOf, fd_get
    <2>2. ~(pipes[PipeOf(t, fd)].len < PIPE_BUF_SIZE) /\ pipes[PipeOf(t, fd)].readers # 0
        BY <1>3 DEF fd_ready, IsEnd
    <2> QED
        BY <1>3, <2>1, <2>2, CallsAssumption DEF WouldSleep, Rings
<1>4. CASE ~IsEnd(t, fd, "read") /\ ~IsEnd(t, fd, "write")
    BY <1>4 DEF fd_ready
<1> QED
    BY <1>2, <1>3, <1>4

LEMMA InitHolds == CallsInit => IInv
<1> SUFFICES ASSUME CallsInit PROVE IInv
    OBVIOUS
<1>1. Types
    <2>1. Closed \in Entries /\ 0 \in 0..PIPE_BUF_SIZE /\ NoCall \in [op : {"none", "read", "write", "poll"}, fds : SUBSET Fds, left : Int]
        BY CallsAssumption DEF Entries, NoCall
    <2> QED
        BY <2>1, EmptyRing DEF Types, CallsInit
<1>2. Counts(fd_table, files, pipes)
    <2>1. OpenIn(fd_table) = {}
        BY DEF OpenIn, Pairs, CallsInit
    <2>2. \A kind \in {"read", "write"} : \A p \in 1..MaxPipes : EndsIn(fd_table, kind, p) = {}
        <3>1. ASSUME NEW kind \in {"read", "write"}, NEW p \in 1..MaxPipes, NEW h \in Pairs
              PROVE  fd_table[h[1]][h[2]] # End(kind, p)
            <4>1. fd_table[h[1]][h[2]] = Closed
                BY DEF Pairs, CallsInit
            <4> QED
                BY <4>1, EndFacts
        <3> QED
            BY <3>1 DEF EndsIn
    <2>3. files = 0 /\ \A p \in 1..MaxPipes : pipes[p] = NoPipe
        BY DEF CallsInit
    <2>4. Cardinality({}) = 0
        BY FS_EmptySet
    <2> QED
        BY <2>1, <2>2, <2>3, <2>4, EmptyRing DEF Counts
<1>3. Gone
    BY DEF Gone, CallsInit
<1>4. Waits
    BY DEF Waits, CallsInit, Once, On, ToSet, Polls
<1>5. Orders
    BY EmptyRing DEF Orders, CallsInit
<1> QED
    BY <1>1, <1>2, <1>3, <1>4, <1>5 DEF IInv

LEMMA ForkHolds ==
    ASSUME IInv, NEW t \in Callers, NEW c \in Callers, Fork(t, c)
    PROVE  IInv'
<1>1. /\ Types /\ Waits /\ Gone /\ Orders /\ Counts(fd_table, files, pipes)
      /\ tstate[c] = "unborn" /\ tstate' = [tstate EXCEPT ![c] = "user"]
      /\ UNCHANGED <<fd_table, files, pipes, sent, call_, g_poll_waiters, waiter>>
    BY DEF IInv, Fork
<1>2. Types'
    BY <1>1 DEF Types
<1>3. \A u \in Callers : tstate'[u] = IF u = c THEN "user" ELSE tstate[u]
    BY <1>1 DEF Types
<1>4. Waits'
    <2>1. ASSUME NEW u \in Callers, On(u) PROVE tstate'[u] \in {"asleep", "dead", "gone"}
        BY <1>1, <1>3, <2>1 DEF Waits
    <2>2. ASSUME NEW u \in Callers, Polls(u)'
          PROVE  Polls(u) /\ \A fd \in call_'[u].fds : fd \in call_[u].fds /\ (WouldSleep(u, fd) => WouldSleep(u, fd)')
        BY <1>1, <1>3, <2>2, SleepKept DEF Polls
    <2> QED
        BY <1>1, <2>1, <2>2, QuietWaits
<1>5. Counts(fd_table, files, pipes)' /\ Gone' /\ Orders'
    BY <1>1, <1>3 DEF Counts, Gone, Orders
<1> QED
    BY <1>2, <1>4, <1>5 DEF IInv

LEMMA StutterHolds ==
    ASSUME IInv, UNCHANGED <<tstate, fd_table, files, pipes, sent, call_, g_poll_waiters, waiter>>
    PROVE  IInv'
<1>1. Types' /\ Gone' /\ Orders' /\ Counts(fd_table, files, pipes)'
    BY DEF IInv, Types, Gone, Orders, Counts
<1>2. Waits'
    BY DEF IInv, Waits, On, Polls, WouldSleep, IsEnd, PipeOf, fd_get
<1> QED
    BY <1>1, <1>2 DEF IInv

LEMMA SigReturnHolds ==
    ASSUME IInv, NEW t \in Callers, SigReturn(t)
    PROVE  IInv'
BY StutterHolds DEF SigReturn

LEMMA OpenFileHolds ==
    ASSUME IInv, NEW t \in Callers, OpenFile(t)
    PROVE  IInv'
<1>1. /\ Types /\ Waits /\ Gone /\ Orders /\ Counts(fd_table, files, pipes)
      /\ tstate[t] = "user"
      /\ UNCHANGED <<tstate, pipes, sent, call_, g_poll_waiters, waiter>>
    BY DEF IInv, OpenFile, Running
<1>2. /\ Counts(fd_table', files', pipes')
      /\ fd_table' \in [Callers -> [Fds -> Entries]]
      /\ \A u \in Callers, fd \in Fds : u # t => fd_table'[u][fd] = fd_table[u][fd]
    BY <1>1, OpenFileCounts
<1>3. Types' /\ Orders'
    BY <1>1, <1>2 DEF Types, Orders
<1>4. Gone'
    BY <1>1, <1>2 DEF Gone
<1>5. Waits'
    <2>1. ASSUME NEW u \in Callers, On(u) PROVE tstate'[u] \in {"asleep", "dead", "gone"}
        BY <1>1, <2>1 DEF Waits
    <2>2. ASSUME NEW u \in Callers, Polls(u)'
          PROVE  Polls(u) /\ \A fd \in call_'[u].fds : fd \in call_[u].fds /\ (WouldSleep(u, fd) => WouldSleep(u, fd)')
        <3>1. Polls(u) /\ u # t /\ call_'[u] = call_[u] /\ call_[u].fds \subseteq Fds
            BY <1>1, <2>2 DEF Polls, Types
        <3> QED
            BY <1>1, <1>2, <3>1, SleepKept
    <2> QED
        BY <1>1, <2>1, <2>2, QuietWaits
<1> QED
    BY <1>2, <1>3, <1>4, <1>5 DEF IInv, Counts

LEMMA CreateHolds ==
    ASSUME IInv, NEW t \in Callers, pipefs_create(t)
    PROVE  IInv'
<1>1. /\ Types /\ Waits /\ Gone /\ Orders /\ Counts(fd_table, files, pipes)
      /\ tstate[t] = "user"
      /\ UNCHANGED <<tstate, call_, g_poll_waiters, waiter>>
    BY DEF IInv, pipefs_create, Running
<1>2. /\ Counts(fd_table', files', pipes')
      /\ fd_table' \in [Callers -> [Fds -> Entries]]
      /\ pipes' \in [1..MaxPipes -> Rings]
      /\ \A u \in Callers, fd \in Fds :
            u # t \/ fd_table[u][fd] # Closed => fd_table'[u][fd] = fd_table[u][fd]
    BY <1>1, CreateCounts
<1>3. PICK p \in 1..MaxPipes :
         /\ ~pipes[p].live /\ sent' = [sent EXCEPT ![p] = 0]
         /\ pipes' = [pipes EXCEPT ![p] = pipes'[p]]
         /\ pipes'[p].head = 0 /\ pipes'[p].tail = 0 /\ pipes'[p].len = 0
    BY <1>1, CreateCounts
<1>4. \A q \in 1..MaxPipes : q # p => pipes'[q] = pipes[q] /\ sent'[q] = sent[q]
    BY <1>1, <1>3 DEF Types
<1>5. Types'
    <2>1. 0 \in 0..PIPE_BUF_SIZE
        BY CallsAssumption
    <2>2. sent' \in [1..MaxPipes -> 0..PIPE_BUF_SIZE]
        BY <1>1, <1>3, <2>1 DEF Types
    <2> QED
        BY <1>1, <1>2, <2>2 DEF Types
<1>6. Orders'
    <2>1. OrderedRing(0, 0, 0, pipes'[p].data, 0)
        BY Sizes, WrapFacts DEF OrderedRing
    <2>2. sent'[p] = 0
        BY <1>1, <1>3 DEF Types
    <2>3. ASSUME NEW q \in 1..MaxPipes, pipes'[q].live
          PROVE  OrderedRing(pipes'[q].head, pipes'[q].tail, pipes'[q].len, pipes'[q].data, sent'[q])
        BY <1>1, <1>3, <1>4, <2>1, <2>2, <2>3 DEF Orders
    <2> QED
        BY <2>3 DEF Orders
<1>7. Gone'
    BY <1>1, <1>2 DEF Gone
<1>8. Waits'
    <2>1. ASSUME NEW u \in Callers, On(u) PROVE tstate'[u] \in {"asleep", "dead", "gone"}
        BY <1>1, <2>1 DEF Waits
    <2>2. ASSUME NEW u \in Callers, Polls(u)'
          PROVE  Polls(u) /\ \A fd \in call_'[u].fds : fd \in call_[u].fds /\ (WouldSleep(u, fd) => WouldSleep(u, fd)')
        <3>1. Polls(u) /\ u # t /\ call_'[u] = call_[u] /\ call_[u].fds \subseteq Fds
            BY <1>1, <2>2 DEF Polls, Types
        <3>2. ASSUME NEW fd \in Fds, WouldSleep(u, fd)
              PROVE  pipes'[PipeOf(u, fd)] = pipes[PipeOf(u, fd)]
            <4>1. fd_table[u][fd] \in Entries
                BY <1>1 DEF Types
            <4>2. PICK kind \in {"read", "write"} : fd_table[u][fd].kind = kind
                BY <3>2 DEF WouldSleep, IsEnd, fd_get
            <4>3. PipeOf(u, fd) \in 1..MaxPipes /\ fd_table[u][fd] = End(kind, PipeOf(u, fd))
                BY <4>1, <4>2, EntryFacts DEF PipeOf, fd_get
            <4>4. <<u, fd>> \in EndsIn(fd_table, kind, PipeOf(u, fd))
                BY <4>3 DEF EndsIn, Pairs
            <4>5. pipes[PipeOf(u, fd)].live
                BY <1>1, <4>3, <4>4 DEF Counts
            <4> QED
                BY <1>3, <1>4, <4>3, <4>5
        <3> QED
            BY <1>2, <3>1, <3>2, SleepKept
    <2> QED
        BY <1>1, <2>1, <2>2, QuietWaits
<1> QED
    BY <1>2, <1>5, <1>6, <1>7, <1>8 DEF IInv, Counts

\* vfs_close leaves of a pipe what it held, or nothing.
LEMMA CloseKeepsRing ==
    ASSUME Types, Orders, NEW t \in Callers, NEW C \in SUBSET Fds, CloseFiles(t, C), sent' = sent
    PROVE  Orders'
<1>1. ASSUME NEW p \in 1..MaxPipes, pipes'[p].live
      PROVE  /\ pipes[p].live /\ pipes'[p].head = pipes[p].head /\ pipes'[p].tail = pipes[p].tail
             /\ pipes'[p].len = pipes[p].len /\ pipes'[p].data = pipes[p].data
    <2>1. pipes[p] \in Rings /\ DOMAIN pipes = 1..MaxPipes
        BY DEF Types
    <2>2. pipes'[p] = pipefs_close(t, C)[p]
        BY DEF CloseFiles
    <2>3. pipes'[p] # NoPipe
        BY <1>1, EmptyRing
    <2>4. PICK r, w : pipes'[p] = [pipes[p] EXCEPT !.readers = r, !.writers = w]
        BY <2>1, <2>2, <2>3 DEF pipefs_close
    <2> QED
        BY <1>1, <2>1, <2>4 DEF Rings
<1> QED
    BY <1>1 DEF Orders

LEMMA CloseHandleHolds ==
    ASSUME IInv, NEW t \in Callers, NEW fd \in Fds, CloseHandle(t, fd)
    PROVE  IInv'
<1>1. /\ Types /\ Waits /\ Gone /\ Orders /\ Counts(fd_table, files, pipes)
      /\ tstate[t] = "user" /\ CloseFiles(t, {fd})
      /\ sent' = sent /\ call_' = call_
    BY DEF IInv, CloseHandle, Running
<1>2. /\ Counts(fd_table', files', pipes')
      /\ fd_table' \in [Callers -> [Fds -> Entries]]
      /\ pipes' \in [1..MaxPipes -> Rings]
      /\ Pipeless(fd_table, t, {fd}) => pipes' = pipes
      /\ Emptied(fd_table, t, {fd}, fd_table')
    BY <1>1, CloseFilesCounts
<1>3. Orders'
    BY <1>1, CloseKeepsRing
<1>4. CASE fd_get(t, fd).pipe # 0
    <2>1. select_notify_wakeup
        BY <1>4 DEF CloseHandle
    <2>2. /\ g_poll_waiters' = <<>> /\ g_poll_waiters' \in Seq(Callers)
          /\ tstate' \in [Callers -> {"unborn", "user", "asleep", "dead", "gone"}]
          /\ waiter' \in [Callers -> {"none", "linked", "freed"}]
          /\ \A u \in Callers : /\ waiter'[u] = IF On(u) THEN "freed" ELSE waiter[u]
                                /\ tstate'[u] = IF On(u) /\ tstate[u] = "asleep" THEN "user" ELSE tstate[u]
        BY <1>1, <2>1, NotifyFacts
    <2>3. Types'
        BY <1>1, <1>2, <2>2 DEF Types
    <2>4. Gone'
        BY <1>1, <1>2, <2>2 DEF Gone, Emptied
    <2>5. \A u \in Callers : Polls(u)' => Polls(u) /\ ~On(u)
        BY <1>1, <2>2 DEF Polls
    <2>6. Waits'
        BY <1>1, <2>2, <2>5, NoticeWaits
    <2> QED
        BY <1>2, <1>3, <2>3, <2>4, <2>6 DEF IInv, Counts
<1>5. CASE fd_get(t, fd).pipe = 0
    <2>1. tstate' = tstate /\ g_poll_waiters' = g_poll_waiters /\ waiter' = waiter
        BY <1>5 DEF CloseHandle
    <2>2. pipes' = pipes
        BY <1>2, <1>5 DEF Pipeless, fd_get
    <2>3. Types'
        BY <1>1, <1>2, <2>1 DEF Types
    <2>4. Gone'
        BY <1>1, <1>2, <2>1 DEF Gone, Emptied
    <2>5. Waits'
        <3>1. ASSUME NEW u \in Callers, On(u) PROVE tstate'[u] \in {"asleep", "dead", "gone"}
            BY <1>1, <2>1, <3>1 DEF Waits
        <3>2. ASSUME NEW u \in Callers, Polls(u)'
              PROVE  Polls(u) /\ \A d \in call_'[u].fds : d \in call_[u].fds /\ (WouldSleep(u, d) => WouldSleep(u, d)')
            <4>1. Polls(u) /\ u # t /\ call_'[u] = call_[u] /\ call_[u].fds \subseteq Fds
                BY <1>1, <2>1, <3>2 DEF Polls, Types
            <4>2. \A d \in Fds : fd_table'[u][d] = fd_table[u][d]
                BY <1>2, <4>1 DEF Emptied
            <4> QED
                BY <2>2, <4>1, <4>2, SleepKept
        <3> QED
            BY <1>1, <2>1, <3>1, <3>2, QuietWaits
    <2> QED
        BY <1>2, <1>3, <2>3, <2>4, <2>5 DEF IInv, Counts
<1> QED
    BY <1>4, <1>5

LEMMA DieHolds ==
    ASSUME IInv, NEW t \in Callers, Die(t)
    PROVE  IInv'
<1>1. /\ Types /\ Waits /\ Gone /\ Orders /\ Counts(fd_table, files, pipes)
      /\ tstate[t] \in {"user", "asleep"}
      /\ tstate' = [tstate EXCEPT ![t] = "dead"] /\ call_' = [call_ EXCEPT ![t] = NoCall]
      /\ UNCHANGED <<fd_table, files, pipes, sent, g_poll_waiters, waiter>>
    BY DEF IInv, Die
<1>2. NoCall \in [op : {"none", "read", "write", "poll"}, fds : SUBSET Fds, left : Int]
    BY DEF NoCall
<1>3. /\ \A u \in Callers : tstate'[u] = IF u = t THEN "dead" ELSE tstate[u]
      /\ \A u \in Callers : u # t => call_'[u] = call_[u]
    BY <1>1 DEF Types
<1>4. Types'
    BY <1>1, <1>2 DEF Types
<1>5. Waits'
    <2>1. ASSUME NEW u \in Callers, On(u) PROVE tstate'[u] \in {"asleep", "dead", "gone"}
        BY <1>1, <1>3, <2>1 DEF Waits
    <2>2. ASSUME NEW u \in Callers, Polls(u)'
          PROVE  Polls(u) /\ \A fd \in call_'[u].fds : fd \in call_[u].fds /\ (WouldSleep(u, fd) => WouldSleep(u, fd)')
        BY <1>1, <1>3, <2>2, SleepKept DEF Polls
    <2> QED
        BY <1>1, <2>1, <2>2, QuietWaits
<1>6. Counts(fd_table, files, pipes)' /\ Gone' /\ Orders'
    BY <1>1, <1>3 DEF Counts, Gone, Orders
<1> QED
    BY <1>4, <1>5, <1>6 DEF IInv

LEMMA CleanupHolds ==
    ASSUME IInv, NEW t \in Callers, task_18d_cleanup(t)
    PROVE  IInv'
<1> DEFINE told == \E fd \in Fds : fd_get(t, fd).pipe # 0
<1>1. /\ Types /\ Waits /\ Gone /\ Orders /\ Counts(fd_table, files, pipes)
      /\ tstate[t] = "dead" /\ CloseFiles(t, Fds)
      /\ sent' = sent /\ call_' = call_
    BY DEF IInv, task_18d_cleanup
<1>2. /\ Counts(fd_table', files', pipes')
      /\ fd_table' \in [Callers -> [Fds -> Entries]]
      /\ pipes' \in [1..MaxPipes -> Rings]
      /\ Pipeless(fd_table, t, Fds) => pipes' = pipes
      /\ Emptied(fd_table, t, Fds, fd_table')
    BY <1>1, CloseFilesCounts
<1>3. Orders'
    BY <1>1, CloseKeepsRing
<1>4. CASE told
    <2>1. /\ g_poll_waiters' = <<>>
          /\ tstate' = [Wake(ToSet(g_poll_waiters)) EXCEPT ![t] = "gone"]
          /\ waiter' = [u \in Callers |-> IF On(u) THEN "freed" ELSE waiter[u]]
        BY <1>4 DEF task_18d_cleanup, On
    <2>2. \A u \in Callers : tstate'[u] = IF u = t THEN "gone"
                                         ELSE IF On(u) /\ tstate[u] = "asleep" THEN "user" ELSE tstate[u]
        BY <2>1 DEF Wake, On
    <2>3. /\ g_poll_waiters' \in Seq(Callers)
          /\ tstate' \in [Callers -> {"unborn", "user", "asleep", "dead", "gone"}]
          /\ waiter' \in [Callers -> {"none", "linked", "freed"}]
        BY <1>1, <2>1 DEF Types, Wake
    <2>4. Types'
        BY <1>1, <1>2, <2>3 DEF Types
    <2>5. Gone'
        BY <1>1, <1>2, <2>2 DEF Gone, Emptied
    <2>6. \A u \in Callers : Polls(u)' => Polls(u) /\ ~On(u)
        BY <1>1, <2>2 DEF Polls
    <2>7. \A u \in Callers : waiter'[u] = IF On(u) THEN "freed" ELSE waiter[u]
        BY <2>1
    <2>8. Waits'
        BY <1>1, <2>1, <2>6, <2>7, NoticeWaits
    <2> QED
        BY <1>2, <1>3, <2>4, <2>5, <2>8 DEF IInv, Counts
<1>5. CASE ~told
    <2>1. /\ g_poll_waiters' = g_poll_waiters
          /\ tstate' = [Wake({}) EXCEPT ![t] = "gone"]
          /\ waiter' = [u \in Callers |-> waiter[u]]
        BY <1>5 DEF task_18d_cleanup
    <2>2. waiter' = waiter /\ \A u \in Callers : tstate'[u] = IF u = t THEN "gone" ELSE tstate[u]
        BY <1>1, <2>1 DEF Types, Wake
    <2>3. tstate' \in [Callers -> {"unborn", "user", "asleep", "dead", "gone"}]
        BY <1>1, <2>1 DEF Types, Wake
    <2>4. pipes' = pipes
        BY <1>2, <1>5 DEF Pipeless, fd_get
    <2>5. Types'
        BY <1>1, <1>2, <2>1, <2>2, <2>3 DEF Types
    <2>6. Gone'
        BY <1>1, <1>2, <2>2 DEF Gone, Emptied
    <2>7. Waits'
        <3>1. ASSUME NEW u \in Callers, On(u) PROVE tstate'[u] \in {"asleep", "dead", "gone"}
            BY <1>1, <2>2, <3>1 DEF Waits
        <3>2. ASSUME NEW u \in Callers, Polls(u)'
              PROVE  Polls(u) /\ \A d \in call_'[u].fds : d \in call_[u].fds /\ (WouldSleep(u, d) => WouldSleep(u, d)')
            <4>1. Polls(u) /\ u # t /\ call_'[u] = call_[u] /\ call_[u].fds \subseteq Fds
                BY <1>1, <2>2, <3>2 DEF Polls, Types
            <4>2. \A d \in Fds : fd_table'[u][d] = fd_table[u][d]
                BY <1>2, <4>1 DEF Emptied
            <4> QED
                BY <2>4, <4>1, <4>2, SleepKept
        <3> QED
            BY <1>1, <2>1, <2>2, <3>1, <3>2, QuietWaits
    <2> QED
        BY <1>2, <1>3, <2>5, <2>6, <2>7 DEF IInv, Counts
<1> QED
    BY <1>4, <1>5

\* A step that leaves the ends of the pipes alone.
LEMMA CountsKept ==
    ASSUME NEW F, NEW n, NEW P, NEW Q, Counts(F, n, P),
           \A p \in 1..MaxPipes :
              Q[p] = P[p] \/ (P[p].live /\ Q[p].live /\ Q[p].readers = P[p].readers /\ Q[p].writers = P[p].writers)
    PROVE  Counts(F, n, Q)
<1>1. ASSUME NEW p \in 1..MaxPipes
      PROVE  /\ Q[p].readers = Cardinality(EndsIn(F, "read", p))
             /\ Q[p].writers = Cardinality(EndsIn(F, "write", p))
             /\ Q[p].live <=> EndsIn(F, "read", p) \cup EndsIn(F, "write", p) # {}
             /\ ~Q[p].live => Q[p] = NoPipe
    <2>1. CASE Q[p] = P[p]
        BY <2>1 DEF Counts
    <2>2. CASE P[p].live /\ Q[p].live /\ Q[p].readers = P[p].readers /\ Q[p].writers = P[p].writers
        BY <2>2 DEF Counts
    <2> QED
        BY <2>1, <2>2
<1> QED
    BY <1>1 DEF Counts

\* The pipe of a descriptor that is one of its ends is there.
LEMMA EndIsLive ==
    ASSUME Types, Counts(fd_table, files, pipes), NEW t \in Callers, NEW fd \in Fds,
           IsEnd(t, fd, "read") \/ IsEnd(t, fd, "write")
    PROVE  PipeOf(t, fd) \in 1..MaxPipes /\ pipes[PipeOf(t, fd)].live
<1>1. fd_table[t][fd] \in Entries
    BY DEF Types
<1>2. PICK kind \in {"read", "write"} : fd_table[t][fd].kind = kind
    BY DEF IsEnd, fd_get
<1>3. PipeOf(t, fd) \in 1..MaxPipes /\ fd_table[t][fd] = End(kind, PipeOf(t, fd))
    BY <1>1, <1>2, EntryFacts DEF PipeOf, fd_get
<1>4. <<t, fd>> \in EndsIn(fd_table, kind, PipeOf(t, fd))
    BY <1>3 DEF EndsIn, Pairs
<1> QED
    BY <1>3, <1>4 DEF Counts

LEMMA SmallerFacts ==
    ASSUME NEW a \in Nat, NEW b \in Nat
    PROVE  /\ Smaller(a, b) \in 0..b /\ Smaller(a, b) <= a
           /\ a > 0 /\ b > 0 => Smaller(a, b) > 0
           /\ Smaller(a, b) = 0 => a = 0 \/ b = 0
BY DEF Smaller

LEMMA ReadHolds ==
    ASSUME IInv, NEW t \in Callers, NEW fd \in Fds, NEW count \in 1..PIPE_BUF_SIZE,
           pipefs_read(t, fd, count)
    PROVE  IInv'
<1> DEFINE p == PipeOf(t, fd)
           take == Smaller(count, pipes[p].len)
<1>1. /\ Types /\ Waits /\ Gone /\ Orders /\ Counts(fd_table, files, pipes)
      /\ tstate[t] = "user" /\ IsEnd(t, fd, "read")
      /\ fd_table' = fd_table /\ files' = files /\ sent' = sent
    BY DEF IInv, pipefs_read, Running
<1>2. p \in 1..MaxPipes /\ pipes[p].live /\ pipes[p] \in Rings
    BY <1>1, EndIsLive DEF Types
<1>3. take \in 0..pipes[p].len
    <2>1. count \in Nat /\ pipes[p].len \in Nat
        BY <1>2, CallsAssumption DEF Rings
    <2> QED
        BY <2>1, SmallerFacts
<1>4. ASSUME pipes[p].len > 0,
             pipes' = [pipes EXCEPT ![p].head = (@ + take) % PIPE_BUF_SIZE, ![p].len = @ - take],
             select_notify_wakeup, call_' = call_
      PROVE  IInv'
    <2> HIDE DEF take
    <2>1. /\ g_poll_waiters' = <<>> /\ g_poll_waiters' \in Seq(Callers)
          /\ tstate' \in [Callers -> {"unborn", "user", "asleep", "dead", "gone"}]
          /\ waiter' \in [Callers -> {"none", "linked", "freed"}]
          /\ \A u \in Callers : /\ waiter'[u] = IF On(u) THEN "freed" ELSE waiter[u]
                                /\ tstate'[u] = IF On(u) /\ tstate[u] = "asleep" THEN "user" ELSE tstate[u]
        BY <1>1, <1>4, NotifyFacts
    <2> DEFINE new == [pipes[p] EXCEPT !.head = Wrap(pipes[p].head + take, PIPE_BUF_SIZE), !.len = pipes[p].len - take]
    <2>2. pipes' = [pipes EXCEPT ![p] = new]
        BY <1>1, <1>4 DEF Types, Wrap
    <2>3. /\ pipes[p].head \in 0..PIPE_BUF_SIZE - 1 /\ pipes[p].len \in 0..PIPE_BUF_SIZE
          /\ sent[p] \in 0..PIPE_BUF_SIZE
        BY <1>1, <1>2 DEF Rings, Types
    <2>4. /\ new \in Rings /\ new.live = pipes[p].live /\ new.readers = pipes[p].readers /\ new.writers = pipes[p].writers
          /\ new.head = Wrap(pipes[p].head + take, PIPE_BUF_SIZE) /\ new.tail = pipes[p].tail
          /\ new.len = pipes[p].len - take /\ new.data = pipes[p].data
        <3>1. Wrap(pipes[p].head + take, PIPE_BUF_SIZE) \in 0..PIPE_BUF_SIZE - 1
            BY <1>3, <2>3, Sizes, WrapFacts
        <3>2. pipes[p].len - take \in 0..PIPE_BUF_SIZE
            BY <1>3, <2>3, Sizes
        <3> QED
            BY <1>2, <3>1, <3>2 DEF Rings
    <2> HIDE DEF p, new
    <2>5. pipes' \in [1..MaxPipes -> Rings] /\ pipes'[p] = new /\ \A q \in 1..MaxPipes : q # p => pipes'[q] = pipes[q]
        BY <1>1, <1>2, <2>2, <2>4 DEF Types
    <2>6. Types'
        BY <1>1, <1>4, <2>1, <2>5 DEF Types
    <2>7. Counts(fd_table, files, pipes')
        BY <1>1, <1>2, <2>4, <2>5, CountsKept
    <2>8. Gone'
        BY <1>1, <2>1 DEF Gone
    <2>9. Waits'
        <3>1. \A u \in Callers : Polls(u)' => Polls(u) /\ ~On(u)
            BY <1>1, <1>4, <2>1 DEF Polls
        <3> QED
            BY <1>1, <2>1, <3>1, NoticeWaits
    <2>10. Orders'
        <3>1. OrderedRing(pipes[p].head, pipes[p].tail, pipes[p].len, pipes[p].data, sent[p])
            BY <1>1, <1>2 DEF Orders
        <3>2. OrderedRing(new.head, new.tail, new.len, new.data, sent[p])
            BY <1>3, <2>3, <2>4, <3>1, TakesInOrder
        <3> QED
            BY <1>1, <2>5, <3>2 DEF Orders
    <2> QED
        BY <1>1, <2>6, <2>7, <2>8, <2>9, <2>10 DEF IInv, Counts
<1>5. ASSUME SleepIn(t, "read", {fd}, 0), UNCHANGED <<pipes, g_poll_waiters, waiter>>
      PROVE  IInv'
    <2>1. /\ tstate' = [tstate EXCEPT ![t] = "asleep"]
          /\ call_' = [call_ EXCEPT ![t] = [op |-> "read", fds |-> {fd}, left |-> 0]]
        BY <1>5 DEF SleepIn
    <2>2. Types'
        BY <1>1, <1>5, <2>1 DEF Types
    <2>3. /\ \A u \in Callers : tstate'[u] = IF u = t THEN "asleep" ELSE tstate[u]
          /\ \A u \in Callers : u # t => call_'[u] = call_[u]
          /\ call_'[t].op = "read"
        BY <1>1, <2>1 DEF Types
    <2>4. Waits'
        <3>1. ASSUME NEW u \in Callers, On(u) PROVE tstate'[u] \in {"asleep", "dead", "gone"}
            BY <1>1, <2>3, <3>1 DEF Waits
        <3>2. ASSUME NEW u \in Callers, Polls(u)'
              PROVE  Polls(u) /\ \A d \in call_'[u].fds : d \in call_[u].fds /\ (WouldSleep(u, d) => WouldSleep(u, d)')
            BY <1>1, <1>5, <2>3, <3>2, SleepKept DEF Polls
        <3> QED
            BY <1>1, <1>5, <3>1, <3>2, QuietWaits
    <2>5. Counts(fd_table, files, pipes)' /\ Gone' /\ Orders'
        BY <1>1, <1>5, <2>3 DEF Counts, Gone, Orders
    <2> QED
        BY <2>2, <2>4, <2>5 DEF IInv
<1> QED
    BY <1>4, <1>5 DEF pipefs_read

\* What pipefs_write does to the ring's data.
SlotOf(tail, take, j) == CHOOSE i \in 0..take - 1 : Wrap(tail + i, PIPE_BUF_SIZE) = j
Put(data, tail, take, s) ==
    [j \in 0..PIPE_BUF_SIZE - 1 |->
        IF \E i \in 0..take - 1 : Wrap(tail + i, PIPE_BUF_SIZE) = j
        THEN Wrap(s + SlotOf(tail, take, j), Units)
        ELSE data[j]]

LEMMA WriteLays ==
    ASSUME NEW data \in [0..PIPE_BUF_SIZE - 1 -> 0..PIPE_BUF_SIZE], NEW tail \in 0..PIPE_BUF_SIZE - 1,
           NEW take \in 0..PIPE_BUF_SIZE, NEW s \in 0..PIPE_BUF_SIZE
    PROVE  /\ Put(data, tail, take, s) \in [0..PIPE_BUF_SIZE - 1 -> 0..PIPE_BUF_SIZE]
           /\ Laid(data, Put(data, tail, take, s), tail, take, s)
<1> DEFINE n == PIPE_BUF_SIZE
           at(i) == Wrap(tail + i, n)
           d == Put(data, tail, take, s)
<1>0. n \in Nat \ {0} /\ Units \in Nat \ {0} /\ Units = n + 1
    BY Sizes
<1>1. ASSUME NEW j, NEW i \in 0..take - 1, at(i) = j
      PROVE  SlotOf(tail, take, j) \in 0..take - 1 /\ at(SlotOf(tail, take, j)) = j
    BY <1>1 DEF SlotOf
<1>2. \A x \in Int : Wrap(x, Units) \in 0..n
    BY <1>0, WrapFacts
<1>3. ASSUME NEW i \in 0..take - 1, NEW k \in 0..take - 1, at(i) = at(k)
      PROVE  i = k
    <2>1. PICK a, b : a = tail + i /\ b = tail + k
        OBVIOUS
    <2>2. a \in 0..2 * n - 1 /\ b \in 0..2 * n - 1 /\ a < b + n /\ b < a + n
        BY <1>0, <2>1
    <2>3. ASSUME NEW x \in 0..2 * n - 1
          PROVE  (x < n /\ Wrap(x, n) = x) \/ (x >= n /\ Wrap(x, n) = x - n)
        BY <1>0, WrapFacts
    <2>4. /\ (a < n /\ Wrap(a, n) = a) \/ (a >= n /\ Wrap(a, n) = a - n)
          /\ (b < n /\ Wrap(b, n) = b) \/ (b >= n /\ Wrap(b, n) = b - n)
        BY <2>2, <2>3
    <2>5. Wrap(a, n) = Wrap(b, n)
        BY <1>3, <2>1
    <2>6. a = b
        BY <1>0, <2>2, <2>4, <2>5
    <2> QED
        BY <2>1, <2>6
<1>4. \A i \in 0..take - 1 : at(i) \in 0..n - 1
    BY <1>0, WrapFacts
<1>5. /\ d = [j \in 0..n - 1 |-> d[j]]
      /\ \A j \in 0..n - 1 : (\E i \in 0..take - 1 : at(i) = j) => d[j] = Wrap(s + SlotOf(tail, take, j), Units)
      /\ \A j \in 0..n - 1 : (\A i \in 0..take - 1 : at(i) # j) => d[j] = data[j]
    BY DEF Put
<1> HIDE DEF n, d
<1>6. ASSUME NEW i \in 0..take - 1 PROVE d[at(i)] = Wrap(s + i, Units)
    <2>1. SlotOf(tail, take, at(i)) = i
        BY <1>1, <1>3
    <2>2. d[at(i)] = Wrap(s + SlotOf(tail, take, at(i)), Units)
        BY <1>4, <1>5
    <2> QED
        BY <2>1, <2>2
<1>7. ASSUME NEW j \in 0..n - 1 PROVE d[j] \in 0..n
    <2>1. CASE \E i \in 0..take - 1 : at(i) = j
        <3>1. SlotOf(tail, take, j) \in 0..take - 1
            BY <1>1, <2>1
        <3>2. s + SlotOf(tail, take, j) \in Int
            BY <3>1
        <3>3. d[j] = Wrap(s + SlotOf(tail, take, j), Units)
            BY <1>5, <2>1
        <3> QED
            BY <1>2, <3>2, <3>3
    <2>2. CASE ~\E i \in 0..take - 1 : at(i) = j
        BY <1>5, <2>2 DEF n
    <2> QED
        BY <2>1, <2>2
<1> QED
    BY <1>5, <1>6, <1>7 DEF Laid, n, d

LEMMA WriteHolds ==
    ASSUME IInv, NEW t \in Callers, NEW fd \in Fds, NEW count \in 1..PIPE_BUF_SIZE + 1,
           pipefs_write(t, fd, count)
    PROVE  IInv'
<1> DEFINE p == PipeOf(t, fd)
           take == Smaller(count, PIPE_BUF_SIZE - pipes[p].len)
           put == [i \in 0..take - 1 |-> (sent[p] + i) % Units]
           slot(i) == (pipes[p].tail + i) % PIPE_BUF_SIZE
           data == [j \in DOMAIN pipes[p].data |->
                       IF \E i \in DOMAIN put : slot(i) = j
                       THEN put[CHOOSE i \in DOMAIN put : slot(i) = j] ELSE pipes[p].data[j]]
           new == [pipes[p] EXCEPT !.data = data, !.tail = (pipes[p].tail + take) % PIPE_BUF_SIZE,
                                   !.len = pipes[p].len + take]
           awake == IF take > 0 THEN Wake(ToSet(g_poll_waiters)) ELSE tstate
<1>1. /\ Types /\ Waits /\ Gone /\ Orders /\ Counts(fd_table, files, pipes)
      /\ tstate[t] = "user" /\ IsEnd(t, fd, "write")
      /\ fd_table' = fd_table /\ files' = files
    BY DEF IInv, pipefs_write, Running
<1>2. p \in 1..MaxPipes /\ pipes[p].live /\ pipes[p] \in Rings /\ sent[p] \in 0..PIPE_BUF_SIZE
    BY <1>1, EndIsLive DEF Types
<1>3. /\ pipes[p].head \in 0..PIPE_BUF_SIZE - 1 /\ pipes[p].tail \in 0..PIPE_BUF_SIZE - 1
      /\ pipes[p].len \in 0..PIPE_BUF_SIZE /\ pipes[p].data \in [0..PIPE_BUF_SIZE - 1 -> 0..PIPE_BUF_SIZE]
    BY <1>2 DEF Rings
<1>4. take \in 0..PIPE_BUF_SIZE - pipes[p].len /\ take \in 0..PIPE_BUF_SIZE /\ take \in Int
    <2>1. count \in Nat /\ PIPE_BUF_SIZE - pipes[p].len \in Nat
        BY <1>3, Sizes
    <2>2. take \in 0..PIPE_BUF_SIZE - pipes[p].len
        BY <2>1, SmallerFacts
    <2> HIDE DEF take
    <2> QED
        BY <1>3, <2>2, Sizes
<1>5. pipes' = [pipes EXCEPT ![p] = new]
    BY <1>1, <1>2 DEF pipefs_write, Types
<1>6. sent' = [sent EXCEPT ![p] = Wrap(sent[p] + take, Units)]
    BY <1>1, <1>2 DEF pipefs_write, Types, Wrap
<1>7. /\ g_poll_waiters' = IF take > 0 THEN <<>> ELSE g_poll_waiters
      /\ waiter' = IF take > 0 THEN [u \in Callers |-> IF u \in ToSet(g_poll_waiters) THEN "freed" ELSE waiter[u]]
                   ELSE waiter
    BY DEF pipefs_write
<1>8. \/ /\ tstate' = [awake EXCEPT ![t] = "asleep"]
         /\ call_' = [call_ EXCEPT ![t] = [op |-> "write", fds |-> {fd}, left |-> count - take]]
      \/ tstate' = awake /\ call_' = call_
    BY DEF pipefs_write
<1>9. data = Put(pipes[p].data, pipes[p].tail, take, sent[p])
    <2> HIDE DEF take
    <2>1. DOMAIN put = 0..take - 1 /\ DOMAIN pipes[p].data = 0..PIPE_BUF_SIZE - 1
        BY <1>3
    <2>2. \A i : slot(i) = Wrap(pipes[p].tail + i, PIPE_BUF_SIZE)
        BY DEF Wrap
    <2>3. \A i \in 0..take - 1 : put[i] = Wrap(sent[p] + i, Units)
        BY DEF Wrap
    <2> HIDE DEF put, slot
    <2>4. ASSUME NEW j \in 0..PIPE_BUF_SIZE - 1
          PROVE  data[j] = Put(pipes[p].data, pipes[p].tail, take, sent[p])[j]
        <3>1. CASE \E i \in 0..take - 1 : Wrap(pipes[p].tail + i, PIPE_BUF_SIZE) = j
            <4>1. SlotOf(pipes[p].tail, take, j) \in 0..take - 1
                BY <3>1 DEF SlotOf
            <4>2. (CHOOSE i \in DOMAIN put : slot(i) = j) = SlotOf(pipes[p].tail, take, j)
                BY <2>1, <2>2 DEF SlotOf
            <4>3. data[j] = put[SlotOf(pipes[p].tail, take, j)]
                BY <2>1, <2>2, <3>1, <4>2
            <4>4. Put(pipes[p].data, pipes[p].tail, take, sent[p])[j] = Wrap(sent[p] + SlotOf(pipes[p].tail, take, j), Units)
                BY <3>1 DEF Put
            <4> QED
                BY <2>3, <4>1, <4>3, <4>4
        <3>2. CASE ~\E i \in 0..take - 1 : Wrap(pipes[p].tail + i, PIPE_BUF_SIZE) = j
            <4>1. data[j] = pipes[p].data[j]
                BY <2>1, <2>2, <3>2
            <4>2. Put(pipes[p].data, pipes[p].tail, take, sent[p])[j] = pipes[p].data[j]
                BY <3>2 DEF Put
            <4> QED
                BY <4>1, <4>2
        <3> QED
            BY <3>1, <3>2
    <2>5. data = [j \in 0..PIPE_BUF_SIZE - 1 |-> data[j]]
        BY <2>1
    <2> HIDE DEF data
    <2>6. Put(pipes[p].data, pipes[p].tail, take, sent[p])
            = [j \in 0..PIPE_BUF_SIZE - 1 |-> Put(pipes[p].data, pipes[p].tail, take, sent[p])[j]]
        BY DEF Put
    <2> QED
        BY <2>4, <2>5, <2>6
<1> HIDE DEF take, put, slot, data
<1>10. /\ data \in [0..PIPE_BUF_SIZE - 1 -> 0..PIPE_BUF_SIZE]
       /\ Laid(pipes[p].data, data, pipes[p].tail, take, sent[p])
    BY <1>2, <1>3, <1>4, <1>9, WriteLays
<1>11. /\ new \in Rings /\ new.live = pipes[p].live /\ new.readers = pipes[p].readers /\ new.writers = pipes[p].writers
       /\ new.head = pipes[p].head /\ new.tail = Wrap(pipes[p].tail + take, PIPE_BUF_SIZE)
       /\ new.len = pipes[p].len + take /\ new.data = data
    <2>1. (pipes[p].tail + take) % PIPE_BUF_SIZE = Wrap(pipes[p].tail + take, PIPE_BUF_SIZE)
        BY DEF Wrap
    <2>2. Wrap(pipes[p].tail + take, PIPE_BUF_SIZE) \in 0..PIPE_BUF_SIZE - 1
        <3>1. pipes[p].tail + take \in Int
            BY <1>3, <1>4
        <3> QED
            BY <3>1, Sizes, WrapFacts
    <2>3. pipes[p].len + take \in 0..PIPE_BUF_SIZE
        BY <1>3, <1>4, Sizes
    <2> QED
        BY <1>2, <1>10, <2>1, <2>2, <2>3 DEF Rings
<1>12. Wrap(sent[p] + take, Units) \in 0..PIPE_BUF_SIZE
    <2>1. Wrap(sent[p] + take, Units) \in 0..Units - 1
        BY <1>2, <1>4, Sizes, WrapFacts
    <2> QED
        BY <2>1, Sizes
<1> HIDE DEF p, new, awake
<1>13. /\ pipes' \in [1..MaxPipes -> Rings] /\ pipes'[p] = new
       /\ \A q \in 1..MaxPipes : q # p => pipes'[q] = pipes[q]
    BY <1>1, <1>2, <1>5, <1>11 DEF Types
<1>14. /\ sent' \in [1..MaxPipes -> 0..PIPE_BUF_SIZE] /\ sent'[p] = Wrap(sent[p] + take, Units)
       /\ \A q \in 1..MaxPipes : q # p => sent'[q] = sent[q]
    BY <1>1, <1>2, <1>6, <1>12 DEF Types
<1>15. /\ awake \in [Callers -> {"unborn", "user", "asleep", "dead", "gone"}]
       /\ \A u \in Callers : awake[u] = IF take > 0 /\ On(u) /\ tstate[u] = "asleep" THEN "user" ELSE tstate[u]
    BY <1>1 DEF Types, awake, Wake, On
<1>16. /\ tstate' \in [Callers -> {"unborn", "user", "asleep", "dead", "gone"}]
       /\ call_' \in [Callers -> [op : {"none", "read", "write", "poll"}, fds : SUBSET Fds, left : Int]]
       /\ \A u \in Callers : u # t => tstate'[u] = awake[u] /\ call_'[u] = call_[u]
       /\ tstate'[t] = "user" \/ (tstate'[t] = "asleep" /\ call_'[t].op = "write")
    <2>1. awake[t] = "user"
        BY <1>1, <1>15
    <2>2. CASE /\ tstate' = [awake EXCEPT ![t] = "asleep"]
               /\ call_' = [call_ EXCEPT ![t] = [op |-> "write", fds |-> {fd}, left |-> count - take]]
        <3>1. count - take \in Int
            BY <1>4
        <3> QED
            BY <1>1, <1>15, <2>2, <3>1 DEF Types
    <2>3. CASE tstate' = awake /\ call_' = call_
        BY <1>1, <1>15, <2>1, <2>3 DEF Types
    <2> QED
        BY <1>8, <2>2, <2>3
<1>17. g_poll_waiters' \in Seq(Callers) /\ waiter' \in [Callers -> {"none", "linked", "freed"}]
    BY <1>1, <1>7 DEF Types
<1>18. Types'
    BY <1>1, <1>13, <1>14, <1>16, <1>17 DEF Types
<1>19. Counts(fd_table, files, pipes')
    BY <1>1, <1>2, <1>11, <1>13, CountsKept
<1>20. Gone'
    <2>1. \A u \in Callers : tstate'[u] = "gone" => tstate[u] = "gone"
        BY <1>15, <1>16
    <2> QED
        BY <1>1, <2>1 DEF Gone
<1>21. Orders'
    <2>1. OrderedRing(pipes[p].head, pipes[p].tail, pipes[p].len, pipes[p].data, sent[p])
        BY <1>1, <1>2 DEF Orders
    <2>2. OrderedRing(new.head, new.tail, new.len, new.data, sent'[p])
        BY <1>2, <1>3, <1>4, <1>10, <1>11, <1>14, <2>1, PutsInOrder
    <2> QED
        BY <1>1, <1>13, <1>14, <2>2 DEF Orders
<1>22. CASE take > 0
    <2>1. g_poll_waiters' = <<>> /\ \A u \in Callers : waiter'[u] = IF On(u) THEN "freed" ELSE waiter[u]
        BY <1>7, <1>22 DEF On
    <2>2. \A u \in Callers : Polls(u)' => Polls(u) /\ ~On(u)
        BY <1>1, <1>15, <1>16, <1>22 DEF Polls
    <2>3. Waits'
        BY <1>1, <2>1, <2>2, NoticeWaits
    <2> QED
        BY <1>1, <1>18, <1>19, <1>20, <1>21, <2>3 DEF IInv, Counts
<1>23. CASE ~(take > 0)
    <2>1. take = 0 /\ g_poll_waiters' = g_poll_waiters /\ waiter' = waiter
        BY <1>4, <1>7, <1>23
    <2>2. \A q \in 1..MaxPipes : /\ pipes'[q].len = pipes[q].len /\ pipes'[q].readers = pipes[q].readers
                                 /\ pipes'[q].writers = pipes[q].writers
        BY <1>3, <1>11, <1>13, <2>1
    <2>3. ASSUME NEW u \in Callers, On(u) PROVE tstate'[u] \in {"asleep", "dead", "gone"}
        BY <1>1, <1>15, <1>16, <2>1, <2>3 DEF Waits
    <2>4. ASSUME NEW u \in Callers, Polls(u)'
          PROVE  Polls(u) /\ \A d \in call_'[u].fds : d \in call_[u].fds /\ (WouldSleep(u, d) => WouldSleep(u, d)')
        <3>1. Polls(u) /\ u # t /\ call_'[u] = call_[u] /\ call_[u].fds \subseteq Fds
            BY <1>1, <1>15, <1>16, <2>1, <2>4 DEF Polls, Types
        <3>2. ASSUME NEW d \in Fds, WouldSleep(u, d) PROVE WouldSleep(u, d)'
            <4>1. PipeOf(u, d) \in 1..MaxPipes
                BY <1>1, <3>2, EndIsLive DEF WouldSleep
            <4> QED
                BY <1>1, <2>2, <3>2, <4>1, SleepKept
        <3> QED
            BY <3>1, <3>2
    <2>5. Waits'
        BY <1>1, <2>1, <2>3, <2>4, QuietWaits
    <2> QED
        BY <1>1, <1>18, <1>19, <1>20, <1>21, <2>5 DEF IInv, Counts
<1> QED
    BY <1>22, <1>23

\* The waiter goes to the head of the list and the thread to sleep, or, without
\* memory for one, the thread looks again after a tick.
LEMMA PollWaitHolds ==
    ASSUME IInv, NEW t \in Callers, tstate[t] = "user", NEW fds \in SUBSET Fds, NEW left \in Int,
           \A fd \in fds : ~fd_ready(t, fd),
           NEW rest \in Seq(Callers), Once(rest),
           \A u \in Callers : (\E i \in DOMAIN rest : rest[i] = u) <=> On(u),
           PollWait(t, fds, left, rest), UNCHANGED <<fd_table, files, pipes, sent>>
    PROVE  IInv'
<1>1. /\ Types /\ Waits /\ Gone /\ Orders /\ Counts(fd_table, files, pipes)
    BY DEF IInv
<1>2. ~On(t) /\ \A i \in DOMAIN rest : rest[i] # t
    BY <1>1 DEF Waits
<1>3. CASE /\ SleepIn(t, "poll", fds, left)
           /\ g_poll_waiters' = <<t>> \o rest
           /\ waiter' = [waiter EXCEPT ![t] = "linked"]
    <2>1. /\ \A u \in Callers : tstate'[u] = IF u = t THEN "asleep" ELSE tstate[u]
          /\ \A u \in Callers : u # t => call_'[u] = call_[u]
          /\ call_'[t].fds = fds /\ call_'[t].op = "poll"
          /\ \A u \in Callers : waiter'[u] = IF u = t THEN "linked" ELSE waiter[u]
        BY <1>1, <1>3 DEF SleepIn, Types
    <2> DEFINE g == <<t>> \o rest
    <2>2. /\ g \in Seq(Callers) /\ DOMAIN g = 1..Len(rest) + 1 /\ g[1] = t /\ Len(rest) \in Nat
          /\ \A i \in DOMAIN rest : g[i + 1] = rest[i]
          /\ DOMAIN rest = 1..Len(rest)
        OBVIOUS
    <2>3. g_poll_waiters' = g
        BY <1>3
    <2> HIDE DEF g
    <2>4. ASSUME NEW i \in DOMAIN g PROVE i = 1 \/ (i - 1 \in DOMAIN rest /\ g[i] = rest[i - 1])
        <3>1. CASE i # 1
            <4>1. i - 1 \in DOMAIN rest /\ (i - 1) + 1 = i
                BY <2>2, <3>1
            <4> QED
                BY <2>2, <4>1
        <3> QED
            BY <3>1
    <2>5. Once(g)
        <3>1. ASSUME NEW i \in DOMAIN g, NEW j \in DOMAIN g, g[i] = g[j] PROVE i = j
            <4>1. CASE i = 1 \/ j = 1
                BY <1>2, <2>2, <2>4, <3>1, <4>1
            <4>2. CASE i # 1 /\ j # 1
                <5>1. i - 1 \in DOMAIN rest /\ j - 1 \in DOMAIN rest /\ rest[i - 1] = rest[j - 1]
                    BY <2>4, <3>1, <4>2
                <5>2. i - 1 = j - 1
                    BY <5>1 DEF Once
                <5> QED
                    BY <2>2, <5>2
            <4> QED
                BY <4>1, <4>2
        <3> QED
            BY <3>1 DEF Once
    <2>6. \A u \in Callers : On(u)' <=> u = t \/ On(u)
        <3>1. ASSUME NEW u \in Callers PROVE (\E i \in DOMAIN g : g[i] = u) <=> u = t \/ On(u)
            <4>1. ASSUME NEW i \in DOMAIN g, g[i] = u PROVE u = t \/ On(u)
                BY <2>2, <2>4, <4>1
            <4>2. 1 \in DOMAIN g /\ \A i \in DOMAIN rest : i + 1 \in DOMAIN g
                BY <2>2
            <4>3. ASSUME On(u) PROVE \E i \in DOMAIN g : g[i] = u
                <5>1. PICK i \in DOMAIN rest : rest[i] = u
                    BY <4>3
                <5> QED
                    BY <2>2, <4>2, <5>1
            <4> QED
                BY <2>2, <4>1, <4>2, <4>3
        <3> QED
            BY <2>3, <3>1 DEF On, ToSet
    <2>7. Types'
        BY <1>1, <1>3, <2>2, <2>3 DEF Types, SleepIn
    <2>8. Waits'
        <3>1. ASSUME NEW u \in Callers
              PROVE  /\ waiter'[u] = "linked" <=> On(u)'
                     /\ On(u)' => tstate'[u] \in {"asleep", "dead", "gone"}
            BY <1>1, <2>1, <2>6 DEF Waits
        <3>2. ASSUME NEW u \in Callers, Polls(u)'
              PROVE  On(u)' /\ \A fd \in call_'[u].fds : WouldSleep(u, fd)'
            <4>1. CASE u = t
                <5>1. \A fd \in fds : WouldSleep(t, fd)
                    BY <1>1, PollSleeps
                <5> QED
                    BY <2>1, <2>6, <4>1, <5>1, SleepKept
            <4>2. CASE u # t
                <5>1. Polls(u) /\ call_'[u] = call_[u]
                    BY <2>1, <3>2, <4>2 DEF Polls
                <5>2. On(u) /\ \A fd \in call_[u].fds : WouldSleep(u, fd)
                    BY <1>1, <5>1 DEF Waits
                <5> QED
                    BY <2>6, <5>1, <5>2, SleepKept
            <4> QED
                BY <4>1, <4>2
        <3> QED
            BY <2>3, <2>5, <3>1, <3>2 DEF Waits
    <2> QED
        BY <1>1, <2>1, <2>7, <2>8 DEF IInv, Counts, Gone, Orders
<1>4. CASE /\ call_' = [call_ EXCEPT ![t] = [op |-> "poll", fds |-> fds, left |-> Elapse(left)]]
           /\ g_poll_waiters' = rest
           /\ waiter' = [waiter EXCEPT ![t] = "none"]
           /\ UNCHANGED tstate
    <2>1. Elapse(left) \in Int
        BY DEF Elapse
    <2>2. Types'
        BY <1>1, <1>4, <2>1 DEF Types
    <2>3. Waits'
        <3>1. \A u \in Callers : On(u)' <=> On(u)
            BY <1>4 DEF On, ToSet
        <3>2. /\ \A u \in Callers : waiter'[u] = IF u = t THEN "none" ELSE waiter[u]
              /\ \A u \in Callers : u # t => call_'[u] = call_[u]
            BY <1>1, <1>4 DEF Types
        <3>3. ASSUME NEW u \in Callers
              PROVE  /\ waiter'[u] = "linked" <=> On(u)'
                     /\ On(u)' => tstate'[u] \in {"asleep", "dead", "gone"}
            BY <1>1, <1>2, <1>4, <3>1, <3>2 DEF Waits
        <3>4. ASSUME NEW u \in Callers, Polls(u)'
              PROVE  On(u)' /\ \A fd \in call_'[u].fds : WouldSleep(u, fd)'
            <4>1. Polls(u) /\ call_'[u] = call_[u]
                BY <1>4, <3>2, <3>4 DEF Polls
            <4>2. On(u) /\ \A fd \in call_[u].fds : WouldSleep(u, fd)
                BY <1>1, <4>1 DEF Waits
            <4> QED
                BY <3>1, <4>1, <4>2, SleepKept
        <3> QED
            BY <1>4, <3>3, <3>4 DEF Waits
    <2> QED
        BY <1>1, <1>4, <2>2, <2>3 DEF IInv, Counts, Gone, Orders
<1> QED
    BY <1>3, <1>4 DEF PollWait

LEMMA SelectPollHolds ==
    ASSUME IInv, NEW t \in Callers, NEW fds \in SUBSET Fds, NEW left \in Wakes, select_poll(t, fds, left)
    PROVE  IInv'
<1>1. /\ tstate[t] = "user" /\ \A fd \in fds : ~fd_ready(t, fd)
      /\ PollWait(t, fds, left, g_poll_waiters)
      /\ UNCHANGED <<fd_table, files, pipes, sent>>
    BY DEF select_poll, Running
<1>2. g_poll_waiters \in Seq(Callers) /\ Once(g_poll_waiters)
    BY DEF IInv, Types, Waits
<1>3. \A u \in Callers : (\E i \in DOMAIN g_poll_waiters : g_poll_waiters[i] = u) <=> On(u)
    BY OnFacts
<1>4. left \in Int
    BY CallsAssumption
<1> QED
    BY <1>1, <1>2, <1>3, <1>4, PollWaitHolds

LEMMA PollAgainHolds ==
    ASSUME IInv, NEW t \in Callers, PollAgain(t)
    PROVE  IInv'
<1> DEFINE left == IF waiter[t] = "none" THEN call_[t].left ELSE Elapse(call_[t].left)
           rest == Without(g_poll_waiters, {t})
<1>1. /\ Types /\ Waits /\ Gone /\ Orders /\ Counts(fd_table, files, pipes)
      /\ tstate[t] = "user" /\ ~On(t)
      /\ UNCHANGED <<fd_table, files, pipes, sent>>
    BY DEF IInv, PollAgain, Waits
<1>2. rest \in Seq(Callers) /\ Once(rest)
    <2>1. g_poll_waiters \in Seq(Callers) /\ Once(g_poll_waiters)
        BY <1>1 DEF Types, Waits
    <2>2. rest \in Seq(Callers)
        BY <2>1, WithoutFacts
    <2>3. \A i, j \in DOMAIN g_poll_waiters : g_poll_waiters[i] = g_poll_waiters[j] => i = j
        BY <2>1 DEF Once
    <2>4. \A k, l \in DOMAIN rest : rest[k] = rest[l] => k = l
        BY <2>1, <2>3, WithoutFacts
    <2> HIDE DEF rest
    <2> QED
        BY <2>2, <2>4 DEF Once
<1>3. \A u \in Callers : (\E i \in DOMAIN rest : rest[i] = u) <=> On(u)
    <2>1. g_poll_waiters \in Seq(Callers)
        BY <1>1 DEF Types
    <2>2. \A u : (\E i \in DOMAIN rest : rest[i] = u)
                    <=> u \notin {t} /\ \E i \in DOMAIN g_poll_waiters : g_poll_waiters[i] = u
        BY <2>1, WithoutFacts
    <2> HIDE DEF rest
    <2> QED
        BY <1>1, <2>2, OnFacts
<1>4. call_[t].left \in Int /\ call_[t].fds \in SUBSET Fds /\ left \in Int
    BY <1>1 DEF Types, Elapse
<1>5. \/ call_' = [call_ EXCEPT ![t] = NoCall] /\ g_poll_waiters' = rest
         /\ waiter' = [waiter EXCEPT ![t] = "none"] /\ tstate' = tstate
      \/ (\A fd \in call_[t].fds : ~fd_ready(t, fd)) /\ PollWait(t, call_[t].fds, left, rest)
    BY DEF PollAgain
<1> HIDE DEF left, rest
<1>6. CASE /\ call_' = [call_ EXCEPT ![t] = NoCall] /\ g_poll_waiters' = rest
           /\ waiter' = [waiter EXCEPT ![t] = "none"] /\ tstate' = tstate
    <2>1. NoCall \in [op : {"none", "read", "write", "poll"}, fds : SUBSET Fds, left : Int]
        BY DEF NoCall
    <2>2. Types'
        BY <1>1, <1>2, <1>6, <2>1 DEF Types
    <2>3. Waits'
        <3>1. \A u \in Callers : On(u)' <=> On(u)
            BY <1>3, <1>6 DEF On, ToSet
        <3>2. /\ \A u \in Callers : waiter'[u] = IF u = t THEN "none" ELSE waiter[u]
              /\ \A u \in Callers : u # t => call_'[u] = call_[u]
            BY <1>1, <1>6 DEF Types
        <3>3. ASSUME NEW u \in Callers
              PROVE  /\ waiter'[u] = "linked" <=> On(u)'
                     /\ On(u)' => tstate'[u] \in {"asleep", "dead", "gone"}
            BY <1>1, <1>6, <3>1, <3>2 DEF Waits
        <3>4. ASSUME NEW u \in Callers, Polls(u)'
              PROVE  On(u)' /\ \A fd \in call_'[u].fds : WouldSleep(u, fd)'
            <4>1. Polls(u) /\ call_'[u] = call_[u]
                BY <1>1, <1>6, <3>2, <3>4 DEF Polls
            <4>2. On(u) /\ \A fd \in call_[u].fds : WouldSleep(u, fd)
                BY <1>1, <4>1 DEF Waits
            <4> QED
                BY <1>1, <3>1, <4>1, <4>2, SleepKept
        <3> QED
            BY <1>2, <1>6, <3>3, <3>4 DEF Waits
    <2> QED
        BY <1>1, <1>6, <2>2, <2>3 DEF IInv, Counts, Gone, Orders
<1>7. CASE (\A fd \in call_[t].fds : ~fd_ready(t, fd)) /\ PollWait(t, call_[t].fds, left, rest)
    BY <1>1, <1>2, <1>3, <1>4, <1>7, PollWaitHolds
<1> QED
    BY <1>5, <1>6, <1>7

-----------------------------------------------------------------------------
(* The theorems *)

\* Every step keeps the invariant: the tables, the counts of the pipes, the list of
\* pollers and the order of each ring.
THEOREM CallsInvariant == CallsSpec => []IInv
<1>1. CallsInit => IInv
    BY InitHolds
<1>2. IInv /\ [CallsNext]_cvars => IInv'
    <2> SUFFICES ASSUME IInv, [CallsNext]_cvars PROVE IInv'
        OBVIOUS
    <2>1. CASE UNCHANGED cvars
        BY <2>1, StutterHolds DEF cvars
    <2>2. ASSUME NEW t \in Callers, NEW c \in Callers, Fork(t, c) PROVE IInv'
        BY <2>2, ForkHolds
    <2>3. ASSUME NEW t \in Callers, SigReturn(t) PROVE IInv'
        BY <2>3, SigReturnHolds
    <2>4. ASSUME NEW t \in Callers, OpenFile(t) PROVE IInv'
        BY <2>4, OpenFileHolds
    <2>5. ASSUME NEW t \in Callers, pipefs_create(t) PROVE IInv'
        BY <2>5, CreateHolds
    <2>6. ASSUME NEW t \in Callers, NEW fd \in Fds, CloseHandle(t, fd) PROVE IInv'
        BY <2>6, CloseHandleHolds
    <2>7. ASSUME NEW t \in Callers, NEW fd \in Fds, NEW n \in 1..PIPE_BUF_SIZE, pipefs_read(t, fd, n) PROVE IInv'
        BY <2>7, ReadHolds
    <2>8. ASSUME NEW t \in Callers, NEW fd \in Fds, NEW n \in 1..PIPE_BUF_SIZE + 1, pipefs_write(t, fd, n)
          PROVE  IInv'
        BY <2>8, WriteHolds
    <2>9. ASSUME NEW t \in Callers, NEW fds \in SUBSET Fds, NEW left \in Wakes, select_poll(t, fds, left) PROVE IInv'
        BY <2>9, SelectPollHolds
    <2>10. ASSUME NEW t \in Callers, PollAgain(t) PROVE IInv'
        BY <2>10, PollAgainHolds
    <2>11. ASSUME NEW t \in Callers, Die(t) PROVE IInv'
        BY <2>11, DieHolds
    <2>12. ASSUME NEW t \in Callers, task_18d_cleanup(t) PROVE IInv'
        BY <2>12, CleanupHolds
    <2> QED
        BY <2>1, <2>2, <2>3, <2>4, <2>5, <2>6, <2>7, <2>8, <2>9, <2>10, <2>11, <2>12 DEF CallsNext
<1> QED
    BY <1>1, <1>2, PTL DEF CallsSpec

\* FilesHeldOnce (Calls): every allocated file is in one descriptor, a task that is gone
\* holds none, and a pipe lives as long as its ends, whose numbers it knows.
THEOREM FilesAreHeldOnce == CallsSpec => []FilesHeldOnce
<1>1. IInv => FilesHeldOnce
    <2> SUFFICES ASSUME IInv PROVE FilesHeldOnce
        OBVIOUS
    <2>1. OpenIn(fd_table) = { h \in Callers \X Fds : fd_get(h[1], h[2]) # Closed }
        BY DEF OpenIn, Pairs, fd_get
    <2>2. \A kind, p : EndsIn(fd_table, kind, p) = Holders(kind, p)
        BY DEF EndsIn, Holders, Pairs, fd_get
    <2>3. DOMAIN pipes = 1..MaxPipes
        BY DEF IInv, Types
    <2>4. \A t \in Callers : tstate[t] = "gone" => Open(t, Fds) = {}
        BY DEF IInv, Gone, Open, fd_get
    <2>5. files = Cardinality(OpenIn(fd_table))
        BY DEF IInv, Counts
    <2>6. \A p \in 1..MaxPipes :
             /\ pipes[p].readers = Cardinality(EndsIn(fd_table, "read", p))
             /\ pipes[p].writers = Cardinality(EndsIn(fd_table, "write", p))
             /\ pipes[p].live <=> EndsIn(fd_table, "read", p) \cup EndsIn(fd_table, "write", p) # {}
        BY DEF IInv, Counts
    <2> QED
        BY <2>1, <2>2, <2>3, <2>4, <2>5, <2>6 DEF FilesHeldOnce
<1> QED
    BY <1>1, CallsInvariant, PTL

\* PipeKeepsOrder (Calls): a ring holds what was written last, in order, round its end.
THEOREM PipesKeepOrder == CallsSpec => []PipeKeepsOrder
<1>1. IInv => PipeKeepsOrder
    <2> SUFFICES ASSUME IInv, NEW p \in 1..MaxPipes, pipes[p].live, NEW i \in 0..pipes[p].len - 1
          PROVE  pipes[p].data[(pipes[p].head + i) % PIPE_BUF_SIZE] = (sent[p] - pipes[p].len + i) % Units
        BY DEF PipeKeepsOrder, IInv, Types
    <2>1. pipes[p].data[Wrap(pipes[p].head + i, PIPE_BUF_SIZE)] = Wrap(sent[p] - pipes[p].len + i, Units)
        BY DEF IInv, Orders, OrderedRing
    <2> QED
        BY <2>1 DEF Wrap
<1> QED
    BY <1>1, CallsInvariant, PTL

\* PollersWaitSoundly (Calls): who sleeps in poll is linked, once, with a waiter that is
\* not freed, and a read or a write of any of its descriptors would sleep too.
THEOREM PollersWait == CallsSpec => []PollersWaitSoundly
<1>1. IInv => PollersWaitSoundly
    <2> SUFFICES ASSUME IInv, NEW t \in Callers, tstate[t] = "asleep", call_[t].op = "poll"
          PROVE  /\ Cardinality({ i \in DOMAIN g_poll_waiters : g_poll_waiters[i] = t }) = 1
                 /\ waiter[t] = "linked"
                 /\ \A fd \in call_[t].fds : WouldSleep(t, fd)
        BY DEF PollersWaitSoundly
    <2>1. On(t) /\ waiter[t] = "linked" /\ \A fd \in call_[t].fds : WouldSleep(t, fd)
        BY DEF IInv, Waits, Polls
    <2>2. PICK i \in DOMAIN g_poll_waiters : g_poll_waiters[i] = t
        BY <2>1, OnFacts
    <2>3. \A j \in DOMAIN g_poll_waiters : g_poll_waiters[j] = t => j = i
        BY <2>2 DEF IInv, Waits, Once
    <2>4. { j \in DOMAIN g_poll_waiters : g_poll_waiters[j] = t } = {i}
        BY <2>2, <2>3
    <2>5. Cardinality({i}) = 1
        BY FS_Singleton
    <2> QED
        BY <2>1, <2>4, <2>5
<1> QED
    BY <1>1, CallsInvariant, PTL

-----------------------------------------------------------------------------
(* File contents *)

Byte == Chars \cup {0, Stale}
Inodes == [there : BOOLEAN, data : Seq(Byte), size : Nat]

\* The buffer of a file has room and begins with what the file should hold.
Holds(ino, held) ==
    /\ ino.size <= Len(ino.data) /\ Len(ino.data) <= MAX_SIZE
    /\ held \in Seq(Byte) /\ Len(held) = ino.size
    /\ \A i \in 1..ino.size : ino.data[i] = held[i]

\* What a program or the shell may write at a position without a wrap.
Fits(pos) == pos \in Nat /\ pos + CHUNK < POSITIONS

\* The loop of the C code that doubles a capacity reaches any size.
LEMMA TwosGrow ==
    \A k \in Nat : Twos[k] \in Nat /\ Twos[k] > k
<1>1. PICK nx : nx = [x \in Nat |-> 2 * x]
    OBVIOUS
<1>2. PICK a : a = 1
    OBVIOUS
<1>3. \E g : g = [n \in Nat |-> IF n = 0 THEN 1 ELSE 2 * g[n - 1]]
    <2>1. nx \in [Nat -> Nat] /\ a \in Nat
        BY <1>1, <1>2
    <2>0. \E g \in [Nat -> Nat] : g = [n \in Nat |-> IF n = 0 THEN a ELSE nx[g[n - 1]]]
        <3>1. PICK S : S = Nat
            OBVIOUS
        <3>2. nx \in [S -> S] /\ a \in S
            BY <2>1, <3>1
        <3>3. \E g \in [Nat -> S] : g = [n \in Nat |-> IF n = 0 THEN a ELSE nx[g[n - 1]]]
            BY ONLY <3>2, IterationExists
        <3> QED
            BY <3>1, <3>3
    <2>2. PICK g \in [Nat -> Nat] : g = [n \in Nat |-> IF n = 0 THEN a ELSE nx[g[n - 1]]]
        BY <2>0
    <2>3. \A n \in Nat : n # 0 => nx[g[n - 1]] = 2 * g[n - 1]
        <3>1. ASSUME NEW n \in Nat, n # 0 PROVE nx[g[n - 1]] = 2 * g[n - 1]
            <4>1. g[n - 1] \in Nat
                BY <3>1
            <4> QED
                BY <1>1, <4>1
        <3> QED
            BY <3>1
    <2>4. \A n \in Nat : (IF n = 0 THEN a ELSE nx[g[n - 1]]) = IF n = 0 THEN 1 ELSE 2 * g[n - 1]
        BY <1>2, <2>3
    <2>5. [n \in Nat |-> IF n = 0 THEN a ELSE nx[g[n - 1]]] = [n \in Nat |-> IF n = 0 THEN 1 ELSE 2 * g[n - 1]]
        BY ONLY <2>4
    <2> QED
        BY ONLY <2>2, <2>5
<1>4. PICK t : t = CHOOSE f : f = [n \in Nat |-> IF n = 0 THEN 1 ELSE 2 * f[n - 1]]
    OBVIOUS
<1>5. t = [n \in Nat |-> IF n = 0 THEN 1 ELSE 2 * t[n - 1]]
    BY <1>3, <1>4
<1>6. Twos = t
    BY <1>4 DEF Twos
<1> DEFINE Missed == {k \in Nat : ~ (t[k] \in Nat /\ t[k] > k)}
<1>7. Missed = {}
    <2> SUFFICES ASSUME Missed # {} PROVE FALSE
        OBVIOUS
    <2>1. PICK k \in Missed : \A j \in Missed : k <= j
        BY NatMin
    <2>2. CASE k = 0
        BY <1>5, <2>1, <2>2
    <2>3. CASE k # 0
        <3>1. k - 1 \in Nat /\ k - 1 \notin Missed
            BY <2>1, <2>3
        <3>2. t[k] = 2 * t[k - 1] /\ t[k - 1] \in Nat /\ t[k - 1] > k - 1
            BY <1>5, <2>1, <2>3, <3>1
        <3>3. t[k] \in Nat /\ t[k] > k
            BY <2>1, <2>3, <3>2
        <3> QED
            BY <2>1, <3>3
    <2> QED
        BY <2>2, <2>3
<1> QED
    BY <1>6, <1>7

LEMMA DoubledFacts ==
    ASSUME NEW cap \in Nat, cap >= 1, NEW need \in Nat
    PROVE  Doubled(cap, need) \in Nat /\ Doubled(cap, need) >= need
<1> DEFINE T == {c \in {cap * Twos[k] : k \in 0..need} : c >= need}
<1>1. ASSUME NEW k \in 0..need PROVE cap * Twos[k] \in Nat /\ Twos[k] \in Nat /\ Twos[k] > k
    <2>1. Twos[k] \in Nat /\ Twos[k] > k
        BY TwosGrow
    <2> QED
        BY <2>1
<1>2. T \subseteq Nat
    BY <1>1
<1>3. cap * Twos[need] \in T
    <2>1. Twos[need] \in Nat /\ Twos[need] > need
        BY TwosGrow
    <2>2. \A a, b \in Nat : a >= 1 => a * b >= b
        OBVIOUS
    <2>3. cap * Twos[need] >= Twos[need]
        BY <2>1, <2>2
    <2>4. cap * Twos[need] \in Nat
        BY <2>1
    <2>5. cap * Twos[need] >= need
        BY <2>1, <2>3, <2>4
    <2> QED
        BY <2>5
<1>4. \E x \in T : \A y \in T : x <= y
    <2> HIDE DEF T
    <2> QED
        BY <1>2, <1>3, NatMin
<1>5. Min(T) \in T
    <2> HIDE DEF T
    <2> QED
        BY <1>4 DEF Min
<1> QED
    BY <1>2, <1>5 DEF Doubled

LEMMA SequenceOf ==
    ASSUME NEW T, NEW n \in Nat, NEW f, f = [i \in 1..n |-> f[i]], \A i \in 1..n : f[i] \in T
    PROVE  f \in Seq(T) /\ Len(f) = n
<1>1. f \in [1..n -> T]
    OBVIOUS
<1> QED
    BY <1>1

LEMMA SameSequence ==
    ASSUME NEW T, NEW a \in Seq(T), NEW b \in Seq(T), Len(a) = Len(b), \A i \in 1..Len(b) : a[i] = b[i]
    PROVE  a = b
OBVIOUS

\* A buffer that grew has room, fits the limit and begins with the bytes it had.
LEMMA GrownFacts ==
    ASSUME NEW ino \in Inodes, ino.size <= Len(ino.data), Len(ino.data) <= MAX_SIZE,
           NEW need \in Nat, need <= MAX_SIZE
    PROVE  LET g == Grown(ino, need)
           IN /\ g \in Seq(Byte) /\ Len(g) <= MAX_SIZE /\ Len(g) >= need /\ Len(g) >= ino.size
              /\ \A i \in 1..ino.size : g[i] = ino.data[i]
<1> USE PositionsFit DEF Inodes
<1>1. CASE need <= Len(ino.data)
    BY <1>1 DEF Grown
<1>2. CASE ~ (need <= Len(ino.data))
    <2> DEFINE from == IF Len(ino.data) = 0 THEN FIRST_CAP ELSE Len(ino.data)
               doubled == Doubled(from, need)
               newcap == IF doubled > MAX_SIZE THEN MAX_SIZE ELSE doubled
               b == [i \in 1..newcap |-> IF i <= ino.size THEN ino.data[i] ELSE Stale]
    <2>1. Grown(ino, need) = b
        BY <1>2 DEF Grown
    <2>2. from \in Nat /\ from >= 1
        OBVIOUS
    <2>3. doubled \in Nat /\ doubled >= need
        <3> HIDE DEF from
        <3> QED
            BY <2>2, DoubledFacts
    <2> HIDE DEF doubled
    <2>4. newcap \in Nat /\ newcap <= MAX_SIZE /\ newcap >= need /\ newcap >= ino.size
        BY <1>2, <2>3
    <2> HIDE DEF newcap
    <2>5. \A i \in 1..newcap : b[i] \in Byte
        BY <2>4 DEF Byte
    <2>6. b \in Seq(Byte) /\ Len(b) = newcap
        BY <2>4, <2>5
    <2>7. \A i \in 1..ino.size : b[i] = ino.data[i]
        BY <2>4
    <2> HIDE DEF b
    <2> QED
        BY <2>1, <2>4, <2>6, <2>7
<1> QED
    BY <1>1, <1>2

\* A write that fits leaves the file as it was, or holding what it should.
LEMMA WriteFacts ==
    ASSUME NEW ino \in Inodes, NEW held, Holds(ino, held), NEW pos \in Nat,
           NEW bytes \in Seq(Byte), pos + Len(bytes) < POSITIONS, NEW fails \in BOOLEAN
    PROVE  LET w == tmpfs_file_write(ino, pos, bytes, fails)
           IN \/ w.ret = -1 /\ w.pos = pos /\ w.ino = ino
              \/ /\ w.ret = Len(bytes) /\ w.pos = pos + Len(bytes) /\ w.pos <= MAX_SIZE
                 /\ w.ino \in Inodes /\ w.ino.there = ino.there
                 /\ Holds(w.ino, Written(held, pos, bytes))
<1> USE PositionsFit
<1> DEFINE need == (pos + Len(bytes)) % POSITIONS
           buf == Grown(ino, need)
           w == tmpfs_file_write(ino, pos, bytes, fails)
           data == [i \in DOMAIN buf |->
                       IF i > pos /\ i <= need THEN bytes[i - pos]
                       ELSE IF i > ino.size /\ i <= pos THEN 0 ELSE buf[i]]
           size == IF need > ino.size THEN need ELSE ino.size
           new == [there |-> ino.there, data |-> data, size |-> size]
<1>1. need = pos + Len(bytes) /\ need \in Nat
    BY DEF Byte
<1>2. CASE need > MAX_SIZE \/ (need > Len(ino.data) /\ fails)
    <2>1. w = [ret |-> -1, pos |-> pos, ino |-> ino]
        BY <1>2 DEF tmpfs_file_write
    <2> QED
        BY <2>1
<1>3. CASE ~ (need > MAX_SIZE \/ (need > Len(ino.data) /\ fails))
    <2>1. ino.size \in Nat /\ ino.data \in Seq(Byte) /\ ino.size <= Len(ino.data) /\ Len(ino.data) <= MAX_SIZE
        BY DEF Holds, Inodes
    <2>2. w = [ret |-> Len(bytes), pos |-> need, ino |-> new]
        BY <1>3 DEF tmpfs_file_write
    <2> HIDE DEF w
    <2>4. /\ buf \in Seq(Byte) /\ Len(buf) <= MAX_SIZE /\ Len(buf) >= need /\ Len(buf) >= ino.size
          /\ \A i \in 1..ino.size : buf[i] = ino.data[i]
        <3> HIDE DEF need
        <3>1. need <= MAX_SIZE
            BY <1>1, <1>3
        <3> QED
            BY <1>1, <2>1, <3>1, GrownFacts
    <2> HIDE DEF buf, need
    <2>5. \A i \in 1..Len(buf) : data[i] \in Byte
        BY <1>1, <2>1, <2>4 DEF Byte
    <2>6. data \in Seq(Byte) /\ Len(data) = Len(buf)
        <3>1. DOMAIN buf = 1..Len(buf) /\ Len(buf) \in Nat
            BY <2>4
        <3>2. data = [i \in 1..Len(buf) |-> data[i]]
            BY <3>1
        <3> HIDE DEF data
        <3> QED
            BY <2>5, <3>1, <3>2, SequenceOf
    <2>7. size \in Nat /\ size <= Len(data)
        BY <1>1, <2>1, <2>4, <2>6
    <2> DEFINE h == Written(held, pos, bytes)
               n == IF pos + Len(bytes) > Len(held) THEN pos + Len(bytes) ELSE Len(held)
    <2>8. n = size /\ Len(held) = ino.size /\ held \in Seq(Byte) /\ \A i \in 1..ino.size : ino.data[i] = held[i]
        BY <1>1, <2>1 DEF Holds
    <2>9. h = [i \in 1..n |-> IF i > pos /\ i <= pos + Len(bytes) THEN bytes[i - pos]
                              ELSE IF i <= Len(held) THEN held[i] ELSE 0]
        BY DEF Written
    <2>10. \A i \in 1..n : h[i] \in Byte
        BY <1>1, <2>1, <2>7, <2>8, <2>9 DEF Byte
    <2>11. h \in Seq(Byte) /\ Len(h) = n
        <3>1. h = [i \in 1..n |-> h[i]]
            BY <2>9
        <3>2. n \in Nat
            BY <2>7, <2>8
        <3> HIDE DEF h, n
        <3> QED
            BY <2>10, <3>1, <3>2, SequenceOf
    <2>12. \A i \in 1..n : data[i] = h[i]
        <3> SUFFICES ASSUME NEW i \in 1..n PROVE data[i] = h[i]
            OBVIOUS
        <3>1. i \in 1..Len(buf) /\ i \in DOMAIN buf
            BY <2>4, <2>6, <2>7, <2>8
        <3> HIDE DEF n
        <3>2. data[i] = IF i > pos /\ i <= need THEN bytes[i - pos]
                        ELSE IF i > ino.size /\ i <= pos THEN 0 ELSE buf[i]
            BY <3>1
        <3>3. h[i] = IF i > pos /\ i <= pos + Len(bytes) THEN bytes[i - pos]
                     ELSE IF i <= Len(held) THEN held[i] ELSE 0
            BY <2>9
        <3>4. i \in Nat /\ i >= 1 /\ i <= size
            BY <2>7, <2>8
        <3>5. CASE i > pos /\ i <= need
            BY <1>1, <3>2, <3>3, <3>5
        <3>6. CASE ~ (i > pos /\ i <= need) /\ i <= ino.size
            BY <1>1, <2>1, <2>4, <2>8, <3>2, <3>3, <3>4, <3>6
        <3>7. CASE ~ (i > pos /\ i <= need) /\ i > ino.size
            BY <1>1, <2>1, <2>8, <3>2, <3>3, <3>4, <3>7
        <3> QED
            BY <2>1, <3>4, <3>5, <3>6, <3>7
    <2> HIDE DEF data, size, h, n
    <2>13. new \in Inodes
        BY <2>6, <2>7 DEF Inodes
    <2>14. Holds(new, h)
        BY <2>4, <2>6, <2>7, <2>8, <2>11, <2>12 DEF Holds
    <2>15. w.ret = Len(bytes) /\ w.pos = need /\ w.ino = new /\ need <= MAX_SIZE
        BY <1>1, <1>3, <2>2
    <2> QED
        BY <1>1, <2>13, <2>14, <2>15 DEF h, w
<1> QED
    BY <1>2, <1>3

\* A read stays in the file and gives what the file should hold there.
LEMMA ReadFacts ==
    ASSUME NEW ino \in Inodes, NEW held, Holds(ino, held), NEW pos \in Nat, NEW count \in Nat
    PROVE  LET r == tmpfs_file_read(ino, pos, count)
               n == IF pos >= Len(held) THEN 0
                    ELSE IF count > Len(held) - pos THEN Len(held) - pos ELSE count
           IN /\ r.ret = n /\ r.pos = pos + n /\ n \in Nat /\ n <= count
              /\ r.bytes \in Seq(Byte) /\ Len(r.bytes) = n
              /\ \A i \in 1..n : r.bytes[i] = held[pos + i]
<1> DEFINE r == tmpfs_file_read(ino, pos, count)
           n == IF pos >= Len(held) THEN 0
                ELSE IF count > Len(held) - pos THEN Len(held) - pos ELSE count
           b == [i \in 1..n |-> ino.data[pos + i]]
<1>1. /\ ino.size = Len(held) /\ held \in Seq(Byte) /\ Len(held) \in Nat
      /\ \A i \in 1..Len(held) : ino.data[i] = held[i]
    BY DEF Holds
<1>2. r = [ret |-> n, pos |-> pos + n, bytes |-> b]
    BY <1>1 DEF tmpfs_file_read
<1>3. n \in Nat /\ n <= count /\ (n > 0 => pos + n <= Len(held))
    BY <1>1
<1> HIDE DEF n
<1>4. \A i \in 1..n : b[i] = held[pos + i] /\ b[i] \in Byte
    <2> SUFFICES ASSUME NEW i \in 1..n PROVE b[i] = held[pos + i] /\ b[i] \in Byte
        OBVIOUS
    <2>1. pos + i \in 1..Len(held) /\ b[i] = ino.data[pos + i]
        BY <1>1, <1>3
    <2>2. held[pos + i] \in Byte
        BY <1>1, <2>1
    <2> QED
        BY <1>1, <2>1, <2>2
<1>5. b \in Seq(Byte) /\ Len(b) = n
    BY <1>3, <1>4
<1> HIDE DEF b, r
<1>6. r.ret = n /\ r.pos = pos + n /\ r.bytes = b
    BY <1>2
<1> QED
    BY <1>3, <1>4, <1>5, <1>6 DEF r, n

-----------------------------------------------------------------------------
(* The files, the open handles and the copy the shell is in.  A copy is       *)
(* behind its read by what is in its buffer, and both ends agree up to there. *)

FilesHold ==
    /\ inodes \in [Files -> Inodes]
    /\ contents \in [Files -> Seq(Byte)]
    /\ \A f \in Files : Holds(inodes[f], contents[f])

HandlesFit ==
    /\ handles \in [Progs -> [f : Files \cup {"none"}, pos : Nat]]
    /\ \A p \in Progs : /\ handles[p] # NoHandle => handles[p].f \in Files
                        /\ Fits(handles[p].pos)

Jobs == [op : {"cp", "mv"}, src : Files, dst : Files, spos : Nat, dpos : Nat,
         buf : Seq(Byte), stage : {"read", "write", "copied", "failed"}]

JobFits ==
    job # NoJob => /\ job \in Jobs /\ job.src # job.dst
                   /\ job.dpos <= MAX_SIZE /\ Len(job.buf) <= CHUNK

CopySound(j, from, to) ==
    /\ j.spos = j.dpos + Len(j.buf)
    /\ j.spos <= Len(from) /\ j.dpos <= Len(to)
    /\ \A i \in 1..j.dpos : to[i] = from[i]
    /\ \A i \in 1..Len(j.buf) : j.buf[i] = from[j.dpos + i]
    /\ j.stage = "read" => j.buf = <<>>
    /\ j.stage = "copied" => j.dpos = Len(from)

CopyHolds ==
    job # NoJob /\ job.stage # "failed" => CopySound(job, contents[job.src], contents[job.dst])

FilesInv == FilesHold /\ HandlesFit /\ JobFits

\* Programs seek to where a write of theirs does not wrap.
SeeksFit == \A x \in SeekTo : x + CHUNK < POSITIONS

\* What a step keeps, and what it keeps when nobody writes what the shell copies.
Keeps == FilesInv' /\ (~SharesCopied /\ CopyHolds => CopyHolds' /\ MovesLoseNothing)

\* A step that leaves the files and the shell alone.
LEMMA HandleStep ==
    ASSUME FilesInv, UNCHANGED <<inodes, contents, job>>, HandlesFit'
    PROVE  Keeps
BY DEF Keeps, FilesInv, FilesHold, JobFits, CopyHolds, MovesLoseNothing, Copying

\* The files after a write, by whomever.
LEMMA WriteStep ==
    ASSUME FilesHold, NEW f \in Files, NEW pos \in Nat, NEW bytes \in Seq(Byte),
           pos + Len(bytes) < POSITIONS, NEW fails \in BOOLEAN, Write(f, pos, bytes, fails)
    PROVE  LET w == tmpfs_file_write(inodes[f], pos, bytes, fails)
           IN /\ FilesHold'
              /\ \A g \in Files : inodes'[g].there = inodes[g].there
              /\ \A g \in Files : g # f => contents'[g] = contents[g]
              /\ \/ w.ret = -1 /\ w.pos = pos /\ contents' = contents
                 \/ /\ w.ret = Len(bytes) /\ w.pos = pos + Len(bytes) /\ w.pos <= MAX_SIZE
                    /\ contents'[f] = Written(contents[f], pos, bytes)
<1> DEFINE w == tmpfs_file_write(inodes[f], pos, bytes, fails)
<1>1. inodes[f] \in Inodes /\ Holds(inodes[f], contents[f])
    BY DEF FilesHold
<1>2. \/ w.ret = -1 /\ w.pos = pos /\ w.ino = inodes[f]
      \/ /\ w.ret = Len(bytes) /\ w.pos = pos + Len(bytes) /\ w.pos <= MAX_SIZE
         /\ w.ino \in Inodes /\ w.ino.there = inodes[f].there
         /\ Holds(w.ino, Written(contents[f], pos, bytes))
    BY <1>1, WriteFacts
<1>3. /\ inodes' = [inodes EXCEPT ![f] = w.ino]
      /\ contents' = [contents EXCEPT ![f] = IF w.ret < 0 THEN @ ELSE Written(@, pos, bytes)]
    BY DEF Write
<1> HIDE DEF w
<1>4. CASE w.ret = -1 /\ w.pos = pos /\ w.ino = inodes[f]
    <2>1. inodes' = inodes /\ contents' = contents
        BY <1>3, <1>4 DEF FilesHold
    <2> QED
        BY <1>4, <2>1 DEF FilesHold, w
<1>5. CASE /\ w.ret = Len(bytes) /\ w.pos = pos + Len(bytes) /\ w.pos <= MAX_SIZE
           /\ w.ino \in Inodes /\ w.ino.there = inodes[f].there
           /\ Holds(w.ino, Written(contents[f], pos, bytes))
    <2>1. contents' = [contents EXCEPT ![f] = Written(contents[f], pos, bytes)]
        <3>1. Len(bytes) \in Nat /\ ~ (w.ret < 0)
            BY <1>5
        <3> QED
            BY <1>3, <3>1
    <2>2. Written(contents[f], pos, bytes) \in Seq(Byte)
        BY <1>5 DEF Holds
    <2>3. /\ \A g \in Files : g # f => inodes'[g] = inodes[g] /\ contents'[g] = contents[g]
          /\ inodes'[f] = w.ino /\ contents'[f] = Written(contents[f], pos, bytes)
        BY <1>3, <2>1 DEF FilesHold
    <2>4. inodes' \in [Files -> Inodes] /\ contents' \in [Files -> Seq(Byte)]
        BY <1>3, <1>5, <2>1, <2>2 DEF FilesHold
    <2>5. ASSUME NEW g \in Files PROVE Holds(inodes'[g], contents'[g]) /\ inodes'[g].there = inodes[g].there
        BY <1>5, <2>3 DEF FilesHold
    <2> QED
        BY <1>5, <2>3, <2>4, <2>5 DEF FilesHold, w
<1> QED
    BY <1>2, <1>4, <1>5

LEMMA OpensKeeps ==
    ASSUME FilesInv, NEW p \in Progs, NEW f \in ProgFiles, NEW flags, NEW full \in BOOLEAN, Opens(p, f, flags, full)
    PROVE  Keeps
<1> USE PositionsFit
<1> DEFINE r == vfs_open_new(f, "creat" \in flags, "excl" \in flags)
<1>1. f \in Files
    OBVIOUS
<1>2. r.there \in BOOLEAN /\ (inodes[f].there => r.there)
    BY DEF vfs_open_new
<1>3. PICK b : b = r.there
    OBVIOUS
<1>4. inodes' = [inodes EXCEPT ![f].there = b] /\ contents' = contents /\ job' = job
    BY <1>3 DEF Opens
<1>5. /\ inodes' \in [Files -> Inodes]
      /\ \A g \in Files : inodes'[g].data = inodes[g].data /\ inodes'[g].size = inodes[g].size
      /\ \A g \in Files : inodes[g].there => inodes'[g].there
    BY <1>1, <1>2, <1>3, <1>4 DEF FilesInv, FilesHold, Inodes
<1>6. FilesHold'
    BY <1>4, <1>5 DEF FilesInv, FilesHold, Holds
<1>7. HandlesFit'
    <2>1. handles' = handles \/ handles' = [handles EXCEPT ![p] = [f |-> f, pos |-> 0]]
        BY DEF Opens
    <2> QED
        BY <1>1, <2>1 DEF FilesInv, HandlesFit, Fits
<1> QED
    BY <1>4, <1>5, <1>6, <1>7 DEF Keeps, FilesInv, JobFits, CopyHolds, MovesLoseNothing

LEMMA ReadsKeeps ==
    ASSUME FilesInv, NEW p \in Progs, Reads(p)
    PROVE  Keeps
<1> USE PositionsFit
<1>1. UNCHANGED <<inodes, contents, job>>
    BY DEF Reads
<1>2. CASE handles[p] = NoHandle
    BY <1>1, <1>2, HandleStep DEF Reads, FilesInv, HandlesFit
<1>3. CASE handles[p] # NoHandle
    <2> DEFINE ino == inodes[handles[p].f]
               held == contents[handles[p].f]
               pos == handles[p].pos
    <2>1. PICK n \in 1..CHUNK : handles' = [handles EXCEPT ![p].pos = tmpfs_file_read(ino, pos, n).pos]
        BY <1>3 DEF Reads
    <2>2. handles[p].f \in Files /\ pos \in Nat /\ pos + CHUNK < POSITIONS
        BY <1>3 DEF FilesInv, HandlesFit, Fits
    <2>3. ino \in Inodes /\ Holds(ino, held) /\ Len(held) <= MAX_SIZE
        BY <2>2 DEF FilesInv, FilesHold, Holds, Inodes
    <2> DEFINE to == tmpfs_file_read(ino, pos, n).pos
    <2>4. to \in Nat /\ (to = pos \/ to <= Len(held))
        <3> DEFINE m == IF pos >= Len(held) THEN 0
                        ELSE IF n > Len(held) - pos THEN Len(held) - pos ELSE n
        <3>0. n \in Nat /\ Len(held) \in Nat
            BY <2>3 DEF Holds
        <3>1. to = pos + m
            <4> HIDE DEF ino, held, pos
            <4> QED
                BY <2>2, <2>3, <3>0, ReadFacts
        <3> HIDE DEF to, held, pos
        <3> QED
            BY <2>2, <3>0, <3>1
    <2>5. handles' = [handles EXCEPT ![p].pos = to]
        BY <2>1
    <2>6. Fits(to)
        <3>1. Len(held) \in Nat
            BY <2>3 DEF Holds
        <3> HIDE DEF to, held, pos
        <3> QED
            BY <2>2, <2>3, <2>4, <3>1 DEF Fits
    <2> HIDE DEF to
    <2>7. HandlesFit'
        BY <2>2, <2>5, <2>6 DEF FilesInv, HandlesFit, Fits
    <2> QED
        BY <1>1, <2>7, HandleStep
<1> QED
    BY <1>2, <1>3

LEMMA SeeksKeeps ==
    ASSUME SeeksFit, FilesInv, NEW p \in Progs, Seeks(p)
    PROVE  Keeps
<1>1. UNCHANGED <<inodes, contents, job>>
    BY DEF Seeks
<1>2. HandlesFit'
    <2>1. CASE handles[p] = NoHandle
        BY <2>1 DEF Seeks, FilesInv, HandlesFit
    <2>2. CASE handles[p] # NoHandle
        <3>1. PICK to \in SeekTo : handles' = [handles EXCEPT ![p].pos = to]
            BY <2>2 DEF Seeks
        <3>2. Fits(to)
            BY <3>1, PositionsFit DEF SeeksFit, Fits
        <3>3. handles[p].f \in Files
            BY <2>2 DEF FilesInv, HandlesFit
        <3> QED
            BY <3>1, <3>2, <3>3 DEF FilesInv, HandlesFit, Fits
    <2> QED
        BY <2>1, <2>2
<1> QED
    BY <1>1, <1>2, HandleStep

LEMMA ClosesKeeps ==
    ASSUME FilesInv, NEW p \in Progs, Closes(p)
    PROVE  Keeps
<1>1. UNCHANGED <<inodes, contents, job>>
    BY DEF Closes
<1>2. HandlesFit'
    BY PositionsFit DEF Closes, FilesInv, HandlesFit, Fits, NoHandle
<1> QED
    BY <1>1, <1>2, HandleStep

LEMMA WritesKeeps ==
    ASSUME FilesInv, NEW p \in Progs, Writes(p)
    PROVE  Keeps
<1> USE PositionsFit
<1>1. job' = job
    BY DEF Writes
<1>2. CASE handles[p] = NoHandle
    BY <1>2, HandleStep DEF Writes, FilesInv, HandlesFit
<1>3. CASE handles[p] # NoHandle
    <2> DEFINE f == handles[p].f
               pos == handles[p].pos
    <2>1. PICK n \in 1..CHUNK, c \in Chars, fails \in BOOLEAN : WriteOf(p, [i \in 1..n |-> c], fails)
        BY <1>3 DEF Writes
    <2> DEFINE bytes == [i \in 1..n |-> c]
               to == tmpfs_file_write(inodes[f], pos, bytes, fails).pos
    <2>2. f \in Files /\ pos \in Nat /\ pos + CHUNK < POSITIONS
        BY <1>3 DEF FilesInv, HandlesFit, Fits
    <2>3. bytes \in Seq(Byte) /\ Len(bytes) = n
        <3>1. bytes = [i \in 1..n |-> bytes[i]] /\ \A i \in 1..n : bytes[i] \in Byte
            BY DEF Byte
        <3>2. n \in Nat
            OBVIOUS
        <3> HIDE DEF bytes
        <3> QED
            BY <3>1, <3>2, SequenceOf
    <2>4. Write(f, pos, bytes, fails) /\ handles' = [handles EXCEPT ![p].pos = to]
        BY <2>1 DEF WriteOf
    <2>5. SharesCopied \/ ~Copying(f)
        BY <1>3 DEF Writes
    <2> HIDE DEF bytes, f, pos
    <2>6. /\ FilesHold'
          /\ \A g \in Files : inodes'[g].there = inodes[g].there
          /\ \A g \in Files : g # f => contents'[g] = contents[g]
          /\ to = pos \/ (to \in Nat /\ to <= MAX_SIZE)
        <3>1. pos + Len(bytes) < POSITIONS
            BY <2>2, <2>3
        <3> DEFINE w == tmpfs_file_write(inodes[f], pos, bytes, fails)
        <3>2. /\ FilesHold'
              /\ \A g \in Files : inodes'[g].there = inodes[g].there
              /\ \A g \in Files : g # f => contents'[g] = contents[g]
              /\ \/ w.ret = -1 /\ w.pos = pos /\ contents' = contents
                 \/ /\ w.ret = Len(bytes) /\ w.pos = pos + Len(bytes) /\ w.pos <= MAX_SIZE
                    /\ contents'[f] = Written(contents[f], pos, bytes)
            <4>1. FilesHold /\ Write(f, pos, bytes, fails) /\ f \in Files /\ pos \in Nat /\ bytes \in Seq(Byte)
                BY <2>2, <2>3, <2>4 DEF FilesInv
            <4>2. fails \in BOOLEAN
                OBVIOUS
            <4> QED
                BY ONLY <3>1, <4>1, <4>2, WriteStep, Zenon
        <3>3. to = w.pos
            OBVIOUS
        <3>4. w.pos = pos \/ (w.pos = pos + Len(bytes) /\ w.pos <= MAX_SIZE)
            BY <3>2, Zenon
        <3> HIDE DEF w, to
        <3>5. to = pos \/ (to \in Nat /\ to <= MAX_SIZE)
            BY <2>2, <2>3, <3>3, <3>4
        <3> QED
            BY <3>2, <3>5, Zenon
    <2> HIDE DEF to
    <2>7. HandlesFit'
        <3>1. Fits(to)
            BY <2>2, <2>6 DEF Fits
        <3>2. handles[p].f \in Files
            BY <2>2 DEF f
        <3> QED
            BY <2>4, <3>1, <3>2 DEF FilesInv, HandlesFit, Fits
    <2>8. ASSUME ~SharesCopied, CopyHolds PROVE CopyHolds' /\ MovesLoseNothing
        <3>1. MovesLoseNothing
            BY <2>6 DEF MovesLoseNothing
        <3>2. CopyHolds'
            BY <1>1, <2>5, <2>6, <2>8 DEF CopyHolds, Copying, FilesInv, JobFits, Jobs
        <3> QED
            BY <3>1, <3>2
    <2> QED
        BY <1>1, <2>6, <2>7, <2>8 DEF Keeps, FilesInv, JobFits
<1> QED
    BY <1>2, <1>3

LEMMA CopyStartKeeps ==
    ASSUME FilesInv, CopyStart
    PROVE  Keeps
<1> USE PositionsFit
<1>1. PICK op \in {"cp", "mv"}, src \in Files, dst \in Files :
          /\ src # dst
          /\ inodes' = [inodes EXCEPT ![dst].there = TRUE]
          /\ job' = [op |-> op, src |-> src, dst |-> dst, spos |-> 0, dpos |-> 0,
                     buf |-> <<>>, stage |-> "read"]
    BY DEF CopyStart
<1>2. contents' = contents /\ handles' = handles
    BY DEF CopyStart
<1>3. /\ inodes' \in [Files -> Inodes]
      /\ \A g \in Files : inodes'[g].data = inodes[g].data /\ inodes'[g].size = inodes[g].size
      /\ \A g \in Files : inodes[g].there => inodes'[g].there
    BY <1>1 DEF FilesInv, FilesHold, Inodes
<1>4. FilesHold'
    <2>1. ASSUME NEW g \in Files PROVE Holds(inodes'[g], contents[g])
        <3>1. Holds(inodes[g], contents[g]) /\ inodes'[g].data = inodes[g].data /\ inodes'[g].size = inodes[g].size
            BY <1>3 DEF FilesInv, FilesHold
        <3> QED
            BY ONLY <3>1 DEF Holds
    <2> QED
        BY <1>2, <1>3, <2>1 DEF FilesInv, FilesHold
<1>7. HandlesFit'
    BY <1>2 DEF FilesInv, HandlesFit
<1>5. JobFits'
    BY <1>1 DEF JobFits, Jobs
<1>6. CopyHolds'
    <2>1. contents[src] \in Seq(Byte) /\ contents[dst] \in Seq(Byte)
        BY DEF FilesInv, FilesHold
    <2>2. CopySound(job', contents[src], contents[dst])
        BY <1>1, <2>1 DEF CopySound
    <2>3. job'.src = src /\ job'.dst = dst
        BY <1>1
    <2> QED
        BY <1>2, <2>2, <2>3 DEF CopyHolds
<1> QED
    BY <1>3, <1>4, <1>5, <1>6, <1>7 DEF Keeps, FilesInv, MovesLoseNothing

LEMMA CopyReadKeeps ==
    ASSUME FilesInv, CopyRead
    PROVE  Keeps
<1> USE PositionsFit
<1> DEFINE s == contents[job.src]
           r == tmpfs_file_read(inodes[job.src], job.spos, CHUNK)
           n == IF job.spos >= Len(s) THEN 0
                ELSE IF CHUNK > Len(s) - job.spos THEN Len(s) - job.spos ELSE CHUNK
           st == IF r.ret = 0 THEN "copied" ELSE "write"
           new == [job EXCEPT !.spos = r.pos, !.buf = r.bytes, !.stage = st]
<1>1. /\ job # NoJob /\ job.stage = "read" /\ job' = new
      /\ inodes' = inodes /\ contents' = contents /\ handles' = handles
    BY DEF CopyRead
<1>2. job \in Jobs /\ job.src # job.dst /\ job.dpos <= MAX_SIZE
    BY <1>1 DEF FilesInv, JobFits
<1>3. job.src \in Files /\ job.dst \in Files /\ job.spos \in Nat /\ job.dpos \in Nat
    BY <1>2 DEF Jobs
<1>4. inodes[job.src] \in Inodes /\ Holds(inodes[job.src], s) /\ s \in Seq(Byte) /\ Len(s) \in Nat
    BY <1>3 DEF FilesInv, FilesHold
<1>5. /\ r.ret = n /\ r.pos = job.spos + n /\ n \in Nat /\ n <= CHUNK
      /\ r.bytes \in Seq(Byte) /\ Len(r.bytes) = n
      /\ \A i \in 1..n : r.bytes[i] = s[job.spos + i]
    <2>1. CHUNK \in Nat
        OBVIOUS
    <2>2. PICK ino, held, pos, count : ino = inodes[job.src] /\ held = s /\ pos = job.spos /\ count = CHUNK
        OBVIOUS
    <2> DEFINE q == tmpfs_file_read(ino, pos, count)
               m == IF pos >= Len(held) THEN 0
                    ELSE IF count > Len(held) - pos THEN Len(held) - pos ELSE count
    <2>3. ino \in Inodes /\ Holds(ino, held) /\ pos \in Nat /\ count \in Nat
        BY <1>3, <1>4, <2>1, <2>2
    <2>4. /\ q.ret = m /\ q.pos = pos + m /\ m \in Nat /\ m <= count
          /\ q.bytes \in Seq(Byte) /\ Len(q.bytes) = m
          /\ \A i \in 1..m : q.bytes[i] = held[pos + i]
        BY ONLY <2>3, ReadFacts
    <2>5. q = r /\ m = n
        BY <2>2
    <2> HIDE DEF q, r, m, n, s
    <2> QED
        BY <2>2, <2>4, <2>5
<1> HIDE DEF r
<1>6. /\ new \in Jobs /\ new.src = job.src /\ new.dst = job.dst /\ new.dpos = job.dpos
      /\ new.spos = r.pos /\ new.buf = r.bytes /\ new.stage = st
    <2>1. st \in {"read", "write", "copied", "failed"}
        OBVIOUS
    <2>2. r.pos \in Nat
        BY <1>3, <1>5
    <2> HIDE DEF n, st
    <2> QED
        BY <1>2, <1>5, <2>1, <2>2 DEF Jobs
<1> HIDE DEF new
<1>7. FilesInv'
    BY <1>1, <1>2, <1>5, <1>6 DEF FilesInv, FilesHold, HandlesFit, JobFits
<1>8. ASSUME CopyHolds PROVE CopyHolds'
    <2> DEFINE d == contents[job.dst]
    <2>1. CopySound(job, s, d)
        BY <1>1, <1>8 DEF CopyHolds
    <2>2. /\ job.buf = <<>> /\ job.spos = job.dpos /\ job.dpos <= Len(s) /\ job.dpos <= Len(d)
          /\ \A i \in 1..job.dpos : d[i] = s[i]
        BY <1>1, <1>3, <2>1 DEF CopySound
    <2>3. n = 0 => job.dpos = Len(s)
        BY <1>3, <1>4, <2>2
    <2>4. job.spos + n <= Len(s)
        BY <1>3, <1>4, <2>2
    <2> HIDE DEF s, d, n
    <2>5. new.stage = "copied" => n = 0
        BY <1>5, <1>6
    <2>6. CopySound(new, s, d)
        BY <1>1, <1>3, <1>5, <1>6, <2>2, <2>3, <2>4, <2>5 DEF CopySound
    <2>7. s = contents'[job'.src] /\ d = contents'[job'.dst]
        BY <1>1, <1>6 DEF s, d
    <2> QED
        BY <1>1, <2>6, <2>7 DEF CopyHolds
<1> QED
    BY <1>1, <1>7, <1>8 DEF Keeps, MovesLoseNothing

LEMMA CopyWriteKeeps ==
    ASSUME FilesInv, CopyWrite
    PROVE  Keeps
<1> USE PositionsFit
<1>1. job # NoJob /\ job.stage = "write" /\ handles' = handles
    BY DEF CopyWrite
<1>2. job \in Jobs /\ job.src # job.dst /\ job.dpos <= MAX_SIZE /\ Len(job.buf) <= CHUNK
    BY <1>1 DEF FilesInv, JobFits
<1>3. /\ job.src \in Files /\ job.dst \in Files /\ job.spos \in Nat /\ job.dpos \in Nat
      /\ job.buf \in Seq(Byte) /\ Len(job.buf) \in Nat
    BY <1>2 DEF Jobs
<1> DEFINE W(fails) == tmpfs_file_write(inodes[job.dst], job.dpos, job.buf, fails)
<1>4. PICK fails \in BOOLEAN :
          /\ Write(job.dst, job.dpos, job.buf, fails)
          /\ job' = [job EXCEPT !.dpos = W(fails).pos, !.buf = <<>>,
                       !.stage = IF W(fails).ret < 0 \/ W(fails).pos > COPY_LIMIT THEN "failed" ELSE "read"]
    BY DEF CopyWrite
<1> DEFINE w == tmpfs_file_write(inodes[job.dst], job.dpos, job.buf, fails)
           s == contents[job.src]
           d == contents[job.dst]
<1>5. /\ FilesHold'
      /\ \A g \in Files : inodes'[g].there = inodes[g].there
      /\ \A g \in Files : g # job.dst => contents'[g] = contents[g]
      /\ \/ w.ret = -1 /\ w.pos = job.dpos /\ contents' = contents
         \/ /\ w.ret = Len(job.buf) /\ w.pos = job.dpos + Len(job.buf) /\ w.pos <= MAX_SIZE
            /\ contents'[job.dst] = Written(contents[job.dst], job.dpos, job.buf)
    <2>1. job.dpos + Len(job.buf) < POSITIONS
        BY <1>2, <1>3
    <2>2. FilesHold
        BY DEF FilesInv
    <2> QED
        BY ONLY <1>3, <1>4, <2>1, <2>2, WriteStep, Zenon
<1> HIDE DEF w
<1> DEFINE st == IF w.ret < 0 \/ w.pos > COPY_LIMIT THEN "failed" ELSE "read"
<1>6. job' = [job EXCEPT !.dpos = w.pos, !.buf = <<>>, !.stage = st]
    BY <1>4 DEF w
<1>7. \/ w.ret = -1 /\ w.pos = job.dpos
      \/ w.ret = Len(job.buf) /\ w.pos = job.dpos + Len(job.buf) /\ w.pos <= MAX_SIZE
    BY <1>5, Zenon
<1>8. w.pos \in Nat /\ w.pos <= MAX_SIZE
    BY <1>2, <1>3, <1>7
<1>9. /\ job' \in Jobs /\ job'.src = job.src /\ job'.dst = job.dst /\ job'.spos = job.spos
      /\ job'.dpos = w.pos /\ job'.buf = <<>>
      /\ job'.stage \in {"failed", "read"} /\ (job'.stage = "read" => ~ (w.ret < 0))
    <2>1. st \in {"failed", "read"} /\ (st = "read" => ~ (w.ret < 0))
        OBVIOUS
    <2>2. <<>> \in Seq(Byte)
        OBVIOUS
    <2> HIDE DEF st
    <2> QED
        BY <1>2, <1>6, <1>8, <2>1, <2>2 DEF Jobs
<1>10. FilesInv'
    <2>1. JobFits'
        BY <1>2, <1>8, <1>9 DEF JobFits
    <2> QED
        BY <1>1, <1>5, <2>1, Zenon DEF FilesInv, HandlesFit
<1>11. ASSUME CopyHolds PROVE CopyHolds'
    <2>1. CASE w.ret = -1
        BY <1>9, <2>1 DEF CopyHolds
    <2>2. CASE w.ret # -1
        <3>1. /\ w.pos = job.dpos + Len(job.buf)
              /\ contents'[job.dst] = Written(d, job.dpos, job.buf) /\ contents'[job.src] = s
            BY <1>2, <1>3, <1>5, <2>2, Zenon
        <3>2. CopySound(job, s, d) /\ s \in Seq(Byte) /\ d \in Seq(Byte)
            BY <1>1, <1>3, <1>11 DEF CopyHolds, FilesInv, FilesHold
        <3> DEFINE h == Written(d, job.dpos, job.buf)
                   n == IF job.dpos + Len(job.buf) > Len(d) THEN job.dpos + Len(job.buf) ELSE Len(d)
        <3> HIDE DEF s, d
        <3>3. n \in Nat /\ n >= job.dpos + Len(job.buf) /\ n >= Len(d)
            BY <1>3, <3>2
        <3>4. h = [i \in 1..n |-> IF i > job.dpos /\ i <= job.dpos + Len(job.buf) THEN job.buf[i - job.dpos]
                                  ELSE IF i <= Len(d) THEN d[i] ELSE 0]
            BY DEF Written
        <3> HIDE DEF n, h
        <3>5. Len(h) = n
            BY <3>3, <3>4
        <3>6. /\ job.spos = job.dpos + Len(job.buf) /\ job.spos <= Len(s) /\ job.dpos <= Len(d)
              /\ \A i \in 1..job.dpos : d[i] = s[i]
              /\ \A i \in 1..Len(job.buf) : job.buf[i] = s[job.dpos + i]
            BY <3>2 DEF CopySound
        <3>7. ASSUME NEW i \in 1..job.spos PROVE h[i] = s[i]
            <4>1. i \in 1..n /\ Len(d) \in Nat
                BY <1>3, <3>2, <3>3, <3>6
            <4>2. h[i] = IF i > job.dpos /\ i <= job.dpos + Len(job.buf) THEN job.buf[i - job.dpos]
                         ELSE IF i <= Len(d) THEN d[i] ELSE 0
                BY <3>4, <4>1
            <4>3. CASE i > job.dpos
                <5>1. i - job.dpos \in 1..Len(job.buf) /\ job.dpos + (i - job.dpos) = i
                    BY <1>3, <3>6, <4>3
                <5> QED
                    BY <1>3, <3>6, <4>2, <4>3, <5>1
            <4>4. CASE ~ (i > job.dpos)
                <5>1. i \in 1..job.dpos /\ i <= Len(d)
                    BY <1>3, <3>6, <4>1, <4>4
                <5> QED
                    BY <3>6, <4>2, <4>4, <5>1
            <4> QED
                BY <4>3, <4>4
        <3>8. CopySound(job', s, h)
            BY <1>3, <1>9, <3>1, <3>3, <3>5, <3>6, <3>7 DEF CopySound
        <3>9. contents'[job'.src] = s /\ contents'[job'.dst] = h
            BY <1>9, <3>1 DEF h
        <3> QED
            BY <3>8, <3>9 DEF CopyHolds
    <2> QED
        BY <2>1, <2>2
<1>12. MovesLoseNothing
    BY <1>5, Zenon DEF MovesLoseNothing
<1> QED
    BY <1>10, <1>11, <1>12 DEF Keeps

LEMMA UnlinkStep ==
    ASSUME FilesHold, NEW f \in Files, Unlink(f)
    PROVE  /\ FilesHold'
           /\ \A g \in Files : g # f => inodes'[g] = inodes[g] /\ contents'[g] = contents[g]
<1> USE PositionsFit
<1>1. <<>> \in Seq(Byte) /\ Len(<<>>) = 0
    OBVIOUS
<1>2. NoInode \in Inodes /\ NoInode.size = 0 /\ NoInode.data = <<>>
    BY <1>1 DEF NoInode, Inodes
<1>3. Holds(NoInode, <<>>)
    BY <1>1, <1>2 DEF Holds
<1>4. inodes' = [inodes EXCEPT ![f] = NoInode] /\ contents' = [contents EXCEPT ![f] = <<>>]
    BY DEF Unlink
<1>5. PICK none : none = NoInode
    OBVIOUS
<1>6. /\ inodes' \in [Files -> Inodes] /\ inodes'[f] = none
      /\ \A g \in Files : g # f => inodes'[g] = inodes[g]
    BY <1>2, <1>4, <1>5 DEF FilesHold
<1>7. /\ contents' \in [Files -> Seq(Byte)] /\ contents'[f] = <<>>
      /\ \A g \in Files : g # f => contents'[g] = contents[g]
    BY <1>1, <1>4 DEF FilesHold
<1>8. ASSUME NEW g \in Files PROVE Holds(inodes'[g], contents'[g])
    BY <1>3, <1>5, <1>6, <1>7 DEF FilesHold
<1> QED
    BY <1>6, <1>7, <1>8 DEF FilesHold

LEMMA cmd_cpKeeps ==
    ASSUME FilesInv, cmd_cp
    PROVE  Keeps
BY DEF cmd_cp, Keeps, FilesInv, FilesHold, HandlesFit, JobFits, CopyHolds, MovesLoseNothing

LEMMA cmd_rmKeeps ==
    ASSUME FilesInv, cmd_rm
    PROVE  Keeps
<1>1. PICK f \in Files : ~Copying(f) /\ Unlink(f)
    BY DEF cmd_rm
<1>2. handles' = handles /\ job' = job
    BY DEF cmd_rm
<1>3. FilesHold' /\ \A g \in Files : g # f => inodes'[g] = inodes[g] /\ contents'[g] = contents[g]
    BY <1>1, UnlinkStep DEF FilesInv
<1>4. FilesInv'
    BY <1>2, <1>3 DEF FilesInv, HandlesFit, JobFits
<1>5. ASSUME CopyHolds PROVE CopyHolds'
    BY <1>1, <1>2, <1>3, <1>5 DEF CopyHolds, Copying, FilesInv, JobFits, Jobs
<1>6. MovesLoseNothing
    BY <1>1, <1>3 DEF MovesLoseNothing
<1> QED
    BY <1>4, <1>5, <1>6 DEF Keeps

LEMMA cmd_mvKeeps ==
    ASSUME FilesInv, cmd_mv
    PROVE  Keeps
<1>1. /\ job # NoJob /\ job' = NoJob /\ handles' = handles
      /\ IF job.stage = "copied" THEN Unlink(job.src) ELSE UNCHANGED <<inodes, contents>>
    BY DEF cmd_mv
<1>2. job \in Jobs /\ job.src # job.dst /\ job.src \in Files /\ job.dst \in Files
    BY <1>1 DEF FilesInv, JobFits, Jobs
<1>3. CopyHolds' /\ JobFits' /\ HandlesFit'
    BY <1>1 DEF CopyHolds, JobFits, FilesInv, HandlesFit
<1>4. CASE job.stage # "copied"
    BY <1>1, <1>3, <1>4 DEF Keeps, FilesInv, FilesHold, MovesLoseNothing
<1>5. CASE job.stage = "copied"
    <2>1. FilesHold' /\ \A g \in Files : g # job.src => inodes'[g] = inodes[g] /\ contents'[g] = contents[g]
        BY <1>1, <1>2, <1>5, UnlinkStep DEF FilesInv
    <2>2. ASSUME CopyHolds PROVE IsPrefix(contents[job.src], contents'[job.dst])
        <3> DEFINE s == contents[job.src]
                   d == contents[job.dst]
        <3>1. s \in Seq(Byte) /\ d \in Seq(Byte) /\ job.dpos \in Nat /\ contents'[job.dst] = d
            BY <1>2, <2>1 DEF FilesInv, FilesHold, Jobs
        <3>2. job.dpos = Len(s) /\ job.dpos <= Len(d) /\ \A i \in 1..job.dpos : d[i] = s[i]
            BY <1>1, <1>5, <2>2 DEF CopyHolds, CopySound
        <3> HIDE DEF s, d
        <3>3. SubSeq(s, 1, Len(s)) = SubSeq(d, 1, Len(s))
            BY <3>1, <3>2
        <3> QED
            BY <3>1, <3>2, <3>3 DEF IsPrefix, s
    <2>3. ASSUME CopyHolds PROVE MovesLoseNothing
        BY <2>1, <2>2, <2>3 DEF MovesLoseNothing
    <2> QED
        BY <1>3, <2>1, <2>3 DEF Keeps, FilesInv
<1> QED
    BY <1>4, <1>5

LEMMA FilesStart == FileIoInit => FilesInv /\ CopyHolds
<1> SUFFICES ASSUME FileIoInit PROVE FilesInv /\ CopyHolds
    OBVIOUS
<1> USE PositionsFit
<1>1. <<>> \in Seq(Byte) /\ Len(<<>>) = 0
    OBVIOUS
<1>2. NoInode \in Inodes /\ NoInode.size = 0 /\ NoInode.data = <<>>
    BY <1>1 DEF NoInode, Inodes
<1>3. Holds(NoInode, <<>>)
    BY <1>1, <1>2 DEF Holds
<1>4. FilesHold
    BY <1>1, <1>2, <1>3 DEF FileIoInit, FilesHold
<1>5. HandlesFit
    BY DEF FileIoInit, HandlesFit, NoHandle, Fits
<1>6. JobFits /\ CopyHolds
    BY DEF FileIoInit, JobFits, CopyHolds
<1> QED
    BY <1>4, <1>5, <1>6 DEF FilesInv

LEMMA FilesStep ==
    ASSUME SeeksFit, FilesInv, [FileIoNext]_io_vars
    PROVE  Keeps
<1>1. ASSUME NEW p \in Progs, IoOpen(p) \/ linux_open(p) \/ win32_create_file_common(p) PROVE Keeps
    <2>1. PICK f \in ProgFiles, full \in BOOLEAN : \E flags : Opens(p, f, flags, full)
        BY <1>1 DEF IoOpen, linux_open, win32_create_file_common
    <2>2. PICK flags : Opens(p, f, flags, full)
        BY <2>1
    <2> QED
        BY <2>1, <2>2, OpensKeeps
<1>2. ASSUME NEW p \in Progs, IoRead(p) \/ linux_read(p) \/ w32_ReadFile(p) PROVE Keeps
    BY <1>2, ReadsKeeps DEF IoRead, linux_read, w32_ReadFile
<1>3. ASSUME NEW p \in Progs, IoWrite(p) \/ linux_write(p) \/ w32_WriteFile(p) PROVE Keeps
    BY <1>3, WritesKeeps DEF IoWrite, linux_write, w32_WriteFile
<1>4. ASSUME NEW p \in Progs, linux_lseek(p) \/ w32_SetFilePointer(p) PROVE Keeps
    BY <1>4, SeeksKeeps DEF linux_lseek, w32_SetFilePointer
<1>5. ASSUME NEW p \in Progs, IoClose(p) \/ linux_close(p) \/ w32_CloseHandle(p) PROVE Keeps
    BY <1>5, ClosesKeeps DEF IoClose, linux_close, w32_CloseHandle
<1>6. ASSUME CopyStart \/ CopyRead \/ CopyWrite \/ cmd_cp \/ cmd_mv \/ cmd_rm PROVE Keeps
    BY <1>6, CopyStartKeeps, CopyReadKeeps, CopyWriteKeeps, cmd_cpKeeps, cmd_mvKeeps, cmd_rmKeeps
<1>7. CASE UNCHANGED io_vars
    BY <1>7, HandleStep DEF io_vars, FilesInv, HandlesFit
<1> QED
    BY <1>1, <1>2, <1>3, <1>4, <1>5, <1>6, <1>7 DEF FileIoNext

\* What a read of any length finds is what the file should hold.
LEMMA ReadsTrue == FilesInv => ContentsHold
<1> SUFFICES ASSUME FilesInv, NEW f \in Files, NEW pos \in 0..MAX_SIZE
             PROVE  tmpfs_file_read(inodes[f], pos, MAX_SIZE).bytes = SubSeq(contents[f], pos + 1, Len(contents[f]))
    BY DEF ContentsHold
<1> USE PositionsFit
<1>1. PICK ino, held, count : ino = inodes[f] /\ held = contents[f] /\ count = MAX_SIZE
    OBVIOUS
<1>2. /\ ino \in Inodes /\ Holds(ino, held) /\ pos \in Nat /\ count \in Nat
      /\ held \in Seq(Byte) /\ Len(held) \in Nat /\ Len(held) <= count
    BY <1>1 DEF FilesInv, FilesHold, Holds, Inodes
<1> DEFINE r == tmpfs_file_read(ino, pos, count)
           n == IF pos >= Len(held) THEN 0
                ELSE IF count > Len(held) - pos THEN Len(held) - pos ELSE count
<1>3. /\ r.bytes \in Seq(Byte) /\ Len(r.bytes) = n
      /\ \A i \in 1..n : r.bytes[i] = held[pos + i]
    BY ONLY <1>2, ReadFacts
<1>4. n = IF pos >= Len(held) THEN 0 ELSE Len(held) - pos
    BY <1>2
<1> HIDE DEF r, n
<1>5. r.bytes = SubSeq(held, pos + 1, Len(held))
    <2> DEFINE t == SubSeq(held, pos + 1, Len(held))
    <2>1. t \in Seq(Byte) /\ Len(t) = n /\ \A i \in 1..n : t[i] = held[pos + i]
        BY <1>2, <1>4
    <2> HIDE DEF t
    <2>2. Len(r.bytes) = Len(t) /\ \A i \in 1..Len(t) : r.bytes[i] = t[i]
        BY ONLY <1>3, <2>1
    <2>3. r.bytes = t
        BY ONLY <1>3, <2>1, <2>2, SameSequence
    <2> QED
        BY <2>3 DEF t
<1> QED
    BY <1>1, <1>5 DEF r

(* Over any files, programs and sizes, buffers that double and writes that fail:  *)
(* if no program seeks to where the end of a write wraps (tmpfs.c:405), a read at *)
(* any position finds what was written through whichever handle, and the zeros of *)
(* gaps.  Also with programs that write what the shell copies.                    *)
THEOREM ContentsKept == SeeksFit => (FileIoSpec => []ContentsHold)
<1> SUFFICES ASSUME SeeksFit PROVE FileIoSpec => []ContentsHold
    OBVIOUS
<1>1. FileIoInit => FilesInv
    BY FilesStart
<1>2. FilesInv /\ [FileIoNext]_io_vars => FilesInv'
    BY FilesStep DEF Keeps
<1> QED
    BY <1>1, <1>2, ReadsTrue, PTL DEF FileIoSpec

(* The same, and mv: when no program writes the files the shell copies, it takes *)
(* the source away only when all of it is at the destination, at whichever piece *)
(* a read ended and whichever write failed.                                      *)
THEOREM FilesKept == SeeksFit /\ ~SharesCopied => (FileIoSpec => FilesTrue)
<1> SUFFICES ASSUME SeeksFit, ~SharesCopied PROVE FileIoSpec => FilesTrue
    OBVIOUS
<1> DEFINE Inv == FilesInv /\ CopyHolds
<1>1. FileIoInit => Inv
    BY FilesStart
<1>2. Inv /\ [FileIoNext]_io_vars => Inv' /\ MovesLoseNothing
    BY FilesStep DEF Keeps
<1>3. Inv => ContentsHold
    BY ReadsTrue
<1> HIDE DEF Inv
<1> QED
    BY <1>1, <1>2, <1>3, PTL DEF FileIoSpec, FilesTrue

===============================================================================
