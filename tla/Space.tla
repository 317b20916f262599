-------------------------------- MODULE Space --------------------------------
(***************************************************************************)
(* Address spaces of user programs (user/user.c, vmm.c, shm.c and the      *)
(* memory calls of syscall.c): which physical pages are page tables, which *)
(* are mapped where, and who gives them back.  System calls and exits run  *)
(* with interrupts off, so each is one step; inside it pages are taken one *)
(* at a time, and may run out at any of them.  The three levels of tables  *)
(* below a root are one table per region.                                  *)
(***************************************************************************)
EXTENDS Integers, Sequences, FiniteSets, SequencesExt

CONSTANTS Frames,    \* pages of pmm
          Tasks,
          HeapPages, \* pages between the first heap_cur and heap_end
          TlsSlots,  \* 16 in the code
          Stacks,    \* bound: the thread stacks a program uses, as sequences of addresses
          Sizes,     \* bound: pages that one brk asks for
          Hints,     \* bound: the addresses that programs name
          Quotas,    \* bound: the quotas a task has; with 0, none, `used` grows without end
          ShmIds,    \* bound: regions ever created, fewer than the table holds
          Careless   \* what programs do that the kernel does not survive

ASSUME SpaceAssumption ==
    /\ Frames \subseteq Nat \ {0} /\ IsFiniteSet(Frames)
    /\ Tasks \subseteq Nat \ {0} /\ IsFiniteSet(Tasks)
    /\ HeapPages \in Nat /\ TlsSlots \in Nat \ {0} /\ Quotas \cup Sizes \subseteq Nat
    /\ Careless \subseteq {"outlive", "shm", "threadfork"}

VARIABLES
    mem,     \* [free, bit, tab, pte]: free pages, pages marked as tables, and by
             \* address space its root, tables and entries <<page, who paid>>
    ctx,     \* user_ctx of a task, or NoCtx
    used,    \* mem_pages_used
    quota,   \* mem_quota_pages
    shm,     \* regions: id -> [page, refcount]
    maps,    \* shm_list of a task: pairs <<id, address>>
    copies   \* history: pages that forks took and nobody has freed

space_vars == <<mem, ctx, used, quota, shm, maps, copies>>

\* Addresses.  A space is named by the task it was made for; its image and heap
\* lie under one entry of the root, under another its stack, TLS and trampoline,
\* which are one page here.
Heap(i) == <<"heap", i>>
Tls(i) == <<"tls", i>>
Fixed == << Tls(0) >>
MaxTls == TlsSlots * Cardinality(Tasks)
Vas == {Heap(i) : i \in 1 .. HeapPages} \cup {Tls(i) : i \in 0 .. MaxTls}
Region(va) == IF va[1] = "heap" THEN "low" ELSE "high"
Halves == {"low", "high"}
Levels == Halves \cup {"root"}
Unmapped == <<0, 0>>
NoSpace == [tab |-> [l \in Levels |-> 0], pte |-> [va \in Vas |-> Unmapped]]

NoCtx == [space |-> 0]
Live(t) == ctx[t] # NoCtx
Members(s) == {t \in Tasks : ctx[t].space = s}

\* A new task takes the lowest name; which one makes no difference.
Unused == {t \in Tasks : ~Live(t) /\ Members(t) = {}}
Fresh(c) == c \in Unused /\ \A t \in Unused : c <= t

SpaceInit ==
    /\ mem = [free |-> Frames, bit |-> {},
              tab |-> [s \in Tasks |-> NoSpace.tab], pte |-> [s \in Tasks |-> NoSpace.pte]]
    /\ ctx = [t \in Tasks |-> NoCtx]
    /\ used = [t \in Tasks |-> 0]
    /\ quota = [t \in Tasks |-> 0]
    /\ shm = << >>
    /\ maps = [t \in Tasks |-> {}]
    /\ copies = {}

-----------------------------------------------------------------------------
\* Steps inside a call work on a value m of mem; [m, ok] is what one returns.
FirstFree(m) == CHOOSE f \in m.free : \A g \in m.free : f <= g
WithoutFree(m) == [m EXCEPT !.free = @ \ {FirstFree(m)}]
Freed(m, pages) == [m EXCEPT !.free = @ \cup pages]
Present(m, s, va) == m.tab[s][Region(va)] # 0 /\ m.pte[s][va] # Unmapped

\* vmm_alloc_pt_page, linked into the space; a table that is there stays.
AllocTable(m, s, level) ==
    CASE m.tab[s][level] # 0 -> [m |-> m, ok |-> TRUE]
      [] m.free = {} -> [m |-> m, ok |-> FALSE]
      [] OTHER -> [ok |-> TRUE,
                   m |-> [WithoutFree(m) EXCEPT !.tab[s][level] = FirstFree(m), !.bit = @ \cup {FirstFree(m)}]]

vmm_create_address_space(m, s) == AllocTable(m, s, "root")

vmm_map_page(m, s, va, page) ==
    LET r == AllocTable(m, s, Region(va))
    IN  IF ~r.ok \/ Present(r.m, s, va) THEN [r EXCEPT !.ok = FALSE]
        ELSE [r EXCEPT !.m.pte[s][va] = <<page, 0>>]

\* A page for one address; it goes back when the tables cannot be built.
\* Mutant: it does not go back.
MapFresh_Keeps(m, s, va) ==
    IF m.free = {} THEN [m |-> m, ok |-> FALSE]
    ELSE vmm_map_page(WithoutFree(m), s, va, FirstFree(m))

MapFresh(m, s, va) ==
    IF m.free = {} THEN [m |-> m, ok |-> FALSE]
    ELSE LET r == vmm_map_page(WithoutFree(m), s, va, FirstFree(m))
         IN  IF r.ok THEN r ELSE [r EXCEPT !.m = Freed(@, {FirstFree(m)})]

\* The loop over pages stops at the first failure and leaves the pages before it.
MapAll(m, s, vas) ==
    FoldLeft(LAMBDA r, va : IF r.ok THEN MapFresh(r.m, s, va) ELSE r,
             [m |-> m, ok |-> TRUE], vas)

Paid(m, s, vas, t) ==
    [m EXCEPT !.pte[s] = [va \in Vas |-> IF va \in Range(vas) THEN <<@[va][1], t>> ELSE @[va]]]

user_quota_alloc(t, now, n) == quota[t] = 0 \/ now + n <= quota[t]

\* free_user_pages: what lies below a marked table, but for pages marked themselves.
free_user_pages(m, s) ==
    LET seen == {va \in Vas : m.tab[s][Region(va)] \in m.bit /\ m.pte[s][va] # Unmapped}
    IN  [Freed(m, {m.pte[s][va][1] : va \in seen} \ m.bit)
            EXCEPT !.pte[s] = [va \in Vas |-> IF va \in seen THEN Unmapped ELSE @[va]]]

\* vmm_free_user_pagetables and vmm_destroy_address_space: only marked pages go back.
FreeTables(m, s, levels) ==
    LET marked == {m.tab[s][l] : l \in levels} \cap m.bit
    IN  [Freed(m, marked) EXCEPT
            !.bit = @ \ marked,
            !.tab[s] = [l \in Levels |-> IF l \in levels THEN 0 ELSE @[l]],
            !.pte[s] = [va \in Vas |-> IF Region(va) \in levels THEN Unmapped ELSE @[va]]]

vmm_free_user_pagetables(m, s) == FreeTables(m, s, Halves)
vmm_destroy_address_space(m, s) == FreeTables(m, s, {"root"})

DestroySpace(m, s) == vmm_destroy_address_space(vmm_free_user_pagetables(free_user_pages(m, s), s), s)

-----------------------------------------------------------------------------
\* user_setup: the root, then stack, TLS and trampoline, or nothing at all.
user_setup(t) ==
    /\ Fresh(t)
    /\ LET root == vmm_create_address_space(mem, t)
           r == MapAll(root.m, t, Fixed)
       IN  IF root.ok /\ r.ok
           THEN /\ mem' = r.m
                /\ ctx' = [ctx EXCEPT ![t] = [space |-> t, thread |-> FALSE, forked |-> FALSE,
                                              heap |-> 0, end |-> HeapPages, stack |-> {},
                                              owned |-> {}, tls |-> 0, tls_page |-> 0]]
                /\ \E q \in Quotas : quota' = [quota EXCEPT ![t] = q]
                /\ used' = [used EXCEPT ![t] = 0]
           ELSE /\ mem' = DestroySpace(r.m, t)
                /\ UNCHANGED <<ctx, used, quota>>
    /\ UNCHANGED <<shm, maps, copies>>

\* A forked child never leaves the kernel (user_entry_marker).
Runs(t) == Live(t) /\ ~ctx[t].forked

\* user_map_pages: n pages, charged to the task when all of them are mapped.
user_map_pages(t, vas) ==
    /\ user_quota_alloc(t, used[t], Len(vas))
    /\ LET r == MapAll(mem, ctx[t].space, vas)
       IN  /\ mem' = IF r.ok THEN Paid(r.m, ctx[t].space, vas, t) ELSE r.m
           /\ used' = IF r.ok THEN [used EXCEPT ![t] = @ + Len(vas)] ELSE used

HeapSeq(first, n) == [i \in 1 .. n |-> Heap(first + i - 1)]

\* SYS_OB_Brk moves heap_cur when the pages are mapped; SYS_OB_VirtualAlloc with
\* no address moves it before, and leaves it moved whatever happens.
SYS_OB_Brk(t, n) ==
    /\ Runs(t) /\ ctx[t].heap + n <= ctx[t].end
    /\ LET vas == HeapSeq(ctx[t].heap + 1, n)
       IN  /\ user_map_pages(t, vas)
           /\ ctx' = IF MapAll(mem, ctx[t].space, vas).ok THEN [ctx EXCEPT ![t].heap = @ + n] ELSE ctx
    /\ UNCHANGED <<quota, shm, maps, copies>>

\* heap_cur past the end is no address any more; one page past stands for all.
SYS_OB_VirtualAlloc(t, n) ==
    /\ Runs(t) /\ ctx[t].heap <= ctx[t].end
    /\ ctx' = [ctx EXCEPT ![t].heap = @ + n]
    /\ IF ctx[t].heap + n <= ctx[t].end /\ user_quota_alloc(t, used[t], n)
       THEN user_map_pages(t, HeapSeq(ctx[t].heap + 1, n))
       ELSE UNCHANGED <<mem, used>>
    /\ UNCHANGED <<quota, shm, maps, copies>>

VirtualAllocAt(t, va) ==
    /\ Runs(t)
    /\ user_map_pages(t, <<va>>)
    /\ UNCHANGED <<ctx, quota, shm, maps, copies>>

-----------------------------------------------------------------------------
\* user_thread_spawn.  One page of the stack: an address that is mapped is
\* reused, else a page is taken, owned by the thread and charged to the parent.
\* Mutant: the thread takes the reused pages for its own.
StackPage_OwnsReused(p, s, r, va) ==
    IF Present(r.m, s, va) THEN [r EXCEPT !.owned = @ \cup {r.m.pte[s][va][1]}]
    ELSE LET n == MapFresh(r.m, s, va)
         IN  IF user_quota_alloc(p, r.used, 1) /\ n.ok
             THEN [m |-> Paid(n.m, s, <<va>>, p), ok |-> TRUE, used |-> r.used + 1,
                   owned |-> r.owned \cup {n.m.pte[s][va][1]}]
             ELSE [r EXCEPT !.ok = FALSE, !.m = IF user_quota_alloc(p, r.used, 1) THEN n.m ELSE @]

StackPage(p, s, r, va) ==
    IF Present(r.m, s, va) THEN r
    ELSE LET n == MapFresh(r.m, s, va)
         IN  IF user_quota_alloc(p, r.used, 1) /\ n.ok
             THEN [m |-> Paid(n.m, s, <<va>>, p), ok |-> TRUE, used |-> r.used + 1,
                   owned |-> r.owned \cup {n.m.pte[s][va][1]}]
             ELSE [r EXCEPT !.ok = FALSE, !.m = IF user_quota_alloc(p, r.used, 1) THEN n.m ELSE @]

\* The owned pages of a stack are found again by its addresses.
DropOwned(m, s, stack, owned) ==
    [Freed(m, owned) EXCEPT !.pte[s] =
        [va \in Vas |-> IF va \in stack /\ @[va][1] \in owned THEN Unmapped ELSE @[va]]]

\* Mutant: the whole stack is subtracted from mem_pages_used.
Released_All(r, stk) == IF r.used >= Len(stk) THEN r.used - Len(stk) ELSE 0

Released(r, stk) ==
    IF r.used >= Cardinality(r.owned) THEN r.used - Cardinality(r.owned) ELSE 0

TlsOf(p, c) == Tls(ctx[p].tls + (c % TlsSlots) + 1)

\* The TLS page comes last.  An address that is mapped or a full quota is found before a
\* page is taken.
TlsPage(p, s, r, tls) ==
    LET n == MapFresh(r.m, s, tls)
    IN  IF r.ok /\ ~Present(r.m, s, tls) /\ user_quota_alloc(p, r.used, 1) THEN n
        ELSE [m |-> r.m, ok |-> FALSE]

\* What user_thread_entry starts with; it writes to a stack that is mapped.
ThreadCtx(s, stk, owned, tls, page) ==
    [space |-> s, thread |-> TRUE, forked |-> FALSE, heap |-> 0, end |-> 0,
     stack |-> Range(stk), owned |-> owned, tls |-> tls[2], tls_page |-> page]

user_thread_spawn(p, c, stk) ==
    LET s == ctx[p].space
        r == FoldLeft(LAMBDA q, va : IF q.ok THEN StackPage(p, s, q, va) ELSE q,
                      [m |-> mem, ok |-> TRUE, used |-> used[p], owned |-> {}], stk)
        tls == TlsOf(p, c)
        n == TlsPage(p, s, r, tls)
    IN  /\ Runs(p) /\ Fresh(c)
        /\ TlsOf(p, c) \in Vas
        /\ IF n.ok
           THEN /\ mem' = Paid(n.m, s, <<tls>>, p)
                /\ used' = [used EXCEPT ![p] = r.used + 1, ![c] = 0]
                /\ ctx' = [ctx EXCEPT ![c] = ThreadCtx(s, stk, r.owned, tls, n.m.pte[s][tls][1])]
                /\ quota' = [quota EXCEPT ![c] = quota[p]]
           ELSE /\ mem' = DropOwned(n.m, s, Range(stk), r.owned)
                /\ used' = [used EXCEPT ![p] = Released(r, stk)]
                /\ UNCHANGED <<ctx, quota>>
        /\ UNCHANGED <<shm, maps, copies>>

\* user_fork_address_space: a root marked as a table, then tables and pages that
\* are not.  It fails when pmm has no page left: then only the root goes back.
ForkOrder == << <<"table", "low">> >> \o HeapSeq(1, HeapPages)
             \o << <<"table", "high">> >> \o Fixed \o [i \in 1 .. MaxTls |-> Tls(i)]

CopyOf(s, c, m, x) ==
    IF x[1] = "table" THEN [WithoutFree(m) EXCEPT !.tab[c][x[2]] = FirstFree(m)]
    ELSE [WithoutFree(m) EXCEPT !.pte[c][x] = <<FirstFree(m), 0>>]

fork(p, c) ==
    LET s == ctx[p].space
        root == vmm_create_address_space(mem, c)
        seen == {l \in Halves : mem.tab[s][l] \in mem.bit}
        src == SelectSeq(ForkOrder, LAMBDA x : IF x[1] = "table" THEN x[2] \in seen
                                              ELSE Region(x) \in seen /\ Present(mem, s, x))
        r == FoldLeft(LAMBDA q, x : IF q.ok /\ q.m.free # {} THEN [q EXCEPT !.m = CopyOf(s, c, @, x)]
                                    ELSE [q EXCEPT !.ok = FALSE],
                      [m |-> root.m, ok |-> root.ok], src)
    IN  /\ Runs(p) /\ Fresh(c)
        /\ "threadfork" \in Careless \/ ~ctx[p].thread
        /\ mem' = IF r.ok THEN r.m
                  ELSE vmm_destroy_address_space(vmm_free_user_pagetables(r.m, c), c)
        /\ ctx' = IF r.ok THEN [ctx EXCEPT ![c] = [ctx[p] EXCEPT !.space = c, !.forked = TRUE]] ELSE ctx
        /\ copies' = copies \cup (root.m.free \ mem'.free)
        /\ used' = [used EXCEPT ![c] = 0]
        /\ quota' = IF r.ok THEN [quota EXCEPT ![c] = quota[p]] ELSE quota
        /\ UNCHANGED <<shm, maps>>

-----------------------------------------------------------------------------
\* Shared memory: a region of one page.  Its creator holds a reference that no
\* code drops.
shm_sys_create ==
    /\ mem.free # {} /\ Cardinality(DOMAIN shm) < Cardinality(ShmIds)
    /\ \E t \in Tasks : Runs(t)
    /\ LET id == CHOOSE i \in ShmIds : i \notin DOMAIN shm
       IN  shm' = [i \in DOMAIN shm \cup {id} |->
                     IF i = id THEN [page |-> FirstFree(mem), refcount |-> 1] ELSE shm[i]]
    /\ mem' = WithoutFree(mem)
    /\ UNCHANGED <<ctx, used, quota, maps, copies>>

\* With no address the region goes to heap_cur, which stays moved when it fails.
ShmMapAt(t, id, va) ==
    LET r == vmm_map_page(mem, ctx[t].space, va, shm[id].page)
    IN  /\ mem' = r.m
        /\ maps' = IF r.ok THEN [maps EXCEPT ![t] = @ \cup {<<id, va>>}] ELSE maps
        /\ shm' = IF r.ok THEN [shm EXCEPT ![id].refcount = @ + 1] ELSE shm

shm_sys_map(t, id) ==
    /\ Runs(t) /\ id \in DOMAIN shm
    /\ \/ /\ ctx[t].heap <= ctx[t].end
          /\ ctx' = [ctx EXCEPT ![t].heap = @ + 1]
          /\ IF ctx[t].heap < ctx[t].end THEN ShmMapAt(t, id, Heap(ctx[t].heap + 1))
             ELSE UNCHANGED <<mem, maps, shm>>
       \/ /\ \E va \in Hints : ShmMapAt(t, id, va)
          /\ UNCHANGED ctx
    /\ UNCHANGED <<used, quota, copies>>

\* shm_release of `gone` references of each region; the last one frees the page.
Dropped(gone) ==
    LET left(i) == shm[i].refcount - Cardinality({x \in gone : x[1] = i})
        dead == {i \in DOMAIN shm : left(i) = 0}
    IN  [pages |-> {shm[i].page : i \in dead},
         shm |-> [i \in DOMAIN shm \ dead |-> [shm[i] EXCEPT !.refcount = left(i)]]]

shm_sys_unmap(t, x) ==
    /\ Runs(t) /\ x \in maps[t]
    /\ LET s == ctx[t].space
           d == Dropped({x})
       IN  /\ mem' = Freed([mem EXCEPT !.pte[s][x[2]] = Unmapped], d.pages)
           /\ shm' = d.shm
    /\ maps' = [maps EXCEPT ![t] = @ \ {x}]
    /\ UNCHANGED <<ctx, used, quota, copies>>

-----------------------------------------------------------------------------
\* user_teardown: a thread gives back what it owns, a process its whole space.
Teardown(t) ==
    LET c == ctx[t]
        own == DropOwned(mem, c.space, c.stack, c.owned)
    IN  IF ~c.thread THEN DestroySpace(mem, c.space)
        ELSE [Freed(own, {c.tls_page}) EXCEPT !.pte[c.space][Tls(c.tls)] = Unmapped]

\* A task that is gone pays for nothing.
Unpaid(m, t) ==
    [m EXCEPT !.pte = [s \in Tasks |-> [va \in Vas |-> IF @[s][va][2] = t THEN <<@[s][va][1], 0>>
                                                      ELSE @[s][va]]]]

ShmPages == {shm[i].page : i \in DOMAIN shm}
MappedIn(s) == {mem.pte[s][va][1] : va \in {v \in Vas : Present(mem, s, v)}}

\* An exit, and a kill, which does the same on behalf of its victim; afterwards
\* shm_release_mappings.
Exit(t) ==
    /\ Live(t)
    /\ ctx[t].thread \/ "outlive" \in Careless \/ Members(ctx[t].space) = {t}
    /\ ctx[t].thread \/ "shm" \in Careless \/ MappedIn(ctx[t].space) \cap ShmPages = {}
    /\ LET d == Dropped(maps[t])
       IN  /\ mem' = Freed(Unpaid(Teardown(t), t), d.pages)
           /\ shm' = d.shm
    /\ ctx' = [ctx EXCEPT ![t] = NoCtx]
    /\ maps' = [maps EXCEPT ![t] = {}]
    /\ used' = [used EXCEPT ![t] = 0]
    /\ quota' = [quota EXCEPT ![t] = 0]
    /\ copies' = copies \ Teardown(t).free

SpaceNext ==
    \/ \E t \in Tasks :
        \/ user_setup(t)
        \/ \E n \in Sizes : SYS_OB_Brk(t, n)
        \/ SYS_OB_VirtualAlloc(t, 1)
        \/ \E va \in Hints : VirtualAllocAt(t, va)
        \/ \E c \in Tasks, stk \in Stacks : user_thread_spawn(t, c, stk)
        \/ \E c \in Tasks : fork(t, c)
        \/ \E id \in ShmIds : shm_sys_map(t, id)
        \/ \E x \in maps[t] : shm_sys_unmap(t, x)
        \/ Exit(t)
    \/ shm_sys_create

SpaceSpec == SpaceInit /\ [][SpaceNext]_space_vars

-----------------------------------------------------------------------------
Tables == {<<s, l>> \in Tasks \X Levels : mem.tab[s][l] # 0}
Entries == {<<s, va>> \in Tasks \X Vas : Present(mem, s, va)}
TablePages == {mem.tab[x[1]][x[2]] : x \in Tables}
DataPages == {mem.pte[x[1]][x[2]][1] : x \in Entries}

\* Every page is free, or reachable from a space or a region, or was taken by a
\* fork: no failure half-way and no exit of a process or thread loses one.
NothingLost ==
    Frames \subseteq mem.free \cup TablePages \cup DataPages \cup ShmPages \cup copies

\* No page that a table, a mapping or a region refers to is free; no page has two
\* uses, except that a region's page may be mapped many times; every task runs on
\* a root that exists and finds its TLS page where it was put; and none is lost,
\* whatever failed half-way.  (Teardown of threads, processes and forks, reuse of
\* stack pages, shared memory.)
PagesSound ==
    /\ (TablePages \cup DataPages \cup ShmPages) \cap mem.free = {}
    /\ TablePages \cap (DataPages \cup ShmPages) = {}
    /\ mem.bit \subseteq TablePages
    /\ \A x, y \in Tables : x # y => mem.tab[x[1]][x[2]] # mem.tab[y[1]][y[2]]
    /\ \A x, y \in Entries :
         x # y /\ mem.pte[x[1]][x[2]][1] = mem.pte[y[1]][y[2]][1]
           => mem.pte[x[1]][x[2]][1] \in ShmPages
    /\ \A t \in Tasks : Live(t) =>
         /\ mem.tab[ctx[t].space]["root"] # 0
         /\ ctx[t].thread => mem.pte[ctx[t].space][Tls(ctx[t].tls)][1] = ctx[t].tls_page
    /\ NothingLost

\* The pages that are mapped and charged to a task are within its quota, whatever
\* failed, was rolled back or was given back by its threads.
QuotaHolds ==
    \A t \in Tasks : quota[t] # 0 =>
        Cardinality({x \in Entries : mem.pte[x[1]][x[2]][2] = t}) <= quota[t]

\* Pages and charges together: what is given back is also no longer counted, and to
\* the task that was charged.
UserPagesSound == PagesSound /\ QuotaHolds

\* user.c:1697: a fork that fails gives back everything it took.
ForksGiveBack ==
    copies \subseteq TablePages \cup DataPages
=============================================================================
