-------------------------------- MODULE Pmm --------------------------------
(***************************************************************************)
(* Physical memory (pmm.c): free lists of blocks of 2^order pages, and one *)
(* header per page.  Only the header of the first page of a block is kept  *)
(* up to date: the header of a page inside a block is left as it was.      *)
(* Every operation runs under pmm_lock, so it is one step.                 *)
(***************************************************************************)
EXTENDS Integers, Sequences, FiniteSets, SequencesExt

CONSTANTS MAX_PAGES,    \* pages of mem_map, 131072 in the code
          MAX_ORDER,    \* 10 in the code
          MemoryMap,    \* entries of boot_info: first page, number, usable
          LowPages,     \* pages below 1 MB
          KernelStart, KernelEnd,  \* the image's pages, widened to 16 MB
          Repeats       \* whether a caller may free a block it no longer holds

Pages == 0 .. MAX_PAGES - 1
Orders == 0 .. MAX_ORDER - 1

ASSUME PmmAssumption ==
    /\ MAX_ORDER \in Nat \ {0}
    /\ MAX_PAGES \in Nat \ {0} /\ MAX_PAGES % 2^(MAX_ORDER - 1) = 0
    /\ MemoryMap \in Seq([start : Nat, pages : Nat, usable : BOOLEAN])
    /\ {LowPages, KernelStart, KernelEnd} \subseteq Nat /\ KernelStart < KernelEnd
    /\ Repeats \in BOOLEAN

VARIABLES
    free_lists,  \* by order, the first pages of the free blocks
    header,      \* order and flags of each page
    free_count,
    held,        \* blocks <<page, order>> given out and not yet given back
    given_back   \* if Repeats, the block of the last pmm_free_pages

pvars == <<free_lists, header, free_count, held, given_back>>

Size(o) == 2^o
Span(b) == b[1] .. b[1] + Size(b[2]) - 1
FreeBlocks == { <<p, o>> \in Pages \X Orders : p \in ToSet(free_lists[o]) }

-----------------------------------------------------------------------------
(* pmm_init: what the map calls usable, above 1 MB, around the kernel image *)

\* The runs [from, to) of an entry that pmm_init gives to mark_region_usable.
Pieces(e) ==
    LET from == IF e.start < LowPages THEN LowPages ELSE e.start
        to == e.start + e.pages
    IN  IF ~e.usable \/ from >= to THEN <<>>
        ELSE IF to <= KernelStart \/ from >= KernelEnd THEN << <<from, to>> >>
        ELSE (IF from < KernelStart THEN << <<from, KernelStart>> >> ELSE <<>>)
             \o (IF to > KernelEnd THEN << <<KernelEnd, to>> >> ELSE <<>>)

Capped(n) == IF n > MAX_PAGES THEN MAX_PAGES ELSE n
Regions == FlattenSeq([i \in DOMAIN MemoryMap |-> Pieces(MemoryMap[i])])

\* mark_region_usable: the largest aligned block that fits, again and again.
Largest(p, to) ==
    CHOOSE o \in Orders :
        /\ p % Size(o) = 0 /\ p + Size(o) <= to
        /\ \A k \in Orders : p % Size(k) = 0 /\ p + Size(k) <= to => k <= o

Carved(from, to) ==
    LET cut[p \in from .. to] ==
            IF p >= to THEN <<>>
            ELSE << <<p, Largest(p, to)>> >> \o cut[p + Size(Largest(p, to))]
    IN  cut[from]

Blocks == FlattenSeq([i \in DOMAIN Regions |->
              IF Regions[i][1] < Capped(Regions[i][2])
              THEN Carved(Regions[i][1], Capped(Regions[i][2])) ELSE <<>>])
Usable == UNION { Span(Blocks[i]) : i \in DOMAIN Blocks }

PmmInit ==
    /\ free_lists = [o \in Orders |->
           LET chosen == SelectSeq(Blocks, LAMBDA b : b[2] = o)
           IN  Reverse([i \in DOMAIN chosen |-> chosen[i][1]])]
    /\ header = [p \in Pages |->
           IF \E o \in Orders : <<p, o>> \in ToSet(Blocks)
           THEN [order |-> CHOOSE o \in Orders : <<p, o>> \in ToSet(Blocks), flags |-> "free"]
           ELSE [order |-> 0, flags |-> IF p \in Usable THEN "none" ELSE "reserved"]]
    /\ free_count = Cardinality(Usable)
    /\ held = {}
    /\ given_back = {}

-----------------------------------------------------------------------------
buddy_of(p, o) == IF (p \div Size(o)) % 2 = 0 THEN p + Size(o) ELSE p - Size(o)

\* free_list_pop drops heads that are not marked free until it finds one that is.
PopIndex(list) ==
    LET good == { i \in DOMAIN list : header[list[i]].flags = "free" }
    IN  IF good = {} THEN 0 ELSE CHOOSE i \in good : \A j \in good : i <= j

\* The lowest order with a block; the splitting pushes the upper halves back.
Fitting(order) == { o \in Orders : o >= order /\ free_lists[o] # <<>> }
Lowest(S) == CHOOSE o \in S : \A k \in S : o <= k

\* The halves that are split off become free blocks; the page taken gets its order.
SplitHeaders(order, o, p) ==
    [q \in Pages |->
        IF \E k \in order .. o - 1 : q = buddy_of(p, k)
        THEN [order |-> CHOOSE k \in order .. o - 1 : q = buddy_of(p, k), flags |-> "free"]
        ELSE header[q]]

\* Mutant: the page keeps the order of the block it was split from.
TakenHeaders_KeepsOrder(order, o, p) ==
    [SplitHeaders(order, o, p) EXCEPT ![p].flags = "none"]

TakenHeaders(order, o, p) ==
    [SplitHeaders(order, o, p) EXCEPT ![p] = [order |-> order, flags |-> "none"]]

\* pmm_alloc_pages takes page p, a free block of order o, for a block of `order`.
Taken(order, o, p) ==
    LET list == free_lists[o] IN
    /\ free_lists' = [k \in Orders |->
           IF k = o THEN SubSeq(list, PopIndex(list) + 1, Len(list))
           ELSE IF order <= k /\ k < o THEN <<buddy_of(p, k)>> \o free_lists[k]
           ELSE free_lists[k]]
    /\ header' = TakenHeaders(order, o, p)
    /\ free_count' = free_count - Size(order)

CanAlloc(order) == Fitting(order) # {} /\ PopIndex(free_lists[Lowest(Fitting(order))]) # 0
Chosen(order) == LET list == free_lists[Lowest(Fitting(order))] IN list[PopIndex(list)]

pmm_alloc_pages(order) ==
    /\ CanAlloc(order)
    /\ Taken(order, Lowest(Fitting(order)), Chosen(order))

\* The merge: at each order the buddy must be marked free with that order and
\* be found in the list; the result starts at the lower of the two.
\* Mutant: p stays where it is when its buddy is the lower one.
Base_Stays(p, k) == p

Base(p, k) ==
    p - (p % Size(k))

Mergeable(q, k) ==
    LET b == buddy_of(q, k) IN
    /\ header[b].flags = "free" /\ header[b].order = k
    /\ b \in ToSet(free_lists[k])

MergedOrder(p, order) ==
    Lowest({ k \in order .. MAX_ORDER - 1 :
                 k = MAX_ORDER - 1 \/ ~Mergeable(Base(p, k), k) })

Merge(p, order) ==
    LET m == MergedOrder(p, order)
        q == Base(p, m)
    IN  /\ free_lists' = [k \in Orders |->
               IF order <= k /\ k < m
               THEN SelectSeq(free_lists[k], LAMBDA b : b # buddy_of(Base(p, k), k))
               ELSE IF k = m THEN <<q>> \o free_lists[m] ELSE free_lists[k]]
        /\ header' = [header EXCEPT ![q] = [order |-> m, flags |-> "free"]]

\* The three tests that make pmm_free_pages refuse.
Refused(p, order) ==
    \/ header[p].flags \in {"reserved", "free"}
    \/ header[p].order # order

pmm_free_pages(p, order) ==
    IF Refused(p, order) THEN UNCHANGED <<free_lists, header, free_count>>
    ELSE /\ Merge(p, order)
         /\ free_count' = IF free_count + Size(order) > Cardinality(Usable)
                          THEN free_count ELSE free_count + Size(order)

-----------------------------------------------------------------------------
AllocPages(order) ==
    /\ pmm_alloc_pages(order)
    /\ held' = held \cup {<<Chosen(order), order>>}
    /\ given_back' = {}

\* A caller gives back what it holds or, if Repeats, the same block once more.
FreePages(b) ==
    /\ b \in held \cup given_back
    /\ pmm_free_pages(b[1], b[2])
    /\ held' = held \ {b}
    /\ given_back' = IF Repeats THEN {b} ELSE {}

-----------------------------------------------------------------------------
(* Properties *)

\* Every usable page is in exactly one block, free or given out, each free block
\* is linked once, and free_count counts the free pages: splits and merges lose
\* nothing and give nothing to two callers (pmm_alloc_pages, pmm_free_pages).
BlocksPartition ==
    LET all == FreeBlocks \cup held IN
    /\ FreeBlocks \cap held = {}
    /\ \A b, c \in all : b # c => Span(b) \cap Span(c) = {}
    /\ UNION { Span(b) : b \in all } = Usable
    /\ \A o \in Orders : IsInjective(free_lists[o])
    /\ free_count = Cardinality(UNION { Span(b) : b \in FreeBlocks })

\* The header of a block's first page is true, whatever the stale headers inside
\* it say; so the buddy that looks free is in the list it is searched in, and
\* the way out of the loop that finds nothing is never taken.
HeadersTrue ==
    /\ \A b \in FreeBlocks : header[b[1]] = [order |-> b[2], flags |-> "free"]
    /\ \A b \in held : header[b[1]].order = b[2] /\ header[b[1]].flags # "free"
    /\ \A b \in held : \A k \in b[2] .. MAX_ORDER - 2 :
           LET x == buddy_of(Base(b[1], k), k) IN
           header[x] = [order |-> k, flags |-> "free"] => x \in ToSet(free_lists[k])

\* Two buddies of one region of the memory map are never both free: every free
\* merges as far as it can, so memory that is free is available in one piece.
Coalesced ==
    \A b, c \in FreeBlocks :
        ( /\ b[2] = c[2] /\ b[2] < MAX_ORDER - 1 /\ c[1] = buddy_of(b[1], b[2])
          /\ \E i \in DOMAIN Regions :
                 Span(b) \cup Span(c) \subseteq Regions[i][1] .. Regions[i][2] - 1 ) => FALSE

\* No page is lost, doubled or kept apart from its free buddy, whatever blocks
\* are taken and given back in whatever order (pmm.c).
FreeMemorySound == BlocksPartition /\ Coalesced /\ HeadersTrue
============================================================================
