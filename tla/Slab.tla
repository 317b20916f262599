-------------------------------- MODULE Slab --------------------------------
(***************************************************************************)
(* kmalloc over slabs (kmalloc.c, slab.c) over the buddy lists of Pmm.     *)
(* Every class of kmalloc has slabs of one page; a request above 2048      *)
(* bytes takes a page of its own.  The fields of a page and the partial    *)
(* list of its cache change under the cache's lock with interrupts off,    *)
(* pmm_lock inside it, so each call is one step.                           *)
(***************************************************************************)
EXTENDS Pmm

CONSTANTS Caches,           \* the size classes
          objects_per_slab, \* PAGE_SIZE / object_size, at least 2
          MAX_OBJECTS       \* bound: objects that callers hold at a time

ASSUME SlabAssumption ==
    /\ objects_per_slab \in [Caches -> Nat \ {0, 1}]
    /\ MAX_OBJECTS \in Nat

VARIABLES
    slabs,    \* the pages marked PG_SLAB: page -> [slab_cache, slab_free, refcount]
    partial,  \* by cache, its list of pages
    objects   \* what callers hold: <<page, index>>, or <<page>> for a whole page

svars == <<slabs, partial, objects>>
slab_vars == <<pvars, svars>>

SlabInit ==
    /\ PmmInit
    /\ slabs = << >>
    /\ partial = [c \in Caches |-> << >>]
    /\ objects = {}

-----------------------------------------------------------------------------
\* slab_new: all objects in the free chain, lowest address first.
slab_new(c) ==
    [slab_cache |-> c, refcount |-> 0,
     slab_free |-> [i \in 1 .. objects_per_slab[c] |-> i - 1]]

Without(list, page) == SelectSeq(list, LAMBDA q : q # page)

\* The first object of `slab`, which is page `page`; a slab that fills leaves
\* the list `list` its page heads.
TakeObject(c, page, slab, list) ==
    LET left == [slab EXCEPT !.slab_free = Tail(@), !.refcount = @ + 1]
        full == left.refcount >= objects_per_slab[c]
    IN  /\ slabs' = (page :> left) @@ slabs
        /\ partial' = [partial EXCEPT ![c] = IF full THEN Without(list, page) ELSE list]
        /\ objects' = objects \cup {<<page, Head(slab.slab_free)>>}

\* kmem_cache_alloc from the head of the partial list ...
AllocFromPartial(c) ==
    /\ partial[c] # << >>
    /\ LET page == Head(partial[c])
       IN  TakeObject(c, page, slabs[page], partial[c])
    /\ UNCHANGED pvars

\* ... or from a new slab; without a page the call returns 0 and changes nothing.
AllocFromNew(c) ==
    /\ partial[c] = << >>
    /\ AllocPages(0)
    /\ TakeObject(c, Chosen(0), slab_new(c), << Chosen(0) >>)

kmalloc(c) ==
    /\ Cardinality(objects) < MAX_OBJECTS
    /\ AllocFromPartial(c) \/ AllocFromNew(c)

\* More than 2048 bytes, or aligned: a page.
kmalloc_page ==
    /\ Cardinality(objects) < MAX_OBJECTS
    /\ AllocPages(0)
    /\ objects' = objects \cup {<< Chosen(0) >>}
    /\ UNCHANGED <<slabs, partial>>

\* Mutant: the page goes back with its last object still in use.
GivesPageBack_OneLeft(page, slab, list) ==
    /\ slab.refcount <= 1
    /\ ~(Head(list) = page /\ Len(list) = 1)

\* kmem_cache_free: a slab that was full returns to the list; one that becomes
\* empty goes back to the pages, unless it is the only one of the list.
GivesPageBack(page, slab, list) ==
    /\ slab.refcount = 0
    /\ ~(Head(list) = page /\ Len(list) = 1)

\* Mutant: whether the slab was full is asked after the count went down.
Relinked_Late(c, page) ==
    IF slabs[page].refcount - 1 >= objects_per_slab[c] THEN <<page>> \o partial[c] ELSE partial[c]

Relinked(c, page) ==
    IF slabs[page].refcount >= objects_per_slab[c] THEN <<page>> \o partial[c] ELSE partial[c]

kmem_cache_free(page, index) ==
    LET c    == slabs[page].slab_cache
        slab == [slabs[page] EXCEPT !.slab_free = <<index>> \o @, !.refcount = @ - 1]
        list == Relinked(c, page)
    IN  IF GivesPageBack(page, slab, list)
        THEN /\ partial' = [partial EXCEPT ![c] = Without(list, page)]
             /\ slabs' = Restrict(slabs, DOMAIN slabs \ {page})
             /\ FreePages(<<page, 0>>)
        ELSE /\ partial' = [partial EXCEPT ![c] = list]
             /\ slabs' = [slabs EXCEPT ![page] = slab]
             /\ UNCHANGED pvars

\* The page of the address says which way the memory was given out: PG_SLAB, or
\* the order that the header of a whole page holds.
kfree(obj) ==
    /\ obj \in objects
    /\ objects' = objects \ {obj}
    /\ IF obj[1] \in DOMAIN slabs THEN kmem_cache_free(obj[1], obj[2])
       ELSE FreePages(<<obj[1], header[obj[1]].order>>) /\ UNCHANGED <<slabs, partial>>

\* Other users of the pages: page tables, kernel stacks, rings of devices.
Owned == DOMAIN slabs \cup { obj[1] : obj \in objects }

DirectAlloc(order) == AllocPages(order) /\ UNCHANGED svars
DirectFree(b) == b[1] \notin Owned /\ FreePages(b) /\ UNCHANGED svars

SlabNext ==
    \/ \E c \in Caches : kmalloc(c)
    \/ kmalloc_page
    \/ \E obj \in objects : kfree(obj)
    \/ \E order \in Orders : DirectAlloc(order)
    \/ \E b \in held \cup given_back : DirectFree(b)

SlabSpec == SlabInit /\ [][SlabNext]_slab_vars

-----------------------------------------------------------------------------
(* Properties *)

Out(page) == { obj[2] : obj \in { o \in objects : Len(o) = 2 /\ o[1] = page } }

\* The invariants slab.c states of itself: every slab is a page the pmm has given
\* out; its count is the objects in use, which with the free chain are all of its
\* objects, none twice; and a cache's list holds exactly its slabs with room.
SlabSound ==
    /\ \A page \in DOMAIN slabs :
           LET s == slabs[page] IN
           /\ <<page, 0>> \in held
           /\ s.refcount = Cardinality(Out(page))
           /\ IsInjective(s.slab_free)
           /\ ToSet(s.slab_free) = (0 .. objects_per_slab[s.slab_cache] - 1) \ Out(page)
    /\ \A c \in Caches :
           /\ IsInjective(partial[c])
           /\ ToSet(partial[c]) =
                  { p \in DOMAIN slabs : slabs[p].slab_cache = c
                                         /\ slabs[p].refcount < objects_per_slab[c] }

\* Memory in use is never in a free block: the page of every object a caller
\* holds is given out, as a slab or whole, and never both (kfree, which tells
\* them apart by a flag of the page).
ObjectsBacked ==
    \A obj \in objects :
        /\ <<obj[1], 0>> \in held
        /\ (obj[1] \in DOMAIN slabs) <=> (Len(obj) = 2)

\* A cache keeps at most one slab without objects, whatever the order in which
\* they are freed: it cannot hoard pages (kmem_cache_free, 230-243).
OneEmptySlab ==
    \A p, q \in DOMAIN slabs :
        ( /\ slabs[p].slab_cache = slabs[q].slab_cache
          /\ slabs[p].refcount = 0 /\ slabs[q].refcount = 0 ) => p = q

\* Slabs, lists and free chains agree, and no cache hoards pages, through frees
\* of objects of several slabs in any order (slab.c).
SlabsSound == SlabSound /\ OneEmptySlab /\ ObjectsBacked
============================================================================
