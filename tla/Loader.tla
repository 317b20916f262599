------------------------------- MODULE Loader -------------------------------
(***************************************************************************)
(* The program loaders: user_spawn_program with its libraries, the Linux   *)
(* ELF and the Win32 PE loader (user/user.c, elf_loader.c, pe_loader.c,    *)
(* win32_api.c, win32_stub.c).  A child of the driver loads its own        *)
(* program with interrupts on: a page it gives back is at once another's to *)
(* write, and the tick may kill it (one such kill is explored).  The       *)
(* driver joins each child before it starts the next: one load at a time.  *)
(*                                                                         *)
(* A page holds two units of a file, so that segments may begin and end    *)
(* inside a page.  Page addresses are numbers; those that share their      *)
(* tables are a region of ten.                                             *)
(***************************************************************************)
EXTENDS Integers, Sequences, FiniteSets, SequencesExt

CONSTANTS Frames,   \* pages of pmm
          Programs, \* the files the driver starts
          Libs,     \* libraries: name -> file
          LibBase,  \* name -> page address, from the first letter of the name
          ImageMax, \* USER_IMAGE_MAX, in units
          LibMax,   \* 256 KB, in units
          MaxDeps,  \* DYN_MAX_LIBS
          Teb, Peb, StubPages, StubUnit, \* addresses of the Win32 layer
          Api       \* the functions of g_win32_api_table

\* A file: the loader its name asks for and what its header says it is; its length;
\* its segments (or sections): file units [off, off + file) at the unit va, extended by
\* zeros to mem; interp is the segment before which PT_INTERP stands, 0 if none; image
\* the pages of a PE and imports where its IAT wants which function.
ASSUME LoaderAssumption ==
    /\ Frames \subseteq Nat \ {0} /\ IsFiniteSet(Frames)
    /\ \A f \in Programs : f.ext \in {"obr", "elf", "exe"} /\ f.size \in Nat
    /\ DOMAIN Libs = DOMAIN LibBase
    /\ ImageMax \in Nat /\ LibMax \in Nat /\ MaxDeps \in Nat

VARIABLES
    pm,    \* [free, cells, pte, tab]: free pages, what pages hold, the page at each
           \* address of the child's space, the tables of each region
    taken, \* pages other tasks hold, so many that a load may run out anywhere
    stray, \* history: pages of images whose loader was killed
    ld     \* the loading child: pc, file, and the locals of its calls

lvars == <<pm, taken, stray, ld>>

Halves == {0, 1}
Blank == <<"any", 0>>     \* what the last owner left, or the next one writes
Zero == <<"zero", 0>>
Stub(n) == <<"stub", n>>
Address(u) == <<"at", u>>
Unit(f, u) == <<f.name, u>>
PageOf(u) == u \div 2
Region(va) == va \div 10
PagesFor(n) == (n + 1) \div 2

NoFile == [name |-> "", ext |-> "", magic |-> "", size |-> 0, segs |-> <<>>, deps |-> <<>>,
           entry |-> 0, interp |-> 0, image |-> 0, imports |-> <<>>]
NoLoad == [pc |-> "idle", file |-> NoFile, ctx |-> {}, img |-> <<>>, seg |-> 1, todo |-> <<>>,
          dep |-> 0, buf |-> <<>>, libs |-> {}, entry |-> 0]

LoaderInit ==
    /\ \E n \in Frames : taken = {f \in Frames : f > n}
    /\ pm = [free |-> Frames \ taken, cells |-> [f \in Frames |-> [u \in Halves |-> Blank]],
             pte |-> <<>>, tab |-> <<>>]
    /\ stray = {} /\ ld = NoLoad

-----------------------------------------------------------------------------
(* Pages *)

Lowest(m, n) ==
    [i \in 1 .. n |-> CHOOSE f \in m.free : Cardinality({g \in m.free : g < f}) = i - 1]
Alloc(m, fs) == [m EXCEPT !.free = @ \ Range(fs)]
Free(m, fs) ==
    [m EXCEPT !.free = @ \cup fs,
              !.cells = [f \in Frames |-> IF f \in fs THEN [u \in Halves |-> Blank] ELSE @[f]]]

Present(m, va) == va \in DOMAIN m.pte
With(f, x, y) == [i \in DOMAIN f \cup {x} |-> IF i = x THEN y ELSE f[i]]

\* A page for one address and the table it needs; rc is that of vmm_map_page.  The
\* page goes back if it cannot be mapped, the table stays.
MapPage(m, va, fill) ==
    LET f == Lowest(m, 1)[1]
        a == Alloc(m, <<f>>)
        b == IF Region(va) \in DOMAIN a.tab THEN a
             ELSE [Alloc(a, Lowest(a, 1)) EXCEPT !.tab = With(@, Region(va), Lowest(a, 1)[1])]
    IN  IF m.free = {} THEN [m |-> m, rc |-> "nomem"]
        ELSE IF Region(va) \notin DOMAIN a.tab /\ a.free = {} THEN [m |-> m, rc |-> "nomem"]
        ELSE IF Present(b, va) THEN [m |-> Free(b, {f}), rc |-> "present"]
        ELSE [m |-> [b EXCEPT !.pte = With(@, va, f), !.cells[f] = [u \in Halves |-> fill]],
              rc |-> "ok"]

\* What lies at a unit of the child's space, and in a file buffer.
CellAt(m, u) == m.cells[m.pte[PageOf(u)]][u % 2]
BufAt(m, buf, u) == m.cells[buf[PageOf(u) + 1]][u % 2]

\* Writes data (unit address -> cell) through the entries of the child's space.
Poke(m, data) ==
    [m EXCEPT !.cells = [f \in Frames |-> [u \in Halves |->
        LET at == {x \in DOMAIN data : m.pte[PageOf(x)] = f /\ x % 2 = u}
        IN  IF at = {} THEN @[f][u] ELSE data[CHOOSE x \in at : TRUE]]]]

-----------------------------------------------------------------------------
(* One segment *)

SegEnd(s) == s.va + s.mem
\* An OBR segment is put at the start of its first page, an ELF segment at its address.
ObrPages(base, s) == [p \in 1 .. PagesFor(s.mem) |-> base + PageOf(s.va) + p - 1]
ElfPages(s) == [p \in 1 .. PagesFor(SegEnd(s)) - PageOf(s.va) |-> PageOf(s.va) + p - 1]

\* The whole pages of the segment: file units, then zeros.
ObrData(m, buf, base, s) ==
    LET first == 2 * (base + PageOf(s.va))
    IN  [x \in first .. first + 2 * PagesFor(s.mem) - 1 |->
           IF x - first < s.file THEN BufAt(m, buf, s.off + x - first) ELSE Zero]
\* The file units only: pages were cleared when they were mapped.
ElfData(m, buf, s) == [x \in s.va .. s.va + s.file - 1 |-> BufAt(m, buf, s.off + x - s.va)]

\* The raw data of a section, after the headers, into an image that is cleared.
PeData(m, buf, s) == ElfData(m, buf, s)

SegInFile(f, s) == s.off + s.file <= f.size
\* A section as long as its data if that is longer; the headers of a PE are its first.
SegInImage(f, s) == SegEnd(s) <= 2 * f.image /\ s.va + s.file <= 2 * f.image

-----------------------------------------------------------------------------
(* The steps of a load *)

At(pc) == ld.pc = pc
Go(pc) == ld' = [ld EXCEPT !.pc = pc]

\* Mutant: a failure while a segment is mapped forgets the image.
Fail_KeepsImage(m) ==
    /\ pm' = IF At("map") THEN m ELSE Free(m, Range(ld.img))
    /\ ld' = [ld EXCEPT !.pc = "exit", !.img = <<>>]

\* Every failure gives the image back and ends in task_exit(-1).
Fail(m) ==
    /\ pm' = Free(m, Range(ld.img))
    /\ ld' = [ld EXCEPT !.pc = "exit", !.img = <<>>]

user_test_child_entry(f) ==
    /\ At("idle") /\ f \in Programs
    /\ ld' = [NoLoad EXCEPT !.pc = "find", !.file = f]
    /\ UNCHANGED <<pm, taken, stray>>

\* vfs_lookup, the checks of the size, and the image: 2^order pages.  Fragmentation
\* may refuse a larger block although pages are free.
Order(n) == CHOOSE k \in 0 .. n : 2^k >= n /\ \A j \in 0 .. n : 2^j >= n => k <= j

AllocImage ==
    /\ At("find")
    /\ LET n == 2^Order(PagesFor(ld.file.size))
       IN  \/ /\ ld.file.size = 0 \/ ld.file.size > ImageMax \/ Cardinality(pm.free) < n \/ n > 1
              /\ Fail(pm)
           \/ /\ ld.file.size \in 1 .. ImageMax /\ Cardinality(pm.free) >= n
              /\ pm' = Alloc(pm, Lowest(pm, n))
              /\ ld' = [ld EXCEPT !.pc = "read", !.img = Lowest(pm, n)]
    /\ UNCHANGED <<taken, stray>>

Filled(m, buf, f) ==
    [m EXCEPT !.cells = [p \in Frames |->
        IF p \notin Range(buf) THEN @[p]
        ELSE LET i == CHOOSE j \in 1 .. Len(buf) : buf[j] = p
             IN  [u \in Halves |-> IF 2 * (i - 1) + u < f.size THEN Unit(f, 2 * (i - 1) + u) ELSE Blank]]]

Detected(f) == f.magic = f.ext

\* vfs_open, vfs_read and vfs_close; then the header.  A read may come short.
ReadImage ==
    /\ At("read")
    /\ \/ Fail(pm)
       \/ /\ Detected(ld.file)
          /\ pm' = Filled(pm, ld.img, ld.file)
          /\ Go("setup")
    /\ UNCHANGED <<taken, stray>>

ImagePages(f) == [p \in 1 .. f.image |-> p - 1]

\* user_setup (Space has its parts): a root and the fixed pages, or nothing.  A PE maps
\* its whole image before it looks at the sections.
SetUp ==
    /\ At("setup")
    /\ IF Cardinality(pm.free) < 2 THEN Fail(pm)
       ELSE /\ pm' = Alloc(pm, Lowest(pm, 2))
            /\ ld' = IF ld.file.ext = "exe"
                     THEN [ld EXCEPT !.pc = "map", !.ctx = Range(Lowest(pm, 2)),
                                     !.todo = ImagePages(ld.file)]
                     ELSE [ld EXCEPT !.pc = "check", !.ctx = Range(Lowest(pm, 2))]
    /\ UNCHANGED <<taken, stray>>

\* The file and the base of what is being loaded: the program, or its library.
InLib == ld.dep > 0
What == IF InLib THEN Libs[ld.file.deps[ld.dep]] ELSE ld.file
From == IF InLib THEN ld.buf ELSE ld.img
Base == IF InLib THEN LibBase[ld.file.deps[ld.dep]] ELSE 0
Seg == What.segs[ld.seg]

\* A library that fails is left out, with the pages it has, and the next one is tried.
LibFails(m) ==
    /\ pm' = Free(m, Range(ld.buf))
    /\ ld' = [ld EXCEPT !.pc = "deps", !.buf = <<>>]
Refuse(m) == IF InLib THEN LibFails(m) ELSE Fail(m)

\* The checks of the next segment; after the last one the load goes on by format.
SegDone ==
    IF InLib THEN "registered"
    ELSE CASE ld.file.ext = "obr" -> "deps" [] ld.file.ext = "elf" -> "free" [] OTHER -> "teb"

CheckSegment ==
    /\ At("check") /\ ld.seg <= Len(What.segs)
    /\ LET ok == /\ SegInFile(What, Seg)
                 /\ What.interp # ld.seg
                 /\ IF What.ext = "exe" THEN SegInImage(What, Seg) ELSE InLib \/ Seg.file <= Seg.mem
       IN  IF ~ok THEN Refuse(pm)
           ELSE /\ ld' = CASE What.ext = "exe" -> [ld EXCEPT !.pc = "copy"]
                          [] What.ext = "elf" -> [ld EXCEPT !.pc = "map", !.todo = ElfPages(Seg)]
                          [] OTHER -> [ld EXCEPT !.pc = "map", !.todo = ObrPages(Base, Seg)]
                /\ UNCHANGED pm
    /\ UNCHANGED <<taken, stray>>

LastSegment ==
    /\ At("check") /\ ld.seg > Len(What.segs)
    /\ Go(SegDone)
    /\ UNCHANGED <<pm, taken, stray>>

\* An ELF segment reuses a page that another one has mapped and a PE skips it; an OBR
\* does not expect one.  Mutant: the reused page is cleared like a new one.
MapReused_Clears(va) == [pm EXCEPT !.cells[pm.pte[va]] = [u \in Halves |-> Zero]]
MapReused(va) == pm

MapNext ==
    /\ At("map") /\ ld.todo # <<>>
    /\ LET va == Head(ld.todo)
           r == MapPage(pm, va, IF What.ext = "obr" THEN Blank ELSE Zero)
       IN  IF What.ext # "obr" /\ Present(pm, va)
           THEN pm' = MapReused(va) /\ ld' = [ld EXCEPT !.todo = Tail(@)]
           ELSE IF r.rc = "ok" THEN pm' = r.m /\ ld' = [ld EXCEPT !.todo = Tail(@)]
           ELSE Refuse(r.m)
    /\ UNCHANGED <<taken, stray>>

Mapped ==
    /\ At("map") /\ ld.todo = <<>>
    /\ Go(IF What.ext = "exe" THEN "check" ELSE "copy")
    /\ UNCHANGED <<pm, taken, stray>>

CopySegment ==
    /\ At("copy")
    /\ pm' = Poke(pm, IF What.ext = "obr" THEN ObrData(pm, From, Base, Seg)
                      ELSE IF What.ext = "exe" THEN PeData(pm, From, Seg) ELSE ElfData(pm, From, Seg))
    /\ ld' = [ld EXCEPT !.pc = "check", !.seg = @ + 1]
    /\ UNCHANGED <<taken, stray>>

-----------------------------------------------------------------------------
(* The libraries of an OBR: their names are read from the image *)

ImageIntact == \A u \in 0 .. ld.file.size - 1 : BufAt(pm, ld.img, u) = Unit(ld.file, u)

NextLib ==
    /\ At("deps")
    /\ IF ld.dep >= Len(ld.file.deps) \/ Len(ld.file.deps) > MaxDeps
       THEN ld' = [ld EXCEPT !.pc = "free", !.dep = 0, !.seg = 1] /\ UNCHANGED pm
       ELSE LET name == ld.file.deps[ld.dep + 1]
                n == 2^Order(PagesFor(Libs[name].size))
            IN  \/ /\ ld' = [ld EXCEPT !.dep = @ + 1] \* not found, too large, or no memory
                   /\ UNCHANGED pm
                \/ /\ ImageIntact /\ name \in DOMAIN Libs /\ Libs[name].size \in 1 .. LibMax
                   /\ Cardinality(pm.free) >= n
                   /\ pm' = Filled(Alloc(pm, Lowest(pm, n)), Lowest(pm, n), Libs[name])
                   /\ ld' = [ld EXCEPT !.pc = "check", !.dep = @ + 1, !.seg = 1, !.buf = Lowest(pm, n)]
    /\ UNCHANGED <<taken, stray>>

dyn_register_lib ==
    /\ At("registered")
    /\ pm' = Free(pm, Range(ld.buf))
    /\ ld' = [ld EXCEPT !.pc = "deps", !.buf = <<>>, !.libs = @ \cup {ld.file.deps[ld.dep]}]
    /\ UNCHANGED <<taken, stray>>

-----------------------------------------------------------------------------
(* The Win32 layer: TEB, PEB, the stubs, and the imports *)

\* A page that is there already will do.
win32_setup_peb_teb ==
    /\ At("teb")
    /\ LET a == MapPage(pm, Teb, Zero)
           b == MapPage(a.m, Peb, Zero)
       IN  IF a.rc = "nomem" THEN Fail(a.m)
           ELSE IF b.rc = "nomem" THEN Fail(b.m)
           ELSE pm' = b.m /\ Go("stubs")
    /\ UNCHANGED <<taken, stray>>

\* Function n of the table has its stub at the unit StubUnit + n.
win32_stub_init ==
    /\ At("stubs")
    /\ LET r == FoldLeft(LAMBDA q, va : IF q.rc = "nomem" THEN q ELSE MapPage(q.m, va, Stub(0)),
                         [m |-> pm, rc |-> "ok"], StubPages)
       IN  IF r.rc = "nomem" THEN Fail(r.m)
           ELSE /\ pm' = Poke(r.m, [x \in {StubUnit + n : n \in Api} |-> Stub(x - StubUnit)])
                /\ Go("imports")
    /\ UNCHANGED <<taken, stray>>

\* The import table is read in the mapped image; a name that is not in the table fails
\* the load, after the imports before it have been bound.
pe_resolve_imports ==
    /\ At("imports")
    /\ LET known(i) == ld.file.imports[i].func \in Api
           bad == {i \in DOMAIN ld.file.imports : ~known(i)}
           upto == IF bad = {} THEN Len(ld.file.imports) ELSE (CHOOSE i \in bad : \A j \in bad : i <= j) - 1
           slots == {ld.file.imports[i].slot : i \in 1 .. upto}
           bound == Poke(pm, [x \in slots |-> LET i == CHOOSE k \in 1 .. upto : ld.file.imports[k].slot = x
                                              IN  Address(StubUnit + ld.file.imports[i].func)])
       IN  IF bad = {} THEN pm' = bound /\ Go("free") ELSE Fail(bound)
    /\ UNCHANGED <<taken, stray>>

-----------------------------------------------------------------------------
\* An OBR's entry point is an offset in the file; the first segment that has it says
\* where it is in memory.  The other formats name the address.
EntryOf(f) ==
    LET has(i) == f.entry >= f.segs[i].off /\ f.entry < f.segs[i].off + f.segs[i].file
        first == {i \in DOMAIN f.segs : has(i) /\ \A j \in 1 .. i - 1 : ~has(j)}
    IN  IF f.ext # "obr" THEN f.entry
        ELSE IF first = {} THEN 0
        ELSE LET s == f.segs[CHOOSE i \in first : TRUE] IN s.va + f.entry - s.off

user_enter ==
    /\ At("free")
    /\ pm' = Free(pm, Range(ld.img))
    /\ ld' = [ld EXCEPT !.pc = "run", !.img = <<>>, !.entry = EntryOf(ld.file)]
    /\ UNCHANGED <<taken, stray>>

\* A program ends by itself or is killed; a kill while it loads forgets the images.
ProgramEnds == At("run") /\ Go("exit") /\ UNCHANGED <<pm, taken, stray>>
KillLoader ==
    /\ ld.pc \notin {"idle", "run", "exit"} /\ stray = {}
    /\ stray' = Range(ld.img) \cup Range(ld.buf)
    /\ pm' = [pm EXCEPT !.cells = [f \in Frames |-> IF f \in stray' THEN [u \in Halves |-> Blank] ELSE @[f]]]
    /\ ld' = [ld EXCEPT !.pc = "exit", !.img = <<>>, !.buf = <<>>]
    /\ UNCHANGED taken

\* task_exit: user_teardown gives back all that is mapped, the tables and the root.
user_teardown ==
    /\ At("exit")
    /\ pm' = [Free(pm, Range(pm.pte) \cup Range(pm.tab) \cup ld.ctx) EXCEPT !.pte = <<>>, !.tab = <<>>]
    /\ ld' = NoLoad
    /\ UNCHANGED <<taken, stray>>

LoaderNext ==
    \/ \E f \in Programs : user_test_child_entry(f)
    \/ AllocImage \/ ReadImage \/ SetUp
    \/ CheckSegment \/ LastSegment \/ MapNext \/ Mapped \/ CopySegment
    \/ NextLib \/ dyn_register_lib
    \/ win32_setup_peb_teb \/ win32_stub_init \/ pe_resolve_imports
    \/ user_enter \/ ProgramEnds \/ KillLoader \/ user_teardown

-----------------------------------------------------------------------------
\* user.c:1590, elf_loader.c and user_teardown: wherever a load fails, or a program
\* ends, each page is free, another's, mapped or a buffer of the load, and only one of
\* them; a page is lost only with the image of a loader that was killed.
LoadsGiveBack ==
    LET parts == << pm.free, taken, stray, Range(ld.img), Range(ld.buf), ld.ctx,
                    Range(pm.pte), Range(pm.tab) >>
    IN  /\ UNION Range(parts) = Frames
        /\ \A i, j \in DOMAIN parts : i # j => parts[i] \cap parts[j] = {}
        /\ Cardinality(Range(pm.pte)) = Cardinality(DOMAIN pm.pte)

\* What the segments of f say of the units from base on.
Shown(f, base, slots) ==
    \A i \in DOMAIN f.segs : \A x \in f.segs[i].va .. SegEnd(f.segs[i]) - 1 :
        LET s == f.segs[i]
            others == UNION {f.segs[j].va .. f.segs[j].va + f.segs[j].file - 1 : j \in DOMAIN f.segs \ {i}}
        IN  x \in slots \/ x \in others \/
            (IF x - s.va < s.file THEN CellAt(pm, 2 * base + x) = Unit(f, s.off + x - s.va)
             ELSE CellAt(pm, 2 * base + x) = Zero)

\* elf_loader.c:549-560, pe_loader.c:5-12, user.c:1024-1031: a program that is entered
\* finds each segment's bytes and zeros at its address, the libraries that were
\* registered at theirs, its entry point where the header means it, every import bound
\* to the stub of its function; whatever other tasks did with freed pages meanwhile.
ImageTrue ==
    At("run") =>
        /\ Shown(ld.file, 0, {ld.file.imports[i].slot : i \in DOMAIN ld.file.imports})
        /\ \A d \in ld.libs : Shown(Libs[d], LibBase[d], {})
        /\ ld.file.ext = "obr" => CellAt(pm, ld.entry) = Unit(ld.file, ld.file.entry)
        /\ \A i \in DOMAIN ld.file.imports :
             LET x == StubUnit + ld.file.imports[i].func
             IN  /\ CellAt(pm, ld.file.imports[i].slot) = Address(x)
                 /\ CellAt(pm, x) = Stub(ld.file.imports[i].func)

\* Loading neither loses a page nor shows a program anything but its file: what one
\* program's failure gives back must not be what another is running on.
LoadsSound == LoadsGiveBack /\ ImageTrue
=============================================================================
