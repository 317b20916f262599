---- MODULE MCMemory ----
\* Space counts frames and Slab numbers them; they share no variable, so an
\* initial state has one of them and their states add up.  Bounds of Space: three
\* tasks that make no shared region, or two that do.  Bounds of Boot: the machine from
\* power-on to its devices, with all that the firmware may do, or three whole boots with
\* a firmware that does nothing and no memory for a card.
EXTENDS Slab, Space, Boot

VARIABLE present

Init ==
    /\ present \in {"slab", "threads", "shared", "loader", "boot"}
    /\ SlabInit /\ SpaceInit /\ BootInit
    /\ present \in {"loader", "boot"} \/ <<bus, disk>> = CHOOSE machine \in Machines \X Disks : TRUE

Quiet == changed = 0 /\ bi.end # 2 /\ nic = Reset(2)

Next ==
    \/ present = "slab" /\ SlabNext /\ UNCHANGED <<space_vars, boot_vars, present>>
    \/ present = "threads" /\ SpaceNext /\ shm' = shm /\ UNCHANGED <<slab_vars, boot_vars, present>>
    \/ present = "shared" /\ SpaceNext /\ ~Live(3)' /\ UNCHANGED <<slab_vars, boot_vars, present>>
    \/ present = "loader" /\ BootNext /\ at' # "selftest" /\ UNCHANGED <<slab_vars, space_vars, present>>
    \/ present = "boot" /\ BootNext /\ Quiet' /\ UNCHANGED <<slab_vars, space_vars, present>>

Spec == Init /\ [][Next]_<<slab_vars, space_vars, boot_vars, present>>

mcMemoryMap == << [start |-> 0, pages |-> 3, usable |-> TRUE],
                  [start |-> 3, pages |-> 1, usable |-> FALSE],
                  [start |-> 4, pages |-> 6, usable |-> TRUE] >>
mcObjects == [c \in Caches |-> 2]
mcStacks == {<< Heap(1), Heap(2) >>}
mcHints == {Heap(2)}

\* Boot: pages 1 below 1 MB, 2 to 4 the kernel, 5 the loader, 9 kept by the firmware,
\* 10 to 12 free, the last beyond what boot_info has room for.
mcRam == 1 .. 12
mcFirmwareMaps ==
    { [p \in mcRam |-> CASE p = 5 -> "loader" [] p = 8 -> "boot" [] p = 9 -> "runtime" [] OTHER -> "free"] }

\* A card and a large disk; a disk behind a balloon, which hides the card; a disk on
\* the card's slot that a single-function header hides, and one without a queue; a
\* card that fails and a disk too small to format or to test; no disk with I/O ports.
Function(id, bar, failed, nums, sectors) ==
    [id |-> id, bar |-> bar, failed |-> failed, nums |-> nums, sectors |-> sectors]
Slot(f) == [multi |-> FALSE, funcs |-> <<f>>]
Card == Function("net", "io", FALSE, <<1, 1>>, 0)
mcMachines == {
    << Slot(Card), Slot(Function("blk", "io", FALSE, <<1>>, 3)) >>,
    << Slot(NoFunction),
       [multi |-> TRUE,
        funcs |-> << Function("balloon", "mem", FALSE, <<1>>, 0), NoFunction,
                     Function("blk_modern", "io", FALSE, <<1>>, 2) >>],
       Slot(Card) >>,
    << [multi |-> FALSE,
        funcs |-> << Function("net_modern", "io", FALSE, <<1, 0>>, 0),
                     Function("blk", "io", FALSE, <<1>>, 3) >>],
       Slot(Function("blk_modern", "io", FALSE, <<0>>, 3)) >>,
    << Slot(Function("net", "io", TRUE, <<1, 1>>, 0)), Slot(Function("blk", "io", FALSE, <<1>>, 1)) >>,
    << Slot(Card), Slot(Function("blk", "mem", FALSE, <<1>>, 3)) >> }

\* An empty disk, and one whose machine lost power after a commit.
mcDisks ==
    { [super |-> "blank", root |-> FALSE, files |-> {}, pending |-> {}],
      [super |-> "ok", root |-> TRUE, files |-> {"old"}, pending |-> {"older"}] }
====
