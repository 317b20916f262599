------------------------------- MODULE Calls -------------------------------
(***************************************************************************)
(* Descriptors, pipes and poll behind the two system-call tables: native   *)
(* programs (syscall.c) and Linux programs (user/linux_syscall.c), whose   *)
(* handlers call the native dispatcher again with compat_type cleared.  A  *)
(* system call runs with interrupts off until it returns or calls          *)
(* schedule(), so it is one step up to there.  Neither a thread nor a      *)
(* fork inherits descriptors: every open file is in one table only, and    *)
(* both ends of a pipe are held by the one thread of one task.             *)
(***************************************************************************)
EXTENDS Integers, Sequences, FiniteSets, FiniteSetsExt, SequencesExt, Lists

CONSTANTS Callers,         \* tasks, the children still to be forked included
          Program,       \* "native" or "linux": the calls the task's code makes
          Parent,        \* for a task that is still to be forked, its parent
          Fds,           \* descriptors above the three standard ones
          PIPE_BUF_SIZE, \* 4096 in the code
          MaxPipes,
          Wakes          \* poll time-outs in ticks; -1 is no time-out

ASSUME CallsAssumption ==
    /\ IsFiniteSet(Callers) /\ Program \in [Callers -> {"native", "linux"}]
    /\ DOMAIN Parent \subseteq Callers
    /\ \A t \in DOMAIN Parent : Parent[t] \in Callers \ {t} /\ Program[t] = Program[Parent[t]]
    /\ IsFiniteSet(Fds) /\ Fds \subseteq Nat \ 0..2
    /\ PIPE_BUF_SIZE \in Nat \ {0}
    /\ MaxPipes \in Nat /\ Wakes \subseteq {-1} \cup Nat

VARIABLES
    tstate,         \* unborn, user, asleep, dead, gone
    compat_type,    \* none or linux
    fd_table,       \* the file of each descriptor: none, plain, or an end of a pipe
    files,          \* how many struct vfs_file are allocated
    pipes,          \* struct pipe_inode with its ring
    sent,           \* the next unit each pipe's writer writes, modulo Units
    call_,          \* the call a task sleeps in
    g_poll_waiters, \* tasks with a linked waiter
    waiter,         \* the poll waiter each task allocated: none, linked, freed
    twice           \* tasks that freed their waiter a second time

cvars == <<tstate, compat_type, fd_table, files, pipes, sent, call_,
           g_poll_waiters, waiter, twice>>

Units == PIPE_BUF_SIZE + 1    \* consecutive units differ, and a full ring's do
Closed == [kind |-> "none", pipe |-> 0]
End(kind, p) == [kind |-> kind, pipe |-> p]
NoPipe == [live |-> FALSE, readers |-> 0, writers |-> 0, head |-> 0, tail |-> 0,
           len |-> 0, data |-> [i \in 0..PIPE_BUF_SIZE - 1 |-> 0]]
NoCall == [op |-> "none", fds |-> {}, left |-> 0]

CallsInit ==
    /\ tstate = [t \in Callers |-> IF t \in DOMAIN Parent THEN "unborn" ELSE "user"]
    /\ compat_type = [t \in Callers |-> IF Program[t] = "linux" /\ t \notin DOMAIN Parent
                                      THEN "linux" ELSE "none"]
    /\ fd_table = [t \in Callers |-> [fd \in Fds |-> Closed]]
    /\ files = 0
    /\ pipes = [p \in 1..MaxPipes |-> NoPipe]
    /\ sent = [p \in 1..MaxPipes |-> 0]
    /\ call_ = [t \in Callers |-> NoCall]
    /\ g_poll_waiters = <<>>
    /\ waiter = [t \in Callers |-> "none"]
    /\ twice = {}

-----------------------------------------------------------------------------
(* The two dispatchers *)

\* syscall_dispatcher sends the call to the table compat_type names; a Linux
\* number in the native one is ENOSYS or some other call's number.
Understood(t) == compat_type[t] = IF Program[t] = "linux" THEN "linux" ELSE "none"
Running(t) == tstate[t] = "user" /\ call_[t] = NoCall /\ Understood(t)

\* kx_call_ob clears compat_type for the call and puts it back when the call
\* returns; task_create reads the parent's in between, and SigReturn, which
\* leaves for user mode, does not return.
Fork(t, c) ==
    /\ Running(t) /\ c \in DOMAIN Parent /\ Parent[c] = t /\ tstate[c] = "unborn"
    /\ tstate' = [tstate EXCEPT ![c] = "user"]
    /\ compat_type' = [compat_type EXCEPT ![c] = "none"]
    /\ UNCHANGED <<fd_table, files, pipes, sent, call_, g_poll_waiters, waiter, twice>>

SigReturn(t) ==
    /\ Running(t)
    /\ compat_type' = [compat_type EXCEPT ![t] = "none"]
    /\ UNCHANGED <<tstate, fd_table, files, pipes, sent, call_, g_poll_waiters,
                   waiter, twice>>

-----------------------------------------------------------------------------
(* Wake-ups *)

Wake(W) == [t \in Callers |-> IF t \in W /\ tstate[t] = "asleep" THEN "user" ELSE tstate[t]]

\* The notifier takes the whole list, wakes each thread and frees each node.
select_notify_wakeup ==
    LET W == ToSet(g_poll_waiters) IN
    /\ g_poll_waiters' = <<>>
    /\ tstate' = Wake(W)
    /\ waiter' = [t \in Callers |-> IF t \in W THEN "freed" ELSE waiter[t]]

-----------------------------------------------------------------------------
(* Descriptors *)

fd_get(t, fd) == fd_table[t][fd]
FreeFds(t) == { fd \in Fds : fd_get(t, fd) = Closed }
fd_alloc(t) == Min(FreeFds(t))

\* vfs_open succeeded; with the table full the file is closed again.
\* Mutant: the file is forgotten instead.
OpenFile_Forgotten(t) ==
    /\ Running(t)
    /\ files' = files + 1
    /\ fd_table' = IF FreeFds(t) = {} THEN fd_table
                   ELSE [fd_table EXCEPT ![t][fd_alloc(t)] = End("plain", 0)]
    /\ UNCHANGED <<tstate, compat_type, pipes, sent, call_, g_poll_waiters, waiter, twice>>

OpenFile(t) ==
    /\ Running(t)
    /\ IF FreeFds(t) = {}
       THEN UNCHANGED <<files, fd_table>>
       ELSE /\ files' = files + 1
            /\ fd_table' = [fd_table EXCEPT ![t][fd_alloc(t)] = End("plain", 0)]
    /\ UNCHANGED <<tstate, compat_type, pipes, sent, call_, g_poll_waiters, waiter, twice>>

\* pipefs_create: what was allocated is given back unless two slots are free;
\* after that a bad address is an error too, but the descriptors stay.
pipefs_create(t) ==
    /\ Running(t)
    /\ Cardinality(FreeFds(t)) >= 2
    /\ \E p \in DOMAIN pipes :
         /\ ~pipes[p].live /\ \A q \in DOMAIN pipes : pipes[q].live \/ p <= q
         /\ LET rd == fd_alloc(t)
                wr == Min(FreeFds(t) \ {rd})
            IN  fd_table' = [fd_table EXCEPT ![t][rd] = End("read", p),
                                             ![t][wr] = End("write", p)]
         /\ pipes' = [pipes EXCEPT ![p] = [NoPipe EXCEPT !.live = TRUE, !.readers = 1,
                                                         !.writers = 1]]
         /\ sent' = [sent EXCEPT ![p] = 0]
    /\ files' = files + 2
    /\ UNCHANGED <<tstate, compat_type, call_, g_poll_waiters, waiter, twice>>

\* pipefs_close, once per file that t has in the slots C; the pipe goes with its
\* last end.
\* Mutant: the last reader frees the pipe, whatever the writers.
Ends(t, C, kind, p) == { fd \in C : fd_get(t, fd) = End(kind, p) }
pipefs_close_ByReader(t, C) ==
    [p \in DOMAIN pipes |->
        LET r == pipes[p].readers - Cardinality(Ends(t, C, "read", p))
            w == pipes[p].writers - Cardinality(Ends(t, C, "write", p))
        IN  IF r = 0 THEN NoPipe
            ELSE [pipes[p] EXCEPT !.readers = r, !.writers = w]]

pipefs_close(t, C) ==
    [p \in DOMAIN pipes |->
        LET r == pipes[p].readers - Cardinality(Ends(t, C, "read", p))
            w == pipes[p].writers - Cardinality(Ends(t, C, "write", p))
        IN  IF r = 0 /\ w = 0 THEN NoPipe
            ELSE [pipes[p] EXCEPT !.readers = r, !.writers = w]]

\* vfs_close calls the pipe's close, which notifies, and frees the file.
Open(t, C) == { fd \in C : fd_get(t, fd) # Closed }
CloseFiles(t, C) ==
    /\ files' = files - Cardinality(Open(t, C))
    /\ pipes' = pipefs_close(t, C)
    /\ fd_table' = [fd_table EXCEPT ![t] = [fd \in Fds |-> IF fd \in C THEN Closed ELSE @[fd]]]

CloseHandle(t, fd) ==
    /\ Running(t) /\ fd_get(t, fd) # Closed
    /\ CloseFiles(t, {fd})
    /\ IF fd_get(t, fd).pipe # 0
       THEN select_notify_wakeup
       ELSE UNCHANGED <<tstate, g_poll_waiters, waiter>>
    /\ UNCHANGED <<compat_type, sent, call_, twice>>

-----------------------------------------------------------------------------
(* Pipes *)

IsEnd(t, fd, kind) == fd_get(t, fd).kind = kind
PipeOf(t, fd) == fd_get(t, fd).pipe
Smaller(a, b) == IF a < b THEN a ELSE b

SleepIn(t, op, fds, left) ==
    /\ tstate' = [tstate EXCEPT ![t] = "asleep"]
    /\ call_' = [call_ EXCEPT ![t] = [op |-> op, fds |-> fds, left |-> left]]

\* Units are taken from the head; an empty pipe with a writer puts the reader
\* to sleep.  The writer is the reader's own: nobody but a kill ends that sleep.
\* Mutant: the head is not taken round the end of the ring with the length.
pipefs_read_Short(t, fd, count) ==
    LET p == PipeOf(t, fd)
        take == Smaller(count, pipes[p].len)
    IN  /\ Running(t) /\ IsEnd(t, fd, "read") /\ pipes[p].len > 0
        /\ pipes' = [pipes EXCEPT ![p].head = (@ + 1) % PIPE_BUF_SIZE, ![p].len = @ - take]
        /\ select_notify_wakeup
        /\ UNCHANGED <<compat_type, fd_table, files, sent, call_, twice>>

pipefs_read(t, fd, count) ==
    LET p == PipeOf(t, fd)
        take == Smaller(count, pipes[p].len)
    IN  /\ Running(t) /\ IsEnd(t, fd, "read")
        /\ \/ /\ pipes[p].len > 0
              /\ pipes' = [pipes EXCEPT ![p].head = (@ + take) % PIPE_BUF_SIZE,
                                        ![p].len = @ - take]
              /\ select_notify_wakeup
              /\ UNCHANGED call_
           \/ /\ pipes[p].len = 0 /\ pipes[p].writers > 0
              /\ SleepIn(t, "read", {fd}, 0)
              /\ UNCHANGED <<pipes, g_poll_waiters, waiter>>
        /\ UNCHANGED <<compat_type, fd_table, files, sent, twice>>

\* What fits is written, with a notice to the pollers, and the rest is slept for.
pipefs_write(t, fd, count) ==
    LET p == PipeOf(t, fd)
        take == Smaller(count, PIPE_BUF_SIZE - pipes[p].len)
        put == [i \in 0..take - 1 |-> (sent[p] + i) % Units]
        slot(i) == (pipes[p].tail + i) % PIPE_BUF_SIZE
    IN  /\ Running(t) /\ IsEnd(t, fd, "write") /\ pipes[p].readers > 0 /\ count > 0
        /\ pipes' = [pipes EXCEPT
               ![p].data = [j \in DOMAIN @ |->
                   IF \E i \in DOMAIN put : slot(i) = j
                   THEN put[CHOOSE i \in DOMAIN put : slot(i) = j] ELSE @[j]],
               ![p].tail = (@ + take) % PIPE_BUF_SIZE,
               ![p].len = @ + take]
        /\ sent' = [sent EXCEPT ![p] = (@ + take) % Units]
        /\ IF take > 0
           THEN /\ g_poll_waiters' = <<>>
                /\ waiter' = [u \in Callers |-> IF u \in ToSet(g_poll_waiters)
                                              THEN "freed" ELSE waiter[u]]
           ELSE UNCHANGED <<g_poll_waiters, waiter>>
        /\ LET awake == IF take > 0 THEN Wake(ToSet(g_poll_waiters)) ELSE tstate IN
           IF take < count
           THEN /\ tstate' = [awake EXCEPT ![t] = "asleep"]
                /\ call_' = [call_ EXCEPT ![t] = [op |-> "write", fds |-> {fd},
                                                  left |-> count - take]]
           ELSE tstate' = awake /\ UNCHANGED call_
        /\ UNCHANGED <<compat_type, fd_table, files, twice>>

-----------------------------------------------------------------------------
(* poll *)

\* fd_ready: a closed descriptor is an error, which is ready; so is a plain file.
\* Mutant: pipefs_poll without POLLHUP and POLLERR.
fd_ready_NoHangup(t, fd) ==
    LET p == PipeOf(t, fd) IN
    CASE IsEnd(t, fd, "read")  -> pipes[p].len > 0
      [] IsEnd(t, fd, "write") -> pipes[p].len < PIPE_BUF_SIZE
      [] OTHER -> TRUE

fd_ready(t, fd) ==
    LET p == PipeOf(t, fd) IN
    CASE IsEnd(t, fd, "read")  -> pipes[p].len > 0 \/ pipes[p].writers = 0
      [] IsEnd(t, fd, "write") -> pipes[p].len < PIPE_BUF_SIZE \/ pipes[p].readers = 0
      [] OTHER -> TRUE

\* Without memory for the waiter the thread yields, which also counts a tick.
Elapse(left) == IF left > 0 THEN left - 1 ELSE left
PollWait(t, fds, left, rest) ==
    \/ /\ SleepIn(t, "poll", fds, left)
       /\ g_poll_waiters' = <<t>> \o rest
       /\ waiter' = [waiter EXCEPT ![t] = "linked"]
    \/ /\ call_' = [call_ EXCEPT ![t] = [op |-> "poll", fds |-> fds, left |-> Elapse(left)]]
       /\ g_poll_waiters' = rest
       /\ waiter' = [waiter EXCEPT ![t] = "none"]
       /\ UNCHANGED tstate

select_poll(t, fds, left) ==
    /\ Running(t) /\ Program[t] = "native"
    /\ left # 0 /\ \A fd \in fds : ~fd_ready(t, fd)
    /\ PollWait(t, fds, left, g_poll_waiters)
    /\ UNCHANGED <<compat_type, fd_table, files, pipes, sent, twice>>

\* Awake again, the thread unlinks its waiter if the notifier did not, frees it
\* in either case, and looks at its descriptors once more.
PollAgain(t) ==
    LET left == IF waiter[t] = "none" THEN call_[t].left ELSE Elapse(call_[t].left)
        rest == Without(g_poll_waiters, {t})
    IN  /\ tstate[t] = "user" /\ call_[t].op = "poll"
        /\ twice' = IF waiter[t] = "freed" THEN twice \cup {t} ELSE twice
        /\ \/ /\ left = 0 \/ \E fd \in call_[t].fds : fd_ready(t, fd)
              /\ call_' = [call_ EXCEPT ![t] = NoCall]
              /\ g_poll_waiters' = rest
              /\ waiter' = [waiter EXCEPT ![t] = "none"]
              /\ UNCHANGED tstate
           \/ /\ left # 0 /\ \A fd \in call_[t].fds : ~fd_ready(t, fd)
              /\ PollWait(t, call_[t].fds, left, rest)
        /\ UNCHANGED <<compat_type, fd_table, files, pipes, sent>>

-----------------------------------------------------------------------------
(* The end of a task *)

\* task_exit, a fault or the out-of-memory killer, who may take a sleeper.
Die(t) ==
    /\ tstate[t] \in {"user", "asleep"}
    /\ tstate' = [tstate EXCEPT ![t] = "dead"]
    /\ call_' = [call_ EXCEPT ![t] = NoCall]
    /\ UNCHANGED <<compat_type, fd_table, files, pipes, sent, g_poll_waiters, waiter,
                   twice>>

\* task_18d_cleanup, from task_destroy, closes every descriptor; a poll waiter
\* of a task that was killed asleep stays linked until the next notice.
\* Mutant: it begins after the first descriptor.
task_18d_cleanup_OffByOne(t) ==
    /\ tstate[t] = "dead"
    /\ CloseFiles(t, Fds \ {Min(Fds)})
    /\ tstate' = [tstate EXCEPT ![t] = "gone"]
    /\ UNCHANGED <<compat_type, sent, call_, g_poll_waiters, waiter, twice>>

task_18d_cleanup(t) ==
    LET told == \E fd \in Fds : fd_get(t, fd).pipe # 0
        W == IF told THEN ToSet(g_poll_waiters) ELSE {}
    IN  /\ tstate[t] = "dead"
        /\ CloseFiles(t, Fds)
        /\ tstate' = [Wake(W) EXCEPT ![t] = "gone"]
        /\ g_poll_waiters' = IF told THEN <<>> ELSE g_poll_waiters
        /\ waiter' = [u \in Callers |-> IF u \in W THEN "freed" ELSE waiter[u]]
        /\ UNCHANGED <<compat_type, sent, call_, twice>>

-----------------------------------------------------------------------------
CallsNext ==
    \E t \in Callers :
        \/ \E c \in Callers : Fork(t, c)
        \/ SigReturn(t)
        \/ OpenFile(t)
        \/ pipefs_create(t)
        \/ \E fd \in Fds : CloseHandle(t, fd)
        \/ \E fd \in Fds, n \in 1..PIPE_BUF_SIZE : pipefs_read(t, fd, n)
        \/ \E fd \in Fds, n \in 1..PIPE_BUF_SIZE + 1 : pipefs_write(t, fd, n)
        \/ \E fds \in SUBSET Fds, left \in Wakes : select_poll(t, fds, left)
        \/ PollAgain(t)
        \/ Die(t)
        \/ task_18d_cleanup(t)

CallsSpec == CallsInit /\ [][CallsNext]_cvars

-----------------------------------------------------------------------------
(* Properties *)

Holders(kind, p) == { h \in Callers \X Fds : fd_get(h[1], h[2]) = End(kind, p) }

\* Every allocated file is in one descriptor of a task that is not gone, through
\* full tables, failed pipes and kills, and a pipe lives exactly as long as one
\* of its ends, whose numbers it knows (syscall.c, pipefs.c, task_18d_cleanup).
FilesHeldOnce ==
    /\ files = Cardinality({ h \in Callers \X Fds : fd_get(h[1], h[2]) # Closed })
    /\ \A t \in Callers : tstate[t] = "gone" => Open(t, Fds) = {}
    /\ \A p \in DOMAIN pipes :
         /\ pipes[p].readers = Cardinality(Holders("read", p))
         /\ pipes[p].writers = Cardinality(Holders("write", p))
         /\ pipes[p].live <=> Holders("read", p) \cup Holders("write", p) # {}

\* What a pipe holds is what was last written to it, in order, round the end of
\* its ring (pipefs_read, pipefs_write).
PipeKeepsOrder ==
    \A p \in DOMAIN pipes : pipes[p].live =>
        \A i \in 0..pipes[p].len - 1 :
            pipes[p].data[(pipes[p].head + i) % PIPE_BUF_SIZE]
                = (sent[p] - pipes[p].len + i) % Units

\* A task that sleeps in poll has a linked waiter, once, that is not freed, and
\* a read or a write of any of its descriptors would sleep too: no notice is lost
\* between its look and its sleep, and none of the ends a pipe can come to is
\* left out (select_poll, pipefs_poll, select_notify_wakeup).
WouldSleep(t, fd) ==
    LET p == PipeOf(t, fd) IN
    \/ IsEnd(t, fd, "read") /\ pipes[p].len = 0 /\ pipes[p].writers > 0
    \/ IsEnd(t, fd, "write") /\ pipes[p].len = PIPE_BUF_SIZE /\ pipes[p].readers > 0
PollersWaitSoundly ==
    \A t \in Callers : tstate[t] = "asleep" /\ call_[t].op = "poll" =>
        /\ Cardinality({ i \in DOMAIN g_poll_waiters : g_poll_waiters[i] = t }) = 1
        /\ waiter[t] = "linked"
        /\ \A fd \in call_[t].fds : WouldSleep(t, fd)

\* select.c:152: a poller that wakes takes out its waiter and frees it if it is
\* still linked; one the notifier took out was freed by the notifier.
WaitersFreedOnce == twice = {}

\* linux_syscall.c: compat_type is put back after the call, so that a Linux
\* program's next call is looked up in the Linux table.
LinuxStaysLinux ==
    \A t \in Callers : tstate[t] = "user" /\ Program[t] = "linux" => compat_type[t] = "linux"

============================================================================
