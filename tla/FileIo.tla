------------------------------- MODULE FileIo -------------------------------
(***************************************************************************)
(* Reading and writing files of a tmpfs: the buffer of a file (tmpfs.c),   *)
(* the calls of the three programming interfaces (syscall.c,               *)
(* linux_syscall.c, win32_api.c) that move through it with positions of    *)
(* their own, and the shell's cp and mv (oshell.c), which copy in pieces   *)
(* while other programs run (here: the boot self-test calls them alone).   *)
(*                                                                         *)
(* A buffer is a sequence of bytes as long as its capacity; a byte that    *)
(* kmalloc returned and nobody wrote is Stale.  contents is what the files *)
(* should hold.                                                            *)
(***************************************************************************)
EXTENDS Integers, Sequences, SequencesExt, FiniteSetsExt

CONSTANTS
    Files,          \* names
    Progs,          \* programs, each with one descriptor above the standard ones
    ProgFiles,      \* files the programs open
    Chars,          \* bytes programs write; 0 fills gaps
    MAX_SIZE,       \* tmpfs_sb_info.max_size, a limit of each file
    FIRST_CAP,      \* capacity of a file's first buffer
    POSITIONS,      \* positions are numbers below it (2^64)
    Offsets,        \* what programs add to a position
    SeekTo,         \* where they may come by it: not to just below POSITIONS, see Writes
    CHUNK,          \* bytes cp moves at a time
    COPY_LIMIT,     \* bytes after which cp gives up
    SharesCopied,   \* programs write the files the shell copies
    Stale

ASSUME PositionsFit ==
    /\ MAX_SIZE \in Nat /\ CHUNK \in Nat \ {0} /\ POSITIONS \in Nat /\ COPY_LIMIT \in Nat
    /\ FIRST_CAP \in 1..MAX_SIZE
    /\ MAX_SIZE + CHUNK < POSITIONS
    /\ ProgFiles \subseteq Files
    /\ SeekTo \subseteq 0..POSITIONS - 1

VARIABLES
    inodes,     \* tmpfs_inode_info of each file: there, its buffer and its size
    contents,   \* what each file should hold
    handles,    \* the open file of each program: NoHandle, or file and position
    interface,  \* "ob", "linux" or "win32" for each program
    last_error, \* task_t.win32_last_error, shown of win32 programs
    job         \* the shell: NoJob, or the cp or mv it is in

io_vars == <<inodes, contents, handles, interface, last_error, job>>

NoHandle == [f |-> "none", pos |-> 0]
NoJob == [op |-> "none"]
NoInode == [there |-> FALSE, data |-> <<>>, size |-> 0]
Copying(f) == job # NoJob /\ f \in {job.src, job.dst}
OpenBy(f) == {p \in Progs : handles[p].f = f}

FileIoTypeOK ==
    /\ \A f \in Files : inodes[f].size <= Len(inodes[f].data) /\ Len(inodes[f].data) <= MAX_SIZE
    /\ \A p \in Progs : handles[p].f \in Files \cup {"none"} /\ handles[p].pos \in 0..POSITIONS - 1
    /\ last_error \in [Progs -> {"none", "handle", "parameter", "not found"}]

FileIoInit ==
    /\ inodes = [f \in Files |-> NoInode]
    /\ contents = [f \in Files |-> <<>>]
    /\ handles = [p \in Progs |-> NoHandle]
    /\ interface \in [Progs -> {"ob", "linux", "win32"}]
    /\ last_error = [p \in Progs |-> "none"]
    /\ job = NoJob

-----------------------------------------------------------------------------
(* tmpfs.  Each operation gives the inode it leaves, the position and what it *)
(* returns, -1 for an error.                                                  *)

tmpfs_file_read(ino, pos, count) ==
    LET n == IF pos >= ino.size THEN 0
             ELSE IF count > ino.size - pos THEN ino.size - pos ELSE count
    IN [ret |-> n, pos |-> pos + n, bytes |-> [i \in 1..n |-> ino.data[pos + i]]]

Twos[k \in Nat] == IF k = 0 THEN 1 ELSE 2 * Twos[k - 1]
Doubled(cap, need) == Min({c \in {cap * Twos[k] : k \in 0..need} : c >= need})

\* The buffer of a file with room for need bytes: a new one holds the old bytes up to the size.
Grown(ino, need) ==
    LET from == IF Len(ino.data) = 0 THEN FIRST_CAP ELSE Len(ino.data)
        twice == Doubled(from, need)
        newcap == IF twice > MAX_SIZE THEN MAX_SIZE ELSE twice
    IN IF need <= Len(ino.data) THEN ino.data
       ELSE [i \in 1..newcap |-> IF i <= ino.size THEN ino.data[i] ELSE Stale]

\* Mutant: a write behind the end leaves the bytes between as the allocator gave them.
tmpfs_file_write_NoGap(ino, pos, bytes, alloc_fails) ==
    LET need == (pos + Len(bytes)) % POSITIONS
        buf == Grown(ino, need)
    IN IF need > MAX_SIZE \/ (need > Len(ino.data) /\ alloc_fails)
       THEN [ret |-> -1, pos |-> pos, ino |-> ino]
       ELSE [ret |-> Len(bytes), pos |-> need,
             ino |-> [there |-> ino.there,
                      size |-> IF need > ino.size THEN need ELSE ino.size,
                      data |-> [i \in DOMAIN buf |->
                                  IF i > pos /\ i <= need THEN bytes[i - pos] ELSE buf[i]]]]

tmpfs_file_write(ino, pos, bytes, alloc_fails) ==
    LET need == (pos + Len(bytes)) % POSITIONS
        buf == Grown(ino, need)
    IN IF need > MAX_SIZE \/ (need > Len(ino.data) /\ alloc_fails)
       THEN [ret |-> -1, pos |-> pos, ino |-> ino]
       ELSE [ret |-> Len(bytes), pos |-> need,
             ino |-> [there |-> ino.there,
                      size |-> IF need > ino.size THEN need ELSE ino.size,
                      data |-> [i \in DOMAIN buf |->
                                  IF i > pos /\ i <= need THEN bytes[i - pos]
                                  ELSE IF i > ino.size /\ i <= pos THEN 0 ELSE buf[i]]]]

\* What a file holds after a write: zeros up to the position, then the bytes.
Written(held, pos, bytes) ==
    [i \in 1..(IF pos + Len(bytes) > Len(held) THEN pos + Len(bytes) ELSE Len(held)) |->
        IF i > pos /\ i <= pos + Len(bytes) THEN bytes[i - pos]
        ELSE IF i <= Len(held) THEN held[i] ELSE 0]

\* A write of bytes at a position of a file; others says what else changes with the result.
Write(f, pos, bytes, fails) ==
    LET w == tmpfs_file_write(inodes[f], pos, bytes, fails)
    IN /\ inodes' = [inodes EXCEPT ![f] = w.ino]
       /\ contents' = [contents EXCEPT ![f] = IF w.ret < 0 THEN @ ELSE Written(@, pos, bytes)]

-----------------------------------------------------------------------------
(* Programs.  A call of a program runs with interrupts off. *)

Fault(p, why) == last_error' = IF interface[p] = "win32" THEN [last_error EXCEPT ![p] = why] ELSE last_error

\* vfs_open finds or makes the file; when no descriptor is free it is closed again, but stays.
vfs_open_new(f, creat, excl) ==
    CASE inodes[f].there /\ creat /\ excl -> [rc |-> "exists", there |-> TRUE]
      [] ~inodes[f].there /\ ~creat -> [rc |-> "not found", there |-> FALSE]
      [] OTHER -> [rc |-> "ok", there |-> TRUE]

\* Translated flags: only create and exclusive reach the lookup; nothing truncates or appends.
lx_to_vfs_flags(flags) == flags \cap {"creat", "excl"}
win32_disposition(disp) ==
    CASE disp = "CREATE_NEW" -> {"creat", "excl"}
      [] disp \in {"CREATE_ALWAYS", "OPEN_ALWAYS"} -> {"creat"}
      [] OTHER -> {}

Opens(p, f, flags, full) ==
    LET r == vfs_open_new(f, "creat" \in flags, "excl" \in flags) IN
    /\ SharesCopied \/ ~Copying(f)
    /\ inodes' = [inodes EXCEPT ![f].there = r.there]
    /\ IF r.rc = "ok" /\ ~full
       THEN handles' = [handles EXCEPT ![p] = [f |-> f, pos |-> 0]] /\ UNCHANGED last_error
       ELSE /\ Fault(p, IF r.rc = "not found" THEN "not found" ELSE "parameter")
            /\ UNCHANGED handles
    /\ UNCHANGED <<contents, interface, job>>

IoOpen(p) ==
    \E f \in ProgFiles, full \in BOOLEAN :
        /\ handles[p] = NoHandle
        /\ interface[p] = "ob"
        /\ \E flags \in {{}, {"creat"}, {"creat", "excl"}} : Opens(p, f, flags, full)
linux_open(p) ==
    \E f \in ProgFiles, full \in BOOLEAN :
        /\ handles[p] = NoHandle
        /\ interface[p] = "linux"
        /\ \E flags \in {{}, {"creat"}, {"creat", "trunc"}} : Opens(p, f, lx_to_vfs_flags(flags), full)
win32_create_file_common(p) ==
    \E f \in ProgFiles, full \in BOOLEAN :
        /\ handles[p] = NoHandle
        /\ interface[p] = "win32"
        /\ \E disp \in {"CREATE_NEW", "CREATE_ALWAYS", "OPEN_EXISTING"} :
               Opens(p, f, win32_disposition(disp), full)

\* Reads of an open file; without one the call fails.
Reads(p) ==
    \/ /\ handles[p] # NoHandle
       /\ \E n \in 1..CHUNK :
              handles' = [handles EXCEPT ![p].pos = tmpfs_file_read(inodes[handles[p].f], @, n).pos]
       /\ UNCHANGED <<inodes, contents, interface, last_error, job>>
    \/ /\ handles[p] = NoHandle
       /\ Fault(p, "handle")
       /\ UNCHANGED <<inodes, contents, handles, interface, job>>

IoRead(p) == interface[p] = "ob" /\ Reads(p)
linux_read(p) == interface[p] = "linux" /\ Reads(p)
w32_ReadFile(p) == interface[p] = "win32" /\ Reads(p)

\* From a position just below POSITIONS the end of a write wraps: the write passes the
\* check of the size and fills memory up to the position (tmpfs.c:405).
WriteOf(p, bytes, fails) ==
    LET f == handles[p].f
        pos == handles[p].pos
        w == tmpfs_file_write(inodes[f], pos, bytes, fails)
    IN /\ Write(f, pos, bytes, fails)
       /\ handles' = [handles EXCEPT ![p].pos = w.pos]
       /\ IF w.ret < 0 THEN Fault(p, "parameter") ELSE UNCHANGED last_error

Writes(p) ==
    \/ /\ handles[p] # NoHandle
       /\ SharesCopied \/ ~Copying(handles[p].f)
       /\ \E n \in 1..CHUNK, c \in Chars, fails \in BOOLEAN : WriteOf(p, [i \in 1..n |-> c], fails)
       /\ UNCHANGED <<interface, job>>
    \/ /\ handles[p] = NoHandle
       /\ Fault(p, "handle")
       /\ UNCHANGED <<inodes, contents, handles, interface, job>>

IoWrite(p) == interface[p] = "ob" /\ Writes(p)
linux_write(p) == interface[p] = "linux" /\ Writes(p)
w32_WriteFile(p) == interface[p] = "win32" /\ Writes(p)

\* Positions are unsigned and not compared with the size.
Seeks(p) ==
    \/ /\ handles[p] # NoHandle
       /\ \E off \in Offsets, base \in {0, handles[p].pos, inodes[handles[p].f].size} :
              /\ (base + off) % POSITIONS \in SeekTo
              /\ handles' = [handles EXCEPT ![p].pos = (base + off) % POSITIONS]
       /\ UNCHANGED <<inodes, contents, interface, last_error, job>>
    \/ /\ handles[p] = NoHandle
       /\ Fault(p, "handle")
       /\ UNCHANGED <<inodes, contents, handles, interface, job>>

linux_lseek(p) == interface[p] = "linux" /\ Seeks(p)
w32_SetFilePointer(p) == interface[p] = "win32" /\ Seeks(p)

Closes(p) ==
    /\ handles' = [handles EXCEPT ![p] = NoHandle]
    /\ IF handles[p] = NoHandle THEN Fault(p, "handle") ELSE UNCHANGED last_error
    /\ UNCHANGED <<inodes, contents, interface, job>>

IoClose(p) == interface[p] = "ob" /\ Closes(p)
linux_close(p) == interface[p] = "linux" /\ Closes(p)
w32_CloseHandle(p) == interface[p] = "win32" /\ Closes(p)

-----------------------------------------------------------------------------
(* The shell, with programs running between its reads and writes.  At this    *)
(* commit the only caller of its commands is the boot self-test, before any   *)
(* program runs: the model asks what they do beside programs.                 *)

\* copy_file up to its loop: both files open, the second made if it is not there.
CopyStart ==
    \E op \in {"cp", "mv"}, src, dst \in Files :
        /\ job = NoJob /\ src # dst
        /\ inodes[src].there
        /\ SharesCopied \/ OpenBy(src) \cup OpenBy(dst) = {}
        /\ inodes' = [inodes EXCEPT ![dst].there = TRUE]
        /\ job' = [op |-> op, src |-> src, dst |-> dst, spos |-> 0, dpos |-> 0,
                   buf |-> <<>>, stage |-> "read"]
        /\ UNCHANGED <<contents, handles, interface, last_error>>

CopyRead ==
    /\ job # NoJob /\ job.stage = "read"
    /\ LET r == tmpfs_file_read(inodes[job.src], job.spos, CHUNK)
       IN job' = [job EXCEPT !.spos = r.pos, !.buf = r.bytes,
                             !.stage = IF r.ret = 0 THEN "copied" ELSE "write"]
    /\ UNCHANGED <<inodes, contents, handles, interface, last_error>>

CopyWrite ==
    /\ job # NoJob /\ job.stage = "write"
    /\ \E fails \in BOOLEAN :
          LET w == tmpfs_file_write(inodes[job.dst], job.dpos, job.buf, fails)
          IN /\ Write(job.dst, job.dpos, job.buf, fails)
             /\ job' = [job EXCEPT !.dpos = w.pos, !.buf = <<>>,
                                   !.stage = IF w.ret < 0 \/ w.pos > COPY_LIMIT THEN "failed" ELSE "read"]
    /\ UNCHANGED <<handles, interface, last_error>>

Unlink(f) ==
    /\ inodes' = [inodes EXCEPT ![f] = NoInode]
    /\ contents' = [contents EXCEPT ![f] = <<>>]

\* Mutant: mv takes the source away whatever the copy returned.
cmd_mv_AnyResult ==
    /\ job # NoJob /\ job.op = "mv" /\ job.stage \in {"copied", "failed"}
    /\ Unlink(job.src)
    /\ job' = NoJob
    /\ UNCHANGED <<handles, interface, last_error>>

cmd_mv ==
    /\ job # NoJob /\ job.op = "mv" /\ job.stage \in {"copied", "failed"}
    /\ IF job.stage = "copied" THEN Unlink(job.src) ELSE UNCHANGED <<inodes, contents>>
    /\ job' = NoJob
    /\ UNCHANGED <<handles, interface, last_error>>

cmd_cp ==
    /\ job # NoJob /\ job.op = "cp" /\ job.stage \in {"copied", "failed"}
    /\ job' = NoJob
    /\ UNCHANGED <<inodes, contents, handles, interface, last_error>>

\* rm and DeleteFile of a file nobody has open.
cmd_rm ==
    \E f \in Files :
        /\ inodes[f].there /\ OpenBy(f) = {} /\ ~Copying(f)
        /\ Unlink(f)
        /\ UNCHANGED <<handles, interface, last_error, job>>

FileIoNext ==
    \/ \E p \in Progs : \/ IoOpen(p) \/ IoRead(p) \/ IoWrite(p) \/ IoClose(p)
                        \/ linux_open(p) \/ linux_read(p) \/ linux_write(p)
                        \/ linux_lseek(p) \/ linux_close(p)
                        \/ win32_create_file_common(p) \/ w32_ReadFile(p) \/ w32_WriteFile(p)
                        \/ w32_SetFilePointer(p) \/ w32_CloseHandle(p)
    \/ CopyStart \/ CopyRead \/ CopyWrite \/ cmd_cp \/ cmd_mv \/ cmd_rm

FileIoSpec == FileIoInit /\ [][FileIoNext]_io_vars

-----------------------------------------------------------------------------
(* Whatever was written through whichever handle is what a read at any position *)
(* finds, over buffers that grow, gaps behind the end and writes that failed:   *)
(* no byte a program did not write ever shows, except the zeros of a gap.       *)
ContentsHold ==
    \A f \in Files, pos \in 0..MAX_SIZE :
        tmpfs_file_read(inodes[f], pos, MAX_SIZE).bytes = SubSeq(contents[f], pos + 1, Len(contents[f]))

(* mv takes the source away only when all it held is at the destination, which *)
(* may keep a longer tail of its own.                                           *)
MovesLoseNothing ==
    \A f \in Files :
        inodes[f].there /\ ~inodes'[f].there /\ Copying(f) => IsPrefix(contents[f], contents'[job.dst])

FilesTrue == []ContentsHold /\ [][MovesLoseNothing]_io_vars

=============================================================================
