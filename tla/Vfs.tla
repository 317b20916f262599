--------------------------------- MODULE Vfs ---------------------------------
(***************************************************************************)
(* The name space of vfs.c over tmpfs.c: mounts, directories, files, and   *)
(* the private mount of every privilege 0 process (priv_iso.c, with the    *)
(* create and exit paths of task.c).                                       *)
(*                                                                         *)
(* System calls, task_create and task_exit run with interrupts off, so     *)
(* each is one step.  Memory may be short at every allocation.  Contents   *)
(* and descriptors do not matter here: inodes have no reference counts,    *)
(* and unlink, rmdir and umount free an inode whatever file is open on it. *)
(***************************************************************************)
EXTENDS Integers, Sequences, FiniteSets, SequencesExt

CONSTANTS Tasks,      \* processes of privilege 0, by pid
          EntryNames, \* names that programs use
          Paths,      \* paths that programs use, sequences of names
          MAX_INODES  \* bound: inodes at a time

ASSUME VfsAssumption ==
    /\ MAX_INODES \in Nat \ {0}
    /\ Tasks \cap EntryNames = {} /\ "priv0" \notin EntryNames \union Tasks
    /\ \A p \in Paths : p # << >> /\ Range(p) \subseteq EntryNames \union Tasks \union {"priv0"}

VARIABLES
    inodes,    \* the inodes in use: number -> [dir, children], the children
               \* a sequence of [name, inode]
    g_mounts,  \* sequence of [path, root], the last mount first
    live       \* the tasks that exist; the others may be created

vfs_vars == <<inodes, g_mounts, live>>

Priv0 == <<"priv0">>
MountPoint(t) == <<"priv0", t>>
EmptyInode(isDir) == [dir |-> isDir, children |-> << >>]

\* main.c mounts "/" before there is any process.
VfsInit ==
    /\ inodes = [i \in {1} |-> EmptyInode(TRUE)]
    /\ g_mounts = << [path |-> << >>, root |-> 1] >>
    /\ live = {}

-----------------------------------------------------------------------------
\* A name space is a record [inodes, g_mounts]; an operator returns the one
\* its call leaves behind.
Now == [inodes |-> inodes, g_mounts |-> g_mounts]

Under(fs, path) == {i \in DOMAIN fs.g_mounts : IsPrefix(fs.g_mounts[i].path, path)}

\* The mount a path is under: the longest.
find_mount_for(fs, path) ==
    fs.g_mounts[CHOOSE i \in Under(fs, path) :
                   \A j \in Under(fs, path) : Len(fs.g_mounts[j].path) <= Len(fs.g_mounts[i].path)]

\* tmpfs_find_child and tmpfs_lookup: 0 if dir is no directory or has no such child.
Child(fs, dir, name) ==
    IF dir = 0 \/ ~fs.inodes[dir].dir THEN 0
    ELSE LET c == SelectSeq(fs.inodes[dir].children, LAMBDA n : n.name = name)
         IN IF c = << >> THEN 0 ELSE c[1].inode

vfs_lookup(fs, path) ==
    LET m == find_mount_for(fs, path)
    IN FoldLeft(LAMBDA dir, name : Child(fs, dir, name), m.root,
                SubSeq(path, Len(m.path) + 1, Len(path)))

\* The directory a path is in, and its last name.
Parent(fs, path) ==
    LET dir == vfs_lookup(fs, Front(path))
    IN IF dir # 0 /\ fs.inodes[dir].dir THEN dir ELSE 0

CanAlloc(fs) == Cardinality(DOMAIN fs.inodes) < MAX_INODES
NewInode(fs) == CHOOSE i \in 1 .. MAX_INODES :
    i \notin DOMAIN fs.inodes /\ \A j \in 1 .. i - 1 : j \in DOMAIN fs.inodes

\* tmpfs_create, tmpfs_mkdir past their checks: the new child comes last.
Add(fs, dir, name, isDir) ==
    LET i == NewInode(fs)
        list == Append(fs.inodes[dir].children, [name |-> name, inode |-> i])
    IN [g_mounts |-> fs.g_mounts,
        inodes |-> [j \in DOMAIN fs.inodes \union {i} |->
            CASE j = i -> EmptyInode(isDir)
              [] j = dir -> [dir |-> TRUE, children |-> list]
              [] OTHER -> fs.inodes[j]]]

\* tmpfs_remove_child.
Kept(children, name) ==
    SelectSeq(children, LAMBDA n : n.name # name)

\* tmpfs_unlink, tmpfs_rmdir past their checks.
Drop(fs, dir, name) ==
    LET i == Child(fs, dir, name)
    IN [g_mounts |-> fs.g_mounts,
        inodes |-> [j \in DOMAIN fs.inodes \ {i} |->
            IF j = dir THEN [dir |-> TRUE, children |-> Kept(fs.inodes[dir].children, name)]
            ELSE fs.inodes[j]]]

\* vfs_mkdir; alloc is whether memory is there.
vfs_mkdir(fs, path, alloc) ==
    LET dir == Parent(fs, path)
    IN IF dir = 0 \/ Child(fs, dir, Last(path)) # 0 \/ ~alloc \/ ~CanAlloc(fs)
       THEN fs ELSE Add(fs, dir, Last(path), TRUE)

vfs_rmdir(fs, path) ==
    LET dir == Parent(fs, path)
        i == Child(fs, dir, Last(path))
    IN IF dir = 0 \/ i = 0 \/ ~fs.inodes[i].dir \/ fs.inodes[i].children # << >>
       THEN fs ELSE Drop(fs, dir, Last(path))

vfs_unlink(fs, path) ==
    LET dir == Parent(fs, path)
        i == Child(fs, dir, Last(path))
    IN IF dir = 0 \/ i = 0 \/ fs.inodes[i].dir THEN fs ELSE Drop(fs, dir, Last(path))

IsMounted(fs, path) == \E i \in DOMAIN fs.g_mounts : fs.g_mounts[i].path = path

\* tmpfs_mount and vfs_mount: a new root, or the tmpfs is given back.
mount(fs, path) ==
    IF ~CanAlloc(fs) \/ IsMounted(fs, path) THEN fs
    ELSE LET i == NewInode(fs)
         IN [inodes |-> [j \in DOMAIN fs.inodes \union {i} |->
                           IF j = i THEN EmptyInode(TRUE) ELSE fs.inodes[j]],
             g_mounts |-> << [path |-> path, root |-> i] >> \o fs.g_mounts]

\* The inodes below one, itself included.
Tree(fs, i) ==
    LET tree[j \in DOMAIN fs.inodes] ==
            {j} \union UNION {tree[n.inode] : n \in Range(fs.inodes[j].children)}
    IN tree[i]

\* Mutant: the superblock's root goes alone.
Destroyed_Root(fs, root) == {root}
\* What tmpfs_destroy_sb frees.
Destroyed(fs, root) ==
    Tree(fs, root)

\* vfs_umount.
umount(fs, path) ==
    IF ~IsMounted(fs, path) THEN fs
    ELSE LET k == CHOOSE i \in DOMAIN fs.g_mounts : fs.g_mounts[i].path = path
             gone == Destroyed(fs, fs.g_mounts[k].root)
         IN [inodes |-> [j \in DOMAIN fs.inodes \ gone |-> fs.inodes[j]],
             g_mounts |-> RemoveAt(fs.g_mounts, k)]

\* priv0_umount_vfs: the mount, its mount point, and /priv0 if that was the last.
priv0_umount_vfs(fs, t) == vfs_rmdir(vfs_rmdir(umount(fs, MountPoint(t)), MountPoint(t)), Priv0)

Becomes(fs) == inodes' = fs.inodes /\ g_mounts' = fs.g_mounts

-----------------------------------------------------------------------------
\* Mutant: a creation that fails late leaves the mount to the next one.
Undo_Nothing(fs, t) == fs
\* What task_create does when thread_create fails.
Undo(fs, t) ==
    priv0_umount_vfs(fs, t)

\* task_create: priv0_mount_vfs and the rest; fails names the allocation
\* that fails, if one does.
CreateTask(t, fails) ==
    /\ t \notin live
    /\ LET fs1 == vfs_mkdir(Now, Priv0, fails # "priv0")
           fs2 == vfs_mkdir(fs1, MountPoint(t), fails # "dir")
           fs3 == mount(fs2, MountPoint(t))
       IN IF vfs_lookup(fs1, Priv0) = 0 THEN Becomes(fs1) /\ live' = live
          ELSE IF Child(fs2, Parent(fs2, MountPoint(t)), t) = 0 THEN Becomes(fs2) /\ live' = live
          ELSE IF fails = "tmpfs" \/ fs3 = fs2 THEN Becomes(fs2) /\ live' = live
          ELSE IF fails = "thread" THEN Becomes(Undo(fs3, t)) /\ live' = live
          ELSE Becomes(fs3) /\ live' = live \union {t}

\* task_exit, task_destroy.
Exit(t) ==
    /\ t \in live
    /\ Becomes(priv0_umount_vfs(Now, t))
    /\ live' = live \ {t}

\* vfs_open with VFS_O_CREAT.  The new file stays when memory or a
\* descriptor for the open file is missing.
OpenFile(path, alloc) ==
    /\ live # {}
    /\ LET dir == Parent(Now, path)
       IN Becomes(IF vfs_lookup(Now, path) = 0 /\ dir # 0 /\ alloc /\ CanAlloc(Now)
                  THEN Add(Now, dir, Last(path), FALSE) ELSE Now)
    /\ UNCHANGED live

Mkdir(path, alloc) == live # {} /\ Becomes(vfs_mkdir(Now, path, alloc)) /\ UNCHANGED live
Rmdir(path) == live # {} /\ Becomes(vfs_rmdir(Now, path)) /\ UNCHANGED live
Unlink(path) == live # {} /\ Becomes(vfs_unlink(Now, path)) /\ UNCHANGED live

VfsNext ==
    \/ \E t \in Tasks :
         \/ \E fails \in {"none", "priv0", "dir", "tmpfs", "thread"} : CreateTask(t, fails)
         \/ Exit(t)
    \/ \E path \in Paths :
         \/ \E alloc \in BOOLEAN : OpenFile(path, alloc) \/ Mkdir(path, alloc)
         \/ Rmdir(path) \/ Unlink(path)

VfsSpec == VfsInit /\ [][VfsNext]_vfs_vars

-----------------------------------------------------------------------------
Roots == {g_mounts[k].root : k \in DOMAIN g_mounts}

\* The inodes are the trees of the mounts, with one name for each and no
\* name twice in a directory: nothing leaks, dangles or is shared, through
\* failed creations and exits too (tmpfs.c).
TreeSound ==
    LET kids == [i \in DOMAIN inodes |-> {n.inode : n \in Range(inodes[i].children)}]
        tree == [r \in Roots |-> Tree(Now, r)]
    IN  /\ \A i \in DOMAIN inodes :
             /\ kids[i] \subseteq DOMAIN inodes
             /\ Cardinality(kids[i]) = Len(inodes[i].children)
             /\ Cardinality({n.name : n \in Range(inodes[i].children)}) = Len(inodes[i].children)
        /\ \A i, j \in DOMAIN inodes : i = j \/ kids[i] \cap kids[j] = {}
        /\ DOMAIN inodes = UNION {tree[r] : r \in Roots}
        /\ \A q, r \in Roots : q = r \/ tree[q] \cap tree[r] = {}

\* The mounts are "/" and one for each live process, under its own path,
\* and a path below that reaches its own tree; a process that failed to
\* start or has exited leaves none behind (priv_iso.c, task.c).
MountsTrue ==
    /\ Len(g_mounts) = 1 + Cardinality(live)
    /\ \A t \in live : \E k \in DOMAIN g_mounts :
         /\ g_mounts[k].path = MountPoint(t)
         /\ vfs_lookup(Now, MountPoint(t)) = g_mounts[k].root
         /\ \A path \in Paths : IsPrefix(MountPoint(t), path) =>
               vfs_lookup(Now, path) \in Tree(Now, g_mounts[k].root) \union {0}

\* The tree and the mounts of the processes (priv_iso.c, tmpfs.c, vfs.c).
TreeTrue == TreeSound /\ MountsTrue
=============================================================================
