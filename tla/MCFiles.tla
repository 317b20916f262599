---- MODULE MCFiles ----
\* The tree in memory and the file system on the disk share no variable, so an
\* initial state has one of them and their states add up.
EXTENDS Obfs, Vfs, TLC

VARIABLE present

Init == present \in {"disk", "memory"} /\ ObfsInit /\ VfsInit

Next ==
    \/ present = "disk" /\ ObfsNext /\ UNCHANGED <<vfs_vars, present>>
    \/ present = "memory" /\ VfsNext /\ UNCHANGED <<ovars, present>>

Spec == Init /\ [][Next]_<<ovars, vfs_vars, present>>

mcInodes == 0 .. 2
mcWrites == {<<0, 1>>, <<2, 2>>, <<3, 3>>}
mcPaths == {<<"a">>, <<"a", "b">>, <<"priv0", "p">>, <<"priv0", "p", "a">>}

mcSymmetry == Permutations(Names)
====
