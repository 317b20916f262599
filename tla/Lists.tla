-------------------------------- MODULE Lists --------------------------------
(***************************************************************************)
(* The linked lists of the kernel as sequences: what is left of one when   *)
(* nodes are unlinked.  Defined by counting, without a recursion, so that  *)
(* the proofs can use it.                                                  *)
(***************************************************************************)
EXTENDS Integers, Sequences, FiniteSets

\* How many of the indices K are at most i.
Rank(K, i) == Cardinality({j \in K : j <= i})

\* The list s without the members of T, in the same order.
Without(s, T) ==
    LET kept == {i \in DOMAIN s : s[i] \notin T}
    IN [k \in 1 .. Cardinality(kept) |-> s[CHOOSE i \in kept : Rank(kept, i) = k]]

==============================================================================
