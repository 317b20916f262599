------------------------------ MODULE MCJournal ------------------------------
(* The journal on two blocks, which are interchangeable. *)
EXTENDS Journal, TLC

MCSymmetry == Permutations(Blocks)

\* Tails are told apart only where a property is about them.
OneTail == [body |-> 0, tail |-> 0]
AnyContents == Data
Matched == {d \in Data : d.body = d.tail}
=============================================================================
