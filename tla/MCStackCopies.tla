--------------------------- MODULE MCStackCopies ----------------------------
(* Instances of StackCopies for TLC. *)
EXTENDS StackCopies, TLC

Alike == Permutations(Client) \union Permutations(Key)
=============================================================================
