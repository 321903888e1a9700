-------------------------- MODULE MCSubscriptionTable --------------------------
(***************************************************************************)
(* SubscriptionTable on a small instance.  All nodes but the one whose id  *)
(* is zero are interchangeable.                                            *)
(***************************************************************************)
EXTENDS SubscriptionTable, TLC

CONSTANTS n1, n2, n3

NodeSymmetry == Permutations(Nodes \ {Zero})

=============================================================================
