---------------------------- MODULE MCSimpleTLB -----------------------------
(***************************************************************************)
(* An instance of the simple TLB for TLC: 3 lines, 5 pages that compete    *)
(* for them, one of which has no translation, and one list node to spare,  *)
(* which a push_back needs.  The nodes are addresses that nothing          *)
(* compares, so they are symmetric.                                        *)
(***************************************************************************)
EXTENDS SimpleTLBRefinement, TLC

CONSTANTS p1, p2  \* physical pages other than page 0

MCPageNums == {0, p1, p2}
MCPageTable == [vpn \in Vpn |-> CASE vpn \in {0, 2} -> p1 [] vpn = 4 -> NoPage [] OTHER -> p2]
NodeSymmetry == Permutations(Nodes)

=============================================================================
