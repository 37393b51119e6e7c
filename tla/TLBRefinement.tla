--------------------------- MODULE TLBRefinement ----------------------------
(***************************************************************************)
(* The hierarchy as an implementation of a single TLB: L2 alone decides    *)
(* every outcome, but for the pages an L1 finds and L2 does not.           *)
(***************************************************************************)
EXTENDS TLBHierarchy

\* What an L2 line holds, as a line of SingleTLB.
AbstractLine(i) ==
  IF l2[i].v = 1 THEN [page |-> PageOf(l2[i], i, L2Lines), ppn |-> l2[i].ppn]
  ELSE [page |-> -1, ppn |-> 0]

Single == INSTANCE SingleTLB WITH NumLines <- L2Lines,
                                  tlb <- [i \in Line2 |-> AbstractLine(i)],
                                  left <- [a \in {"INSTRUCTION", "DATA"} |-> Orphans(Own(a))]

(***************************************************************************)
(* Every behaviour of the hierarchy, seen through L2, the orphans and the  *)
(* results of the searches, is one of a single TLB that may leave a        *)
(* displaced page behind when it runs out of memory: an L1 hits when L2    *)
(* would not for such a page only, never with another translation, and     *)
(* flushing an L1 is invisible.                                            *)
(***************************************************************************)
SingleSpec == Single!Spec

=============================================================================
