-------------------------------- MODULE MCTLB -------------------------------
(***************************************************************************)
(* Instances of the TLB hierarchy for TLC: 2-line L1s, a 4-line L2 and 16  *)
(* virtual pages, of which uint32_t arithmetic tells 8 apart.              *)
(***************************************************************************)
EXTENDS TLBRefinement

CONSTANT p1, p2, p3  \* physical pages other than page 0

MCPageNums == {0, p1, p2, p3}

\* 0 and 8 agree modulo 8; 6 has no translation; 0, 4, 8 and 12 share every line.
MCPageTable == [vpn \in Vpn |->
  CASE vpn \in {0, 2} -> p1 [] vpn \in {8, 1, 3} -> p2 [] vpn = 6 -> NoPage [] OTHER -> p3]

MCSearches == [access : {"INSTRUCTION", "DATA"}, vpn : {0, 2, 4, 6, 8}]
                \cup {[access |-> "DATA", vpn |-> 1]}
NoInserts == {}
NoFlushes == {}
FlushL1 == L1Kinds
FlushAll == L1Kinds \cup {"L2_TLB"}

\* For the whole interface: fewer pages, and callers that insert and flush.
FewSearches == [access : {"INSTRUCTION", "DATA"}, vpn : {0, 4, 8, 6}]
MCInserts == {[tlb |-> "L1_DTLB", line |-> 0, vpn |-> 8],
              [tlb |-> "L2_TLB", line |-> 0, vpn |-> 4],
              [tlb |-> "L1_ITLB", line |-> 2, vpn |-> 0]}

=============================================================================
