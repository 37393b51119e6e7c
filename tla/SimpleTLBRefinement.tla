------------------------ MODULE SimpleTLBRefinement -------------------------
(***************************************************************************)
(* The simple TLB as an LRU TLB.  The free lines come first in the order   *)
(* (FreeLinesFirst), so the pages held are those of the lines after them,  *)
(* the one used last at the end.                                           *)
(***************************************************************************)
EXTENDS SimpleTLB

PageOf(line) == [page |-> tlb[line].tag, ppn |-> tlb[line].ppn]

FreeLines == Cardinality({k \in DOMAIN Values(ll) : tlb[Values(ll)[k]].v = 0})

Recent == [k \in 1 .. (Len(Values(ll)) - FreeLines) |-> PageOf(Values(ll)[FreeLines + k])]

Lru == INSTANCE LruTLB WITH Size <- TLB_LINES, recent <- Recent, size <- Len(Values(ll))

(***************************************************************************)
(* Least recently used replacement: through every order of hits, misses,   *)
(* flushes, failed walks and failed allocations, the list and the lines    *)
(* are those of an abstract LRU TLB.                                       *)
(***************************************************************************)
LruSpec == Lru!Spec

=============================================================================
