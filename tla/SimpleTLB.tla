------------------------------ MODULE SimpleTLB -----------------------------
(***************************************************************************)
(* The fully associative TLB of tlb.h and tlb_mng.c.  A linked list of the *)
(* line numbers is its replacement order: a line is moved to the back when *)
(* it is used, and the line at the front is overwritten on a miss.  Each   *)
(* call of the sequential program is one step.  Virtual pages are numbers  *)
(* and the tag is the whole number; the page offset is left out.           *)
(***************************************************************************)
EXTENDS LinkedList

CONSTANTS
  TLB_LINES,    \* 128
  MaxVpn,       \* the virtual pages are 0 .. MaxVpn (2^36 - 1)
  PageNums,     \* physical page numbers
  NoPage,       \* what a walk that fails gives
  PageTable,    \* what page_walk finds for each virtual page
  Searches      \* the pages a caller may search

VARIABLES tlb, ll,
          ret   \* the last search: its page and what it gave

vars == <<tlb, ll, ret>>

LineIdx == 0 .. (TLB_LINES - 1)
Vpn == 0 .. MaxVpn
Entry == [v : {0, 1}, tag : Vpn, ppn : PageNums]
ZeroEntry == [v |-> 0, tag |-> 0, ppn |-> 0]

\* tlb_entry_init.
EntryInit(vpn, ppn) == [v |-> 1, tag |-> vpn, ppn |-> ppn]

\* What a malloc of a list node may give.
Mallocs == (Nodes \ DOMAIN ll.node) \cup {NULL}

Matches(n, vpn) == LET e == tlb[ll.node[n].value] IN e.tag = vpn /\ e.v = 1

Hits_AnyTag(vpn) ==  \* mutant: the tag is not compared
  {k \in DOMAIN Backward(ll) : tlb[ll.node[Backward(ll)[k]].value].v = 1}

Hits(vpn) == {k \in DOMAIN Backward(ll) : Matches(Backward(ll)[k], vpn)}

\* tlb_hit scans from the back and stops at the first node that matches.
HitNode(vpn) == Backward(ll)[CHOOSE k \in Hits(vpn) : \A j \in Hits(vpn) : k <= j]

Result(vpn, hit, ok, ppn) == [vpn |-> vpn, hit |-> hit, ok |-> ok, ppn |-> ppn]

-----------------------------------------------------------------------------
Found_NoMove(vpn) ==  \* mutant: a hit does not move its line
  /\ Hits(vpn) # {}
  /\ ret' = Result(vpn, 1, TRUE, tlb[ll.node[HitNode(vpn)].value].ppn)
  /\ UNCHANGED <<tlb, ll>>

\* tlb_search on a hit: tlb_hit moves the line to the back.
Found(vpn) ==
  /\ Hits(vpn) # {}
  /\ \E new \in Mallocs : ll' = MoveBack(ll, HitNode(vpn), new)
  /\ ret' = Result(vpn, 1, TRUE, tlb[ll.node[HitNode(vpn)].value].ppn)
  /\ UNCHANGED tlb

Missed(vpn) == Hits(vpn) = {}

Walked_AfterMove(vpn) ==  \* mutant: the front is moved before it is overwritten
  /\ Missed(vpn) /\ PageTable[vpn] # NoPage
  /\ \E new \in Mallocs : ll' = MoveBack(ll, ll.front, new)
  /\ tlb' = [tlb EXCEPT ![ll'.node[ll'.front].value] = EntryInit(vpn, PageTable[vpn])]
  /\ ret' = Result(vpn, 0, TRUE, PageTable[vpn])

\* A miss: the line at the front is overwritten and moved to the back.
Walked(vpn) ==
  /\ Missed(vpn) /\ PageTable[vpn] # NoPage
  /\ tlb' = [tlb EXCEPT ![ll.node[ll.front].value] = EntryInit(vpn, PageTable[vpn])]
  /\ \E new \in Mallocs : ll' = MoveBack(ll, ll.front, new)
  /\ ret' = Result(vpn, 0, TRUE, PageTable[vpn])

\* The malloc of the entry fails: an error, but the walk has already set *paddr.
NoMemory(vpn) ==
  /\ Missed(vpn) /\ PageTable[vpn] # NoPage
  /\ ret' = Result(vpn, 0, FALSE, PageTable[vpn])
  /\ UNCHANGED <<tlb, ll>>

Fault_Writes(vpn) ==  \* mutant: *paddr is written before the check
  /\ Missed(vpn) /\ PageTable[vpn] = NoPage
  /\ ret' = Result(vpn, 0, FALSE, PageTable[vpn])
  /\ UNCHANGED <<tlb, ll>>

\* The walk fails: an error, and *paddr keeps the page of the search before.
Fault(vpn) ==
  /\ Missed(vpn) /\ PageTable[vpn] = NoPage
  /\ ret' = Result(vpn, 0, FALSE, ret.ppn)
  /\ UNCHANGED <<tlb, ll>>

Search(vpn) == Found(vpn) \/ Walked(vpn) \/ NoMemory(vpn) \/ Fault(vpn)

\* tlb_flush: the entries are cleared, their order stays.
Flush ==
  /\ tlb' = [i \in LineIdx |-> ZeroEntry]
  /\ UNCHANGED <<ll, ret>>

(***************************************************************************)
(* The driver flushes the TLB and pushes every line number on the list.    *)
(* The allocations it makes then are assumed to succeed.                   *)
(***************************************************************************)
FullList ==
  \E node \in [LineIdx -> Nodes] :
    LET filled[k \in 0 .. TLB_LINES] ==
          IF k = 0 THEN EmptyList ELSE PushBack(filled[k - 1], node[k - 1], k - 1)
    IN /\ \A i, j \in LineIdx : node[i] = node[j] => i = j
       /\ ll = filled[TLB_LINES]

Init ==
  /\ tlb = [i \in LineIdx |-> ZeroEntry]
  /\ FullList
  /\ ret = Result(0, 0, FALSE, 0)

Next == (\E vpn \in Searches : Search(vpn)) \/ Flush

Spec == Init /\ [][Next]_vars

ASSUME LinesAssumption ==
  /\ TLB_LINES \in Nat \ {0} /\ MaxVpn \in Nat
  /\ NULL \notin Nodes

ASSUME PageTableAssumption ==
  /\ 0 \in PageNums /\ NoPage \notin PageNums
  /\ PageTable \in [Vpn -> PageNums \cup {NoPage}]
  /\ Searches \subseteq Vpn

-----------------------------------------------------------------------------
\* The fields keep their ranges, after errors too.
TypeOK ==
  /\ tlb \in [LineIdx -> Entry]
  /\ ret \in [vpn : Vpn, hit : {0, 1}, ok : BOOLEAN, ppn : PageNums]

(***************************************************************************)
(* The shape of the list, through failed allocations too: its two          *)
(* directions agree (the search follows one, the replacement the other),   *)
(* it is never empty, for a miss dereferences its front, and no line       *)
(* number is on it twice.                                                  *)
(***************************************************************************)
ListOK ==
  /\ ~ IsEmpty(ll) /\ WellLinked(ll)
  /\ \A m, n \in DOMAIN ll.node : ll.node[m].value = ll.node[n].value => m = n
  /\ \A n \in DOMAIN ll.node : ll.node[n].value \in LineIdx

(***************************************************************************)
(* Every entry is what the page table says of its page, and so is what a   *)
(* successful search gives.                                                *)
(***************************************************************************)
Translated ==
  /\ \A i \in LineIdx : tlb[i].v = 1 => PageTable[tlb[i].tag] = tlb[i].ppn
  /\ ret.ok => PageTable[ret.vpn] = ret.ppn

(***************************************************************************)
(* The lines never used since the last flush come first in the order: no   *)
(* page is ever evicted while the list still has a line without one.       *)
(***************************************************************************)
FreeLinesFirst ==
  \A i, j \in DOMAIN Values(ll) :
    i < j /\ tlb[Values(ll)[i]].v = 1 => tlb[Values(ll)[j]].v = 1

(***************************************************************************)
(* Pushes at both ends, mixed in any order, of an empty list or of the     *)
(* list that the searches have left, agree on both of its directions       *)
(* (push_back, push_front).                                                *)
(***************************************************************************)
PushesBuildLists ==
  \A l \in {EmptyList, ll} : \A s \in Pushes(l) :
    WellLinked(Built(l, s)) /\ Values(Built(l, s)) = Expected(l, s)

(***************************************************************************)
(* clear_list frees every node of such a list once, and none before its    *)
(* loop has followed its next.                                             *)
(***************************************************************************)
ClearFreesEachOnce ==
  \A l \in {EmptyList, ll} : \A s \in Pushes(l) : FreesEachOnce(Built(l, s))

=============================================================================
