---------------------------- MODULE TLBHierarchy ----------------------------
(***************************************************************************)
(* The two-level TLB of tlb_hrchy.h and tlb_hrchy_mng.c: an instruction    *)
(* and a data L1 in front of one L2, all three direct-mapped, filled by a  *)
(* walk of the page table.  The program is sequential; each call of the    *)
(* public interface is one step.                                           *)
(*                                                                         *)
(* A virtual page number is a number: its low bits are the line, the rest  *)
(* the tag.  The page offset is only copied and is left out.  Definitions  *)
(* marked "mutant" are not used by the specification.                      *)
(***************************************************************************)
EXTENDS Integers

CONSTANTS
  L1Lines,      \* 16
  L2Lines,      \* 64
  VaddrRange,   \* 2^32: tlb_search_invalid rebuilds page numbers as uint32_t
  MaxVpn,       \* the virtual pages are 0 .. MaxVpn (2^36 - 1)
  PageNums,     \* physical page numbers
  NoPage,       \* what a walk that fails gives
  PageTable,    \* what page_walk finds for each virtual page
  Searches,     \* the searches a caller may issue: [access, vpn]
  Inserts,      \* entries a caller may insert itself: [tlb, line, vpn]
  Flushes       \* the TLBs a caller may flush again later

VARIABLES l1, l2,
          ret   \* the last search: what it was and what it gave

vars == <<l1, l2, ret>>

L1Kinds == {"L1_ITLB", "L1_DTLB"}
Vpn == 0 .. MaxVpn
Line1 == 0 .. (L1Lines - 1)
Line2 == 0 .. (L2Lines - 1)
Lines(tlb) == IF tlb = "L2_TLB" THEN L2Lines ELSE L1Lines

Entry(lines) == [v : {0, 1}, tag : 0 .. (MaxVpn \div lines), ppn : PageNums]
ZeroEntry == [v |-> 0, tag |-> 0, ppn |-> 0]
Zero(lines) == [i \in 0 .. (lines - 1) |-> ZeroEntry]

\* tlb_entry_init.
EntryInit(vpn, ppn, lines) == [v |-> 1, tag |-> vpn \div lines, ppn |-> ppn]

\* tlb_hit.
Hit(tlb, vpn, lines) ==
  LET e == tlb[vpn % lines] IN e.v = 1 /\ e.tag = vpn \div lines

Insert_TagOfL1(tlb, vpn, ppn, lines) ==  \* mutant: every entry gets an L1 tag
  [tlb EXCEPT ![vpn % lines] = EntryInit(vpn, ppn, L1Lines)]

Insert_NextLine(tlb, vpn, ppn, lines) ==  \* mutant: an off-by-one line index
  [tlb EXCEPT ![(vpn + 1) % lines] = EntryInit(vpn, ppn, lines)]

\* tlb_entry_init and tlb_insert, as tlb_search pairs them.
Insert(tlb, vpn, ppn, lines) == [tlb EXCEPT ![vpn % lines] = EntryInit(vpn, ppn, lines)]

Own(access) == IF access = "INSTRUCTION" THEN "L1_ITLB" ELSE "L1_DTLB"

\* (tag << BITS) | index, kept in 32 bits.
Vaddr(tag, index, lines) == (tag * lines + index) % VaddrRange

SearchInvalid_No(tlb, old, vpn) == tlb  \* mutant: the other L1 is left alone

SearchInvalid_Always(tlb, old, vpn) ==  \* mutant: the page numbers are not compared
  [tlb EXCEPT ![vpn % L1Lines].v = 0]

(***************************************************************************)
(* tlb_search_invalid: the L1 that is not the access's own loses the page  *)
(* that the L2 line about to be overwritten (old) holds.  Only the         *)
(* validity of the L1 entry is looked at.                                  *)
(***************************************************************************)
SearchInvalid(tlb, old, vpn) ==
  LET i == vpn % L1Lines
  IN IF /\ tlb[i].v = 1
        /\ Vaddr(tlb[i].tag, i, L1Lines) = Vaddr(old.tag, vpn % L2Lines, L2Lines)
     THEN [tlb EXCEPT ![i].v = 0] ELSE tlb

-----------------------------------------------------------------------------
(***************************************************************************)
(* tlb_search, by its outcomes.  Each entry it makes is a malloc of its    *)
(* own, and any of them may find no memory: the search then returns an     *)
(* error at once, and keeps what it changed before (the ...NoMemory...     *)
(* outcomes).                                                              *)
(***************************************************************************)
Result(access, vpn, hit, ok, ppn) ==
  [access |-> access, vpn |-> vpn, hit |-> hit, ok |-> ok, ppn |-> ppn]

L1Hit(access, vpn) ==
  /\ Hit(l1[Own(access)], vpn, L1Lines)
  /\ ret' = Result(access, vpn, 1, TRUE, l1[Own(access)][vpn % L1Lines].ppn)
  /\ UNCHANGED <<l1, l2>>

L2HitCond(access, vpn) == ~ Hit(l1[Own(access)], vpn, L1Lines) /\ Hit(l2, vpn, L2Lines)

\* On an L2 hit both branches fill the instruction TLB, whatever the access.
L2Hit(access, vpn) ==
  /\ L2HitCond(access, vpn)
  /\ LET ppn == l2[vpn % L2Lines].ppn
     IN /\ l1' = [l1 EXCEPT !["L1_ITLB"] = Insert(@, vpn, ppn, L1Lines)]
        /\ ret' = Result(access, vpn, 1, TRUE, ppn)
  /\ UNCHANGED l2

\* No memory for that entry: the hit is reported, with the error.
L2HitNoMemory(access, vpn) ==
  /\ L2HitCond(access, vpn)
  /\ ret' = Result(access, vpn, 1, FALSE, l2[vpn % L2Lines].ppn)
  /\ UNCHANGED <<l1, l2>>

Missed(access, vpn) == ~ Hit(l1[Own(access)], vpn, L1Lines) /\ ~ Hit(l2, vpn, L2Lines)

\* The L1s once tlb_search_invalid is done, before anything is filled.
Invalidated(access, vpn) ==
  [k \in L1Kinds |-> IF k = Own(access) THEN l1[k]
                      ELSE SearchInvalid(l1[k], l2[vpn % L2Lines], vpn)]

Walk_SkipL1(access, vpn) ==  \* mutant: only L2 is filled
  /\ Missed(access, vpn) /\ PageTable[vpn] # NoPage
  /\ l1' = Invalidated(access, vpn)
  /\ l2' = Insert(l2, vpn, PageTable[vpn], L2Lines)
  /\ ret' = Result(access, vpn, 0, TRUE, PageTable[vpn])

Walk_InvalidateAfter(access, vpn) ==  \* mutant: L2 is filled before the invalidation reads it
  /\ Missed(access, vpn) /\ PageTable[vpn] # NoPage
  /\ l2' = Insert(l2, vpn, PageTable[vpn], L2Lines)
  /\ l1' = [k \in L1Kinds |-> IF k = Own(access) THEN Insert(l1[k], vpn, PageTable[vpn], L1Lines)
                               ELSE SearchInvalid(l1[k], EntryInit(vpn, 0, L2Lines), vpn)]
  /\ ret' = Result(access, vpn, 0, TRUE, PageTable[vpn])

Walk(access, vpn) ==
  /\ Missed(access, vpn)
  /\ PageTable[vpn] # NoPage
  /\ l1' = [Invalidated(access, vpn) EXCEPT ![Own(access)] =
               Insert(l1[Own(access)], vpn, PageTable[vpn], L1Lines)]
  /\ l2' = Insert(l2, vpn, PageTable[vpn], L2Lines)
  /\ ret' = Result(access, vpn, 0, TRUE, PageTable[vpn])

\* No memory for the entry of L2: the page it holds is already invalidated.
WalkNoMemoryL2(access, vpn) ==
  /\ Missed(access, vpn)
  /\ PageTable[vpn] # NoPage
  /\ l1' = Invalidated(access, vpn)
  /\ ret' = Result(access, vpn, 0, FALSE, PageTable[vpn])
  /\ UNCHANGED l2

\* No memory for the entry of the own L1: the line of L2 is already overwritten.
WalkNoMemoryL1(access, vpn) ==
  /\ Missed(access, vpn)
  /\ PageTable[vpn] # NoPage
  /\ l1' = Invalidated(access, vpn)
  /\ l2' = Insert(l2, vpn, PageTable[vpn], L2Lines)
  /\ ret' = Result(access, vpn, 0, FALSE, PageTable[vpn])

\* The walk fails: an error, and *paddr keeps the page of the search before.
Fault(access, vpn) ==
  /\ Missed(access, vpn)
  /\ PageTable[vpn] = NoPage
  /\ ret' = Result(access, vpn, 0, FALSE, ret.ppn)
  /\ UNCHANGED <<l1, l2>>

Search(access, vpn) ==
  \/ L1Hit(access, vpn) \/ L2Hit(access, vpn) \/ L2HitNoMemory(access, vpn)
  \/ Walk(access, vpn) \/ WalkNoMemoryL2(access, vpn) \/ WalkNoMemoryL1(access, vpn)
  \/ Fault(access, vpn)

(***************************************************************************)
(* The rest of the interface, called directly.                             *)
(***************************************************************************)
\* page_walk, tlb_entry_init and tlb_insert at a line of the caller's choice.
InsertEntry(c) ==
  /\ c.line < Lines(c.tlb)
  /\ LET e == EntryInit(c.vpn, PageTable[c.vpn], Lines(c.tlb))
     IN IF c.tlb = "L2_TLB"
        THEN l2' = [l2 EXCEPT ![c.line] = e] /\ UNCHANGED l1
        ELSE l1' = [l1 EXCEPT ![c.tlb][c.line] = e] /\ UNCHANGED l2
  /\ UNCHANGED ret

\* tlb_flush.
Flush(k) ==
  /\ IF k = "L2_TLB" THEN l2' = Zero(L2Lines) /\ UNCHANGED l1
     ELSE l1' = [l1 EXCEPT ![k] = Zero(L1Lines)] /\ UNCHANGED l2
  /\ UNCHANGED ret

\* The test driver flushes the three TLBs and clears paddr before its searches.
Init ==
  /\ l1 = [k \in L1Kinds |-> Zero(L1Lines)]
  /\ l2 = Zero(L2Lines)
  /\ ret = Result("NONE", 0, 0, FALSE, 0)

Next ==
  \/ \E c \in Searches : Search(c.access, c.vpn)
  \/ \E c \in Inserts : InsertEntry(c)
  \/ \E k \in Flushes : Flush(k)

Spec == Init /\ [][Next]_vars

ASSUME GeometryAssumption ==
  /\ L1Lines \in Nat \ {0} /\ L2Lines \in Nat \ {0} /\ L2Lines % L1Lines = 0
  /\ VaddrRange \in Nat \ {0} /\ VaddrRange % L2Lines = 0 /\ MaxVpn \in Nat

ASSUME PageTableAssumption ==
  /\ 0 \in PageNums /\ NoPage \notin PageNums
  /\ PageTable \in [Vpn -> PageNums \cup {NoPage}]

ASSUME CallsAssumption ==
  /\ \A c \in Searches : c.access \in {"INSTRUCTION", "DATA"} /\ c.vpn \in Vpn
  /\ \A c \in Inserts : /\ c.tlb \in L1Kinds \cup {"L2_TLB"} /\ c.line \in Nat
                        /\ c.vpn \in Vpn /\ PageTable[c.vpn] # NoPage
  /\ Flushes \subseteq L1Kinds \cup {"L2_TLB"}

(***************************************************************************)
(* A caller that leaves the filling to tlb_search, as the test driver      *)
(* does, and flushes L2 never after the start.                             *)
(***************************************************************************)
SearchOnly == Inserts = {} /\ "L2_TLB" \notin Flushes

\* A caller that inserts an entry on the line of its page.
InsertsInPlace == \A c \in Inserts : c.line = c.vpn % Lines(c.tlb)

-----------------------------------------------------------------------------
TypeOK ==
  /\ l1 \in [L1Kinds -> [Line1 -> Entry(L1Lines)]]
  /\ l2 \in [Line2 -> Entry(L2Lines)]
  /\ ret \in [access : {"NONE", "INSTRUCTION", "DATA"}, vpn : Vpn, hit : {0, 1},
              ok : BOOLEAN, ppn : PageNums]

\* The page an entry is the translation of.
PageOf(e, index, lines) == e.tag * lines + index

(***************************************************************************)
(* Inclusion: a page that an L1 finds is in L2.  What breaks it is a page  *)
(* an L1 still finds and L2 no longer does, an orphan.                     *)
(***************************************************************************)
Orphans(k) == {vpn \in Vpn : Hit(l1[k], vpn, L1Lines) /\ ~ Hit(l2, vpn, L2Lines)}

(***************************************************************************)
(* A page becomes an orphan in one case only: a search that ran out of     *)
(* memory after it overwrote the line of L2 leaves in the L1 of its own    *)
(* access the page that L2 lost by it.  So the L1s stay included in L2     *)
(* until an allocation fails.  It rests on the order of tlb_search's miss  *)
(* path (the page that leaves L2 is looked for in the other L1 before L2   *)
(* is overwritten), and on L1 and L2 lines nesting, so that the own L1     *)
(* loses that page by itself.                                              *)
(***************************************************************************)
OnlyFailuresOrphan ==
  [][\A k \in L1Kinds : \A vpn \in Orphans(k)' \ Orphans(k) :
       /\ ~ ret'.ok /\ ret'.hit = 0 /\ k = Own(ret'.access)
       /\ vpn # ret'.vpn /\ vpn % L2Lines = ret'.vpn % L2Lines]_vars

(***************************************************************************)
(* Every entry any of the TLBs holds, however it got there, is what the    *)
(* page table says of its page, and so is what a successful search gives.  *)
(***************************************************************************)
Agrees(e, index, lines) ==
  LET vpn == PageOf(e, index, lines)
  IN e.v = 1 => vpn \in Vpn /\ PageTable[vpn] = e.ppn

Translated ==
  /\ \A k \in L1Kinds, i \in Line1 : Agrees(l1[k][i], i, L1Lines)
  /\ \A i \in Line2 : Agrees(l2[i], i, L2Lines)
  /\ ret.ok => PageTable[ret.vpn] = ret.ppn

(***************************************************************************)
(* When a line of L2 is overwritten, an entry of an L1 whose page L2 held  *)
(* loses its validity only if that page leaves L2: although                *)
(* tlb_search_invalid compares page numbers cut to 32 bits and does not    *)
(* ask whether the L2 entry is valid, no other page of L2 is ever hit by   *)
(* it.  (An orphan may be.)                                                *)
(***************************************************************************)
OnlyEvictedPagesInvalidated ==
  [][l2' # l2 => \A k \in L1Kinds, i \in Line1 :
       LET vpn == PageOf(l1[k][i], i, L1Lines)
       IN l1[k][i].v = 1 /\ l1'[k][i].v = 0 /\ Hit(l2, vpn, L2Lines)
            => ~ Hit(l2', vpn, L2Lines)]_vars

(***************************************************************************)
(* After a search that walked the page table and succeeded, the same       *)
(* search hits in the L1 of its access.                                    *)
(***************************************************************************)
WalkFillsOwnL1 ==
  [][ret' # ret /\ ret'.ok /\ ret'.hit = 0
       => Hit(l1'[Own(ret'.access)], ret'.vpn, L1Lines)]_vars

(***************************************************************************)
(* What the branch for data accesses computes a line of the data L1 for:   *)
(* a page found in L2 is afterwards in the L1 of its access.  The code     *)
(* puts it in the instruction TLB instead.                                 *)
(***************************************************************************)
HitsEndInOwnL1 ==
  [][ret' # ret /\ ret'.ok => Hit(l1'[Own(ret'.access)], ret'.vpn, L1Lines)]_vars

=============================================================================
