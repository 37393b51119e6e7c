------------------------------ MODULE TLBProofs -----------------------------
(***************************************************************************)
(* Theorems about TLBHierarchy, for every number of lines that nest, every *)
(* page table and every width of the 32-bit comparison.                    *)
(***************************************************************************)
EXTENDS TLBRefinement, TLAPS

USE DEF L1Kinds

-----------------------------------------------------------------------------
(***************************************************************************)
(* Arithmetic: line and tag of a page, and the page of a line and a tag.   *)
(***************************************************************************)
LEMMA DivModFacts ==
  ASSUME NEW a \in Nat, NEW n \in Nat \ {0}
  PROVE  /\ a \div n \in Nat /\ a % n \in 0 .. (n - 1)
         /\ a = (a \div n) * n + (a % n)
  BY SMT

LEMMA PageFacts ==
  ASSUME NEW t \in Nat, NEW n \in Nat \ {0}, NEW i \in 0 .. (n - 1)
  PROVE  /\ t * n + i \in Nat
         /\ (t * n + i) % n = i /\ (t * n + i) \div n = t
  BY SMT

LEMMA DivMonotone ==
  ASSUME NEW a \in Nat, NEW b \in Nat, a <= b, NEW n \in Nat \ {0}
  PROVE  a \div n <= b \div n
  BY SMT

LEMMA ModShift ==
  ASSUME NEW b \in Nat, NEW k \in Nat, NEW n \in Nat \ {0}
  PROVE  (b + k * n) % n = b % n
<1> DEFINE q == b \div n
           r == b % n
<1>1. q \in Nat /\ r \in 0 .. (n - 1) /\ b = q * n + r
  BY DivModFacts
<1>2. q + k \in Nat /\ b + k * n = (q + k) * n + r
  BY <1>1, SMT
<1> HIDE DEF q, r
<1>3. (b + k * n) % n = r
  BY <1>1, <1>2, PageFacts
<1> QED
  BY <1>3 DEF r

\* A remainder keeps the remainders by the divisors of its modulus.
LEMMA ModMod ==
  ASSUME NEW a \in Nat, NEW n \in Nat \ {0}, NEW big \in Nat \ {0}, big % n = 0
  PROVE  (a % big) % n = a % n
<1> DEFINE m == big \div n
           q == a \div big
           r == a % big
           k == q * m
<1>1. m \in Nat /\ big = m * n
  <2>1. big = m * n + (big % n) /\ m \in Nat
    BY DivModFacts
  <2> HIDE DEF m
  <2> QED
    BY <2>1
<1>2. q \in Nat /\ r \in Nat /\ a = q * big + r
  BY DivModFacts
<1> HIDE DEF m, q, r
<1>3. k \in Nat /\ a = r + k * n
  BY <1>1, <1>2, SMT
<1> HIDE DEF k
<1>4. (r + k * n) % n = r % n
  BY <1>2, <1>3, ModShift, Zenon
<1> QED
  BY <1>3, <1>4 DEF r

\* L1Lines divides L2Lines, so pages that share a line of L2 share one of L1.
LEMMA LinesNest ==
  ASSUME NEW a \in Nat
  PROVE  (a % L2Lines) % L1Lines = a % L1Lines
  BY ModMod, GeometryAssumption

\* L2Lines divides VaddrRange, so the comparison in 32 bits sees the line of L2.
LEMMA VaddrNests ==
  ASSUME NEW a \in Nat
  PROVE  (a % VaddrRange) % L2Lines = a % L2Lines
  BY ModMod, GeometryAssumption

LEMMA LineFacts ==
  ASSUME NEW vpn \in Vpn
  PROVE  /\ vpn \in Nat /\ vpn % L1Lines \in Line1 /\ vpn % L2Lines \in Line2
         /\ (vpn % L2Lines) % L1Lines = vpn % L1Lines
<1>1. vpn \in Nat /\ L1Lines \in Nat \ {0} /\ L2Lines \in Nat \ {0}
  BY GeometryAssumption DEF Vpn
<1>2. vpn % L1Lines \in Line1 /\ vpn % L2Lines \in Line2
  BY <1>1, DivModFacts DEF Line1, Line2
<1> QED
  BY <1>1, <1>2, LinesNest

-----------------------------------------------------------------------------
(***************************************************************************)
(* Entries.  An entry that hits for a page on its line is an entry of it.  *)
(***************************************************************************)
LEMMA EntryInitFacts ==
  ASSUME NEW vpn \in Vpn, NEW ppn \in PageNums, NEW lines \in Nat \ {0}
  PROVE  /\ EntryInit(vpn, ppn, lines) \in Entry(lines)
         /\ PageOf(EntryInit(vpn, ppn, lines), vpn % lines, lines) = vpn
<1>1. vpn \in Nat /\ vpn \div lines \in 0 .. (MaxVpn \div lines)
  BY DivModFacts, DivMonotone, GeometryAssumption DEF Vpn
<1>2. vpn = (vpn \div lines) * lines + (vpn % lines)
  BY <1>1, DivModFacts
<1> QED
  BY <1>1, <1>2 DEF EntryInit, Entry, PageOf

LEMMA PageOfFacts ==
  ASSUME NEW lines \in Nat \ {0}, NEW e \in Entry(lines), NEW i \in 0 .. (lines - 1)
  PROVE  /\ PageOf(e, i, lines) \in Nat
         /\ PageOf(e, i, lines) % lines = i /\ PageOf(e, i, lines) \div lines = e.tag
<1>1. e.tag \in Nat
  BY DivModFacts, GeometryAssumption DEF Entry
<1> QED
  BY <1>1, PageFacts DEF PageOf

LEMMA HitFacts ==
  ASSUME NEW lines \in Nat \ {0}, NEW tlb \in [0 .. (lines - 1) -> Entry(lines)],
         NEW vpn \in Nat
  PROVE  /\ vpn % lines \in 0 .. (lines - 1)
         /\ Hit(tlb, vpn, lines)
              <=> tlb[vpn % lines].v = 1 /\ PageOf(tlb[vpn % lines], vpn % lines, lines) = vpn
<1> DEFINE i == vpn % lines
           e == tlb[i]
<1>1. i \in 0 .. (lines - 1) /\ vpn = (vpn \div lines) * lines + i
  BY DivModFacts
<1>2. e \in Entry(lines)
  BY <1>1
<1>3. PageOf(e, i, lines) = vpn <=> e.tag = vpn \div lines
  <2>1. PageOf(e, i, lines) = vpn => e.tag = vpn \div lines
    BY <1>1, <1>2, PageOfFacts
  <2>2. e.tag = vpn \div lines => PageOf(e, i, lines) = vpn
    BY <1>1 DEF PageOf
  <2> QED
    BY <2>1, <2>2
<1> QED
  BY <1>1, <1>3 DEF Hit

-----------------------------------------------------------------------------
(***************************************************************************)
(* Type correctness.                                                       *)
(***************************************************************************)
L1Type == [Line1 -> Entry(L1Lines)]

LEMMA ZeroFacts ==
  ASSUME NEW lines \in Nat \ {0}
  PROVE  Zero(lines) \in [0 .. (lines - 1) -> Entry(lines)]
<1>1. 0 \in 0 .. (MaxVpn \div lines)
  BY DivModFacts, GeometryAssumption
<1> QED
  BY <1>1, PageTableAssumption DEF Zero, ZeroEntry, Entry

LEMMA InsertType ==
  ASSUME NEW lines \in Nat \ {0}, NEW tlb \in [0 .. (lines - 1) -> Entry(lines)],
         NEW vpn \in Vpn, NEW ppn \in PageNums
  PROVE  Insert(tlb, vpn, ppn, lines) \in [0 .. (lines - 1) -> Entry(lines)]
  BY EntryInitFacts DEF Insert

LEMMA SearchInvalidType ==
  ASSUME NEW tlb \in L1Type, NEW old, NEW vpn
  PROVE  SearchInvalid(tlb, old, vpn) \in L1Type
<1> DEFINE i == vpn % L1Lines
<1> HIDE DEF i
<1>1. [tlb EXCEPT ![i].v = 0] \in L1Type
  BY DEF L1Type, Entry
<1> QED
  BY <1>1 DEF SearchInvalid, i

LEMMA SearchType ==
  ASSUME TypeOK, NEW c \in Searches, Search(c.access, c.vpn)
  PROVE  TypeOK'
<1> DEFINE a == c.access
           vpn == c.vpn
<1>1. a \in {"INSTRUCTION", "DATA"} /\ vpn \in Vpn /\ Own(a) \in L1Kinds
  BY CallsAssumption DEF Own
<1>2. /\ L1Lines \in Nat \ {0} /\ L2Lines \in Nat \ {0}
      /\ Line1 = 0 .. (L1Lines - 1) /\ Line2 = 0 .. (L2Lines - 1)
      /\ vpn % L1Lines \in Line1 /\ vpn % L2Lines \in Line2
  BY <1>1, GeometryAssumption, LineFacts DEF Line1, Line2
<1>3. l1 \in [L1Kinds -> L1Type] /\ l2 \in [Line2 -> Entry(L2Lines)] /\ ret.ppn \in PageNums
  BY DEF TypeOK, L1Type
<1> HIDE DEF a, vpn
<1>4. ASSUME NEW hit \in {0, 1}, NEW ok \in BOOLEAN, NEW ppn \in PageNums,
             ret' = Result(a, vpn, hit, ok, ppn)
      PROVE  ret' \in [access : {"NONE", "INSTRUCTION", "DATA"}, vpn : Vpn, hit : {0, 1},
                       ok : BOOLEAN, ppn : PageNums]
  BY <1>1, <1>4 DEF Result
<1>5. CASE L1Hit(a, vpn)
  <2>1. l1[Own(a)][vpn % L1Lines].ppn \in PageNums
    BY <1>1, <1>2, <1>3 DEF L1Type, Entry
  <2> QED
    BY <1>4, <1>5, <2>1 DEF L1Hit, TypeOK
<1>6. CASE L2Hit(a, vpn)
  <2>1. l2[vpn % L2Lines].ppn \in PageNums
    BY <1>2, <1>3 DEF Entry
  <2>2. Insert(l1["L1_ITLB"], vpn, l2[vpn % L2Lines].ppn, L1Lines) \in L1Type
    BY <1>1, <1>2, <1>3, <2>1, InsertType DEF L1Type
  <2>3. l1' \in [L1Kinds -> L1Type]
    BY <1>3, <1>6, <2>2 DEF L2Hit
  <2> QED
    BY <1>4, <1>6, <2>1, <2>3 DEF L2Hit, TypeOK, L1Type
<1>7. CASE L2HitNoMemory(a, vpn)
  <2>1. l2[vpn % L2Lines].ppn \in PageNums
    BY <1>2, <1>3 DEF Entry
  <2> QED
    BY <1>4, <1>7, <2>1 DEF L2HitNoMemory, TypeOK
<1>8. CASE Walk(a, vpn) \/ WalkNoMemoryL2(a, vpn) \/ WalkNoMemoryL1(a, vpn)
  <2>1. PageTable[vpn] \in PageNums
    BY <1>1, <1>8, PageTableAssumption DEF Walk, WalkNoMemoryL2, WalkNoMemoryL1
  <2>2. Invalidated(a, vpn) \in [L1Kinds -> L1Type]
    BY <1>3, SearchInvalidType DEF Invalidated
  <2>3. Insert(l1[Own(a)], vpn, PageTable[vpn], L1Lines) \in L1Type
    BY <1>1, <1>2, <1>3, <2>1, InsertType DEF L1Type
  <2>4. l1' \in [L1Kinds -> L1Type]
    BY <1>8, <2>2, <2>3 DEF Walk, WalkNoMemoryL2, WalkNoMemoryL1
  <2>5. Insert(l2, vpn, PageTable[vpn], L2Lines) \in [Line2 -> Entry(L2Lines)]
    BY <1>1, <1>2, <1>3, <2>1, InsertType
  <2>6. l2' \in [Line2 -> Entry(L2Lines)]
    BY <1>3, <1>8, <2>5 DEF Walk, WalkNoMemoryL2, WalkNoMemoryL1
  <2>7. \E ok \in BOOLEAN : ret' = Result(a, vpn, 0, ok, PageTable[vpn])
    BY <1>8 DEF Walk, WalkNoMemoryL2, WalkNoMemoryL1
  <2> QED
    BY <1>4, <2>1, <2>4, <2>6, <2>7 DEF TypeOK, L1Type
<1>9. CASE Fault(a, vpn)
  BY <1>3, <1>4, <1>9 DEF Fault, TypeOK
<1> QED
  BY <1>5, <1>6, <1>7, <1>8, <1>9 DEF Search, a, vpn

LEMMA TypeStep == TypeOK /\ [Next]_vars => TypeOK'
<1> SUFFICES ASSUME TypeOK, [Next]_vars PROVE TypeOK'
  OBVIOUS
<1>1. /\ L1Lines \in Nat \ {0} /\ L2Lines \in Nat \ {0}
      /\ Line1 = 0 .. (L1Lines - 1) /\ Line2 = 0 .. (L2Lines - 1)
  BY GeometryAssumption DEF Line1, Line2
<1>2. CASE \E c \in Searches : Search(c.access, c.vpn)
  BY <1>2, SearchType
<1>3. ASSUME NEW c \in Inserts, InsertEntry(c) PROVE TypeOK'
  <2>1. /\ c.tlb \in L1Kinds \cup {"L2_TLB"} /\ c.line \in Nat /\ c.vpn \in Vpn
        /\ PageTable[c.vpn] \in PageNums /\ Lines(c.tlb) \in Nat \ {0}
    BY <1>1, CallsAssumption, PageTableAssumption DEF Lines
  <2>2. EntryInit(c.vpn, PageTable[c.vpn], Lines(c.tlb)) \in Entry(Lines(c.tlb))
    BY <2>1, EntryInitFacts
  <2>3. CASE c.tlb = "L2_TLB"
    BY <1>1, <1>3, <2>1, <2>2, <2>3 DEF InsertEntry, TypeOK, Lines
  <2>4. CASE c.tlb # "L2_TLB"
    <3> DEFINE e == EntryInit(c.vpn, PageTable[c.vpn], Lines(c.tlb))
    <3>1. e \in Entry(L1Lines) /\ c.tlb \in L1Kinds /\ c.line \in Line1
      BY <1>1, <1>3, <2>1, <2>2, <2>4 DEF InsertEntry, Lines
    <3>2. l1' = [l1 EXCEPT ![c.tlb][c.line] = e] /\ UNCHANGED <<l2, ret>>
      BY <1>3, <2>4 DEF InsertEntry
    <3> HIDE DEF e
    <3> QED
      BY <3>1, <3>2 DEF TypeOK
  <2> QED
    BY <2>3, <2>4
<1>4. ASSUME NEW k \in Flushes, Flush(k) PROVE TypeOK'
  BY <1>1, <1>4, ZeroFacts DEF Flush, TypeOK
<1>5. CASE UNCHANGED vars
  BY <1>5 DEF vars, TypeOK
<1> QED
  BY <1>2, <1>3, <1>4, <1>5 DEF Next

LEMMA InitType == Init => TypeOK
<1>1. /\ L1Lines \in Nat \ {0} /\ L2Lines \in Nat \ {0} /\ 0 \in Vpn /\ 0 \in PageNums
      /\ Line1 = 0 .. (L1Lines - 1) /\ Line2 = 0 .. (L2Lines - 1)
  BY GeometryAssumption, PageTableAssumption DEF Line1, Line2, Vpn
<1> QED
  BY <1>1, ZeroFacts DEF Init, TypeOK, Result

(***************************************************************************)
(* Every field of every entry keeps its range, whatever the calls.         *)
(***************************************************************************)
THEOREM TypeCorrect == Spec => []TypeOK
  BY InitType, TypeStep, PTL DEF Spec

-----------------------------------------------------------------------------
(***************************************************************************)
(* Orphans: pages an L1 finds and L2 does not.  Of the searches only a     *)
(* walk takes anything out of L2; a page it takes out is on the L1 line of *)
(* the page searched, where the own L1 overwrites it and the other one     *)
(* compares it with the entry L2 still holds.                              *)
(***************************************************************************)
L2Type == [Line2 -> Entry(L2Lines)]

LEMMA Sizes ==
  /\ L1Lines \in Nat \ {0} /\ L2Lines \in Nat \ {0}
  /\ Line1 = 0 .. (L1Lines - 1) /\ Line2 = 0 .. (L2Lines - 1)
  BY GeometryAssumption DEF Line1, Line2

\* After an insertion the line holds the new page, the other lines what they held.
LEMMA HitAfterInsert ==
  ASSUME NEW lines \in Nat \ {0}, NEW tlb \in [0 .. (lines - 1) -> Entry(lines)],
         NEW vpn \in Vpn, NEW ppn \in PageNums, NEW x \in Vpn
  PROVE  Hit(Insert(tlb, vpn, ppn, lines), x, lines)
           <=> IF x % lines = vpn % lines THEN x = vpn ELSE Hit(tlb, x, lines)
<1> DEFINE new == Insert(tlb, vpn, ppn, lines)
           i == x % lines
<1>1. vpn \in Nat /\ x \in Nat /\ i \in 0 .. (lines - 1)
  BY DivModFacts DEF Vpn
<1>2. CASE i = vpn % lines
  <2>1. new[i] = EntryInit(vpn, ppn, lines)
    BY <1>1, <1>2 DEF Insert
  <2>2. PageOf(new[i], i, lines) = vpn /\ new[i].v = 1
    BY <1>2, <2>1, EntryInitFacts DEF EntryInit
  <2>3. new \in [0 .. (lines - 1) -> Entry(lines)]
    BY InsertType
  <2> HIDE DEF new
  <2>4. Hit(new, x, lines) <=> x = vpn
    BY <1>1, <2>2, <2>3, HitFacts
  <2> QED
    BY <1>2, <2>4 DEF new
<1>3. CASE i # vpn % lines
  <2>1. new[i] = tlb[i]
    BY <1>1, <1>3 DEF Insert
  <2> QED
    BY <1>3, <2>1 DEF Hit
<1> QED
  BY <1>2, <1>3

\* tlb_search_invalid only takes pages away ...
LEMMA SearchInvalidKeeps ==
  ASSUME NEW tlb \in L1Type, NEW old, NEW vpn, NEW x \in Vpn,
         Hit(SearchInvalid(tlb, old, vpn), x, L1Lines)
  PROVE  Hit(tlb, x, L1Lines)
<1> DEFINE i == x % L1Lines
           new == SearchInvalid(tlb, old, vpn)
<1>1. new = tlb \/ \E j : new = [tlb EXCEPT ![j].v = 0]
  BY DEF SearchInvalid
<1>2. new[i].v = 1 /\ new[i].tag = x \div L1Lines
  BY DEF Hit
<1> HIDE DEF new, i
<1>3. CASE new = tlb
  BY <1>2, <1>3 DEF Hit, i
<1>4. ASSUME NEW j, new = [tlb EXCEPT ![j].v = 0] PROVE Hit(tlb, x, L1Lines)
  <2>1. i \in Line1
    BY LineFacts DEF i
  <2>2. i # j
    BY <1>2, <1>4, <2>1 DEF L1Type, Entry
  <2> QED
    BY <1>2, <1>4, <2>1, <2>2 DEF L1Type, Hit, i
<1> QED
  BY <1>1, <1>3, <1>4

LEMMA SharedLine ==
  ASSUME NEW x \in Vpn, NEW vpn \in Vpn, x % L2Lines = vpn % L2Lines
  PROVE  x % L1Lines = vpn % L1Lines
  BY LineFacts

\* ... and takes away the page the line of L2 holds.
LEMMA SearchInvalidClears ==
  ASSUME NEW tlb1 \in L1Type, NEW tlb2 \in L2Type, NEW vpn \in Vpn, NEW x \in Vpn,
         x % L2Lines = vpn % L2Lines, Hit(tlb2, x, L2Lines)
  PROVE  ~ Hit(SearchInvalid(tlb1, tlb2[vpn % L2Lines], vpn), x, L1Lines)
<1> DEFINE i == vpn % L1Lines
           j == vpn % L2Lines
           old == tlb2[j]
           new == SearchInvalid(tlb1, old, vpn)
<1> SUFFICES ASSUME Hit(new, x, L1Lines) PROVE FALSE
  OBVIOUS
<1>1. x \in Nat /\ i \in Line1 /\ x % L1Lines = i
  BY LineFacts, SharedLine
<1>2. tlb1[i].v = 1 /\ PageOf(tlb1[i], i, L1Lines) = x
  <2>1. Hit(tlb1, x, L1Lines)
    BY SearchInvalidKeeps
  <2> HIDE DEF i
  <2> QED
    BY <1>1, <2>1, Sizes, HitFacts DEF L1Type
<1>3. PageOf(old, j, L2Lines) = x
  <2>1. PageOf(tlb2[x % L2Lines], x % L2Lines, L2Lines) = x
    BY <1>1, Sizes, HitFacts DEF L2Type
  <2> QED
    BY <2>1
<1>4. Vaddr(tlb1[i].tag, i, L1Lines) = Vaddr(old.tag, j, L2Lines)
  BY <1>2, <1>3 DEF Vaddr, PageOf
<1>5. new = [tlb1 EXCEPT ![i].v = 0]
  BY <1>2, <1>4 DEF SearchInvalid
<1> HIDE DEF i, new
<1>6. new[i].v = 0
  BY <1>1, <1>5 DEF L1Type, Entry
<1> QED
  BY <1>1, <1>6 DEF Hit

(***************************************************************************)
(* What a search does to the orphans: one is new only in the L1 of the     *)
(* access, when the search ran out of memory after it overwrote the line   *)
(* of L2 the page was on; and the page just loaded is none.                *)
(***************************************************************************)
LEMMA SearchOrphans ==
  ASSUME TypeOK, NEW c \in Searches, Search(c.access, c.vpn),
         NEW k \in L1Kinds, NEW x \in Orphans(k)'
  PROVE  /\ x \in Vpn
         /\ \/ x \in Orphans(k)
            \/ /\ WalkNoMemoryL1(c.access, c.vpn) /\ k = Own(c.access)
               /\ x % L2Lines = c.vpn % L2Lines /\ Hit(l2, x, L2Lines)
         /\ Walk(c.access, c.vpn) \/ WalkNoMemoryL1(c.access, c.vpn) => x # c.vpn
<1> DEFINE a == c.access
           vpn == c.vpn
           ppn == PageTable[vpn]
<1>1. a \in {"INSTRUCTION", "DATA"} /\ vpn \in Vpn /\ Own(a) \in L1Kinds
  BY CallsAssumption DEF Own
<1>2. x \in Vpn /\ Hit(l1'[k], x, L1Lines) /\ ~ Hit(l2', x, L2Lines)
  BY DEF Orphans
<1>3. l1 \in [L1Kinds -> L1Type] /\ l1[k] \in L1Type /\ l2 \in L2Type
  BY DEF TypeOK, L1Type, L2Type
<1> HIDE DEF a, vpn
<1>4. ASSUME Hit(l1[k], x, L1Lines), UNCHANGED l2 PROVE x \in Orphans(k)
  BY <1>2, <1>4 DEF Orphans
<1>5. CASE L1Hit(a, vpn) \/ L2HitNoMemory(a, vpn) \/ Fault(a, vpn)
  <2>1. UNCHANGED <<l1, l2>> /\ ~ Walk(a, vpn) /\ ~ WalkNoMemoryL1(a, vpn)
    BY <1>5 DEF L1Hit, L2HitNoMemory, L2HitCond, Fault, Walk, WalkNoMemoryL1, Missed
  <2> QED
    BY <1>2, <1>4, <2>1 DEF a, vpn
<1>6. CASE L2Hit(a, vpn)
  <2>1. /\ Hit(l2, vpn, L2Lines) /\ UNCHANGED l2
        /\ ~ Walk(a, vpn) /\ ~ WalkNoMemoryL1(a, vpn)
    BY <1>6 DEF L2Hit, L2HitCond, Walk, WalkNoMemoryL1, Missed
  <2> DEFINE p == l2[vpn % L2Lines].ppn
  <2>2. p \in PageNums
    BY <1>1, <1>3, LineFacts DEF L2Type, Entry
  <2>3. l1'[k] = l1[k] \/ l1'[k] = Insert(l1[k], vpn, p, L1Lines)
    BY <1>3, <1>6 DEF L2Hit
  <2> HIDE DEF p
  <2>4. CASE l1'[k] = Insert(l1[k], vpn, p, L1Lines)
    <3>1. x # vpn
      BY <1>2, <2>1
    <3>2. Hit(l1[k], x, L1Lines)
      BY <1>1, <1>2, <1>3, <2>2, <2>4, <3>1, Sizes, HitAfterInsert DEF L1Type
    <3> QED
      BY <1>2, <1>4, <2>1, <3>2 DEF a, vpn
  <2>5. CASE l1'[k] = l1[k]
    BY <1>2, <1>4, <2>1, <2>5 DEF a, vpn
  <2> QED
    BY <2>3, <2>4, <2>5
<1>7. CASE WalkNoMemoryL2(a, vpn)
  <2>1. UNCHANGED l2 /\ (l1'[k] = l1[k] \/ l1'[k] = SearchInvalid(l1[k], l2[vpn % L2Lines], vpn))
    BY <1>7 DEF WalkNoMemoryL2, Invalidated
  <2>2. Hit(l1[k], x, L1Lines)
    BY <1>2, <1>3, <2>1, SearchInvalidKeeps
  <2>3. x # vpn \/ (~ Walk(a, vpn) /\ ~ WalkNoMemoryL1(a, vpn))
    <3>1. ret'.ok = FALSE /\ ret'.ppn = ppn
      BY <1>7 DEF WalkNoMemoryL2, Result
    <3>2. ~ Walk(a, vpn)
      BY <3>1 DEF Walk, Result
    <3>3. WalkNoMemoryL1(a, vpn) => x # vpn
      <4>1. SUFFICES ASSUME WalkNoMemoryL1(a, vpn), x = vpn PROVE FALSE
        OBVIOUS
      <4>2. ppn \in PageNums /\ l2' = Insert(l2, vpn, ppn, L2Lines)
        BY <1>1, <4>1, PageTableAssumption DEF WalkNoMemoryL1
      <4> QED
        BY <1>1, <1>2, <1>3, <4>1, <4>2, Sizes, HitAfterInsert DEF L2Type
    <3> QED
      BY <3>2, <3>3
  <2> QED
    BY <1>2, <1>4, <2>1, <2>2, <2>3 DEF a, vpn
<1>8. CASE Walk(a, vpn) \/ WalkNoMemoryL1(a, vpn)
  <2>1. /\ ppn \in PageNums /\ l2' = Insert(l2, vpn, ppn, L2Lines)
        /\ ~ Hit(l2, vpn, L2Lines)
    BY <1>1, <1>8, PageTableAssumption DEF Walk, WalkNoMemoryL1, Missed
  <2>2. x # vpn /\ (x % L2Lines # vpn % L2Lines => ~ Hit(l2, x, L2Lines))
    BY <1>1, <1>2, <1>3, <2>1, Sizes, HitAfterInsert DEF L2Type
  <2>3. ASSUME k # Own(a) PROVE x \in Orphans(k)
    <3>1. l1'[k] = SearchInvalid(l1[k], l2[vpn % L2Lines], vpn)
      BY <1>1, <1>8, <2>3 DEF Walk, WalkNoMemoryL1, Invalidated
    <3>2. Hit(l1[k], x, L1Lines)
      BY <1>2, <1>3, <3>1, SearchInvalidKeeps
    <3>3. ~ Hit(l2, x, L2Lines)
      BY <1>1, <1>2, <1>3, <2>2, <3>1, SearchInvalidClears
    <3> QED
      BY <1>2, <3>2, <3>3 DEF Orphans
  <2>4. ASSUME k = Own(a), WalkNoMemoryL1(a, vpn), x \notin Orphans(k)
        PROVE  x % L2Lines = vpn % L2Lines /\ Hit(l2, x, L2Lines)
    <3>1. l1'[k] = l1[k]
      BY <1>1, <2>4 DEF WalkNoMemoryL1, Invalidated
    <3>2. Hit(l2, x, L2Lines)
      BY <1>2, <2>4, <3>1 DEF Orphans
    <3> QED
      BY <2>2, <3>2
  <2>5. ASSUME k = Own(a), Walk(a, vpn) PROVE x \in Orphans(k)
    <3>1. l1'[k] = Insert(l1[k], vpn, ppn, L1Lines)
      BY <1>1, <2>5 DEF Walk, Invalidated
    <3>2. Hit(l1[k], x, L1Lines) /\ x % L1Lines # vpn % L1Lines
      BY <1>1, <1>2, <1>3, <2>1, <2>2, <3>1, Sizes, HitAfterInsert DEF L1Type
    <3>3. ~ Hit(l2, x, L2Lines)
      BY <1>1, <1>2, <2>2, <3>2, SharedLine
    <3> QED
      BY <1>2, <3>2, <3>3 DEF Orphans
  <2> QED
    BY <1>2, <1>8, <2>2, <2>3, <2>4, <2>5 DEF a, vpn
<1> QED
  BY <1>5, <1>6, <1>7, <1>8 DEF Search, a, vpn

\* A flush of an L1 leaves no new orphan.
LEMMA FlushOrphans ==
  ASSUME TypeOK, NEW f \in L1Kinds, Flush(f), NEW k \in L1Kinds
  PROVE  Orphans(k)' \subseteq Orphans(k)
<1>1. l1 \in [L1Kinds -> L1Type] /\ UNCHANGED l2 /\ l1' = [l1 EXCEPT ![f] = Zero(L1Lines)]
  BY DEF TypeOK, L1Type, Flush
<1>2. SUFFICES ASSUME NEW x \in Vpn, Hit(l1'[k], x, L1Lines) PROVE Hit(l1[k], x, L1Lines)
  BY <1>1 DEF Orphans
<1>3. x % L1Lines \in Line1
  BY LineFacts
<1>4. l1'[k] # Zero(L1Lines)
  BY <1>2, <1>3, Sizes DEF Hit, Zero, ZeroEntry
<1> QED
  BY <1>1, <1>2, <1>4

\* A step of a caller that only searches and flushes L1s is one of three.
LEMMA SearchOnlySteps ==
  ASSUME SearchOnly, [Next]_vars
  PROVE  \/ \E c \in Searches : Search(c.access, c.vpn)
         \/ \E f \in L1Kinds : Flush(f)
         \/ UNCHANGED vars
  BY CallsAssumption DEF SearchOnly, Next

LEMMA StutterOrphans ==
  ASSUME UNCHANGED vars, NEW k PROVE Orphans(k)' = Orphans(k)
  BY DEF vars, Orphans

(***************************************************************************)
(* The L1s stay included in L2 but for what a failed allocation leaves:    *)
(* for callers that only search and flush L1s, a page becomes an orphan    *)
(* only in the L1 of a search that ran out of memory after it took the     *)
(* page out of L2.                                                         *)
(***************************************************************************)
THEOREM OrphansComeOfFailures == SearchOnly => (Spec => OnlyFailuresOrphan)
<1> SUFFICES ASSUME SearchOnly PROVE Spec => OnlyFailuresOrphan
  OBVIOUS
<1> DEFINE A == \A k \in L1Kinds : \A vpn \in Orphans(k)' \ Orphans(k) :
                  /\ ~ ret'.ok /\ ret'.hit = 0 /\ k = Own(ret'.access)
                  /\ vpn # ret'.vpn /\ vpn % L2Lines = ret'.vpn % L2Lines
<1>1. TypeOK /\ [Next]_vars => TypeOK'
  BY TypeStep
<1>2. TypeOK /\ [Next]_vars => [A]_vars
  <2> SUFFICES ASSUME TypeOK, [Next]_vars, NEW k \in L1Kinds,
                      NEW vpn \in Orphans(k)' \ Orphans(k)
               PROVE  /\ ~ ret'.ok /\ ret'.hit = 0 /\ k = Own(ret'.access)
                      /\ vpn # ret'.vpn /\ vpn % L2Lines = ret'.vpn % L2Lines
    OBVIOUS
  <2>1. PICK c \in Searches : Search(c.access, c.vpn)
    BY SearchOnlySteps, FlushOrphans, StutterOrphans
  <2>2. /\ WalkNoMemoryL1(c.access, c.vpn) /\ k = Own(c.access)
        /\ vpn % L2Lines = c.vpn % L2Lines /\ vpn # c.vpn
    BY <2>1, SearchOrphans
  <2> QED
    BY <2>2 DEF WalkNoMemoryL1, Result
<1> QED
  BY <1>1, <1>2, InitType, PTL DEF Spec, OnlyFailuresOrphan

\* No page an L1 finds is missing from L2.
Inclusion == \A k \in L1Kinds : Orphans(k) = {}

(***************************************************************************)
(* As long as no search runs out of memory after it overwrote a line of    *)
(* L2, every page an L1 finds is in L2.                                    *)
(***************************************************************************)
THEOREM InclusionWhileMemoryLasts ==
  SearchOnly =>
    (Spec /\ [][\A c \in Searches : ~ WalkNoMemoryL1(c.access, c.vpn)]_vars => []Inclusion)
<1> DEFINE Lasts == \A c \in Searches : ~ WalkNoMemoryL1(c.access, c.vpn)
           I == TypeOK /\ Inclusion
<1> SUFFICES ASSUME SearchOnly PROVE Spec /\ [][Lasts]_vars => []Inclusion
  OBVIOUS
<1>1. Init => I
  <2>1. Init => Inclusion
    BY Sizes, LineFacts DEF Init, Inclusion, Orphans, Hit, Zero, ZeroEntry
  <2> QED
    BY <2>1, InitType
<1>2. I /\ [Next]_vars /\ [Lasts]_vars => I'
  <2> SUFFICES ASSUME I, [Next]_vars, [Lasts]_vars PROVE Inclusion'
    BY TypeStep
  <2>1. CASE \E f \in L1Kinds : Flush(f)
    BY <2>1, FlushOrphans DEF Inclusion
  <2>2. CASE UNCHANGED vars
    BY <2>2, StutterOrphans DEF Inclusion
  <2>3. ASSUME Lasts, NEW c \in Searches, Search(c.access, c.vpn) PROVE Inclusion'
    BY <2>3, SearchOrphans DEF Inclusion
  <2> QED
    BY <2>1, <2>2, <2>3, SearchOnlySteps
<1>3. I => Inclusion
  OBVIOUS
<1> QED
  BY <1>1, <1>2, <1>3, PTL DEF Spec

-----------------------------------------------------------------------------
(***************************************************************************)
(* Invalidations.                                                          *)
(***************************************************************************)
LEMMA ClearedIsEvicted ==
  ASSUME NEW tlb1 \in L1Type, NEW tlb2 \in L2Type, NEW vpn \in Vpn, NEW ppn \in PageNums,
         ~ Hit(tlb2, vpn, L2Lines), NEW i \in Line1,
         tlb1[i].v = 1, Hit(tlb2, PageOf(tlb1[i], i, L1Lines), L2Lines),
         SearchInvalid(tlb1, tlb2[vpn % L2Lines], vpn)[i].v = 0
  PROVE  ~ Hit(Insert(tlb2, vpn, ppn, L2Lines), PageOf(tlb1[i], i, L1Lines), L2Lines)
<1> DEFINE p == PageOf(tlb1[i], i, L1Lines)
           j == vpn % L2Lines
           old == tlb2[j]
           new == Insert(tlb2, vpn, ppn, L2Lines)
<1>1. /\ vpn \in Nat /\ j \in Line2 /\ vpn % L1Lines \in Line1
      /\ tlb1[i] \in Entry(L1Lines) /\ old \in Entry(L2Lines)
  BY LineFacts DEF L1Type, L2Type
<1>2. p \in Nat /\ PageOf(old, j, L2Lines) \in Nat /\ PageOf(old, j, L2Lines) % L2Lines = j
  BY <1>1, Sizes, PageOfFacts
<1>3. i = vpn % L1Lines /\ Vaddr(tlb1[i].tag, i, L1Lines) = Vaddr(old.tag, j, L2Lines)
  <2>1. SearchInvalid(tlb1, old, vpn) # tlb1
    OBVIOUS
  <2>2. CASE i # vpn % L1Lines
    BY <1>1, <2>2 DEF SearchInvalid, L1Type
  <2> QED
    BY <2>1, <2>2 DEF SearchInvalid
<1>4. p % VaddrRange = PageOf(old, j, L2Lines) % VaddrRange
  BY <1>3 DEF Vaddr, PageOf
<1>5. p % L2Lines = j
  BY <1>2, <1>4, VaddrNests
<1>6. Hit(tlb2, p, L2Lines)
  OBVIOUS
<1>7. p # vpn
  BY <1>6
<1>8. new \in L2Type /\ new[j] = EntryInit(vpn, ppn, L2Lines)
  BY <1>1, Sizes, InsertType DEF Insert, L2Type
<1>9. PageOf(new[j], j, L2Lines) = vpn
  BY <1>8, Sizes, EntryInitFacts
<1> HIDE DEF p, j, new
<1> QED
  <2>1. Hit(new, p, L2Lines) => PageOf(new[p % L2Lines], p % L2Lines, L2Lines) = p
    BY <1>2, <1>8, Sizes, HitFacts DEF L2Type
  <2>2. ~ Hit(new, p, L2Lines)
    BY <1>5, <1>7, <1>9, <2>1
  <2> QED
    BY <2>2 DEF p, new

(***************************************************************************)
(* Whatever the caller does, an L1 entry whose page L2 holds is            *)
(* invalidated, when a line of L2 is overwritten, only if its page leaves  *)
(* L2: whatever the width of the comparison (as long as it covers the L2   *)
(* line) and whether or not the L2 entry is valid.                         *)
(***************************************************************************)
THEOREM InvalidatesEvictedOnly == Spec => OnlyEvictedPagesInvalidated
<1> DEFINE A == l2' # l2 => \A k \in L1Kinds, i \in Line1 :
                  LET vpn == PageOf(l1[k][i], i, L1Lines)
                  IN l1[k][i].v = 1 /\ l1'[k][i].v = 0 /\ Hit(l2, vpn, L2Lines)
                       => ~ Hit(l2', vpn, L2Lines)
<1>1. TypeOK /\ [Next]_vars => TypeOK'
  BY TypeStep
<1>2. TypeOK /\ [Next]_vars => [A]_vars
  <2> SUFFICES ASSUME TypeOK, Next, l2' # l2, NEW k \in L1Kinds, NEW i \in Line1,
                      l1[k][i].v = 1, l1'[k][i].v = 0,
                      Hit(l2, PageOf(l1[k][i], i, L1Lines), L2Lines)
               PROVE  ~ Hit(l2', PageOf(l1[k][i], i, L1Lines), L2Lines)
    OBVIOUS
  <2>1. PICK c \in Searches : Search(c.access, c.vpn)
    <3>1. ~ UNCHANGED l1
      OBVIOUS
    <3>2. ASSUME NEW c \in Inserts, InsertEntry(c) PROVE FALSE
      BY <3>1, <3>2 DEF InsertEntry
    <3>3. ASSUME NEW f \in Flushes, Flush(f) PROVE FALSE
      BY <3>1, <3>3 DEF Flush
    <3> QED
      BY <3>2, <3>3 DEF Next
  <2>2. c.vpn \in Vpn
    BY CallsAssumption
  <2>3. l1 \in [L1Kinds -> L1Type] /\ l1[k] \in L1Type /\ l2 \in L2Type
    BY DEF TypeOK, L1Type, L2Type
  <2>4. /\ l2' = Insert(l2, c.vpn, PageTable[c.vpn], L2Lines)
        /\ ~ Hit(l2, c.vpn, L2Lines) /\ PageTable[c.vpn] \in PageNums
        /\ \/ l1'[k] = Insert(l1[k], c.vpn, PageTable[c.vpn], L1Lines)
           \/ l1'[k] = l1[k]
           \/ l1'[k] = SearchInvalid(l1[k], l2[c.vpn % L2Lines], c.vpn)
    <3>1. Walk(c.access, c.vpn) \/ WalkNoMemoryL1(c.access, c.vpn)
      BY <2>1 DEF Search, L1Hit, L2Hit, L2HitNoMemory, WalkNoMemoryL2, Fault
    <3> QED
      BY <2>2, <3>1, PageTableAssumption DEF Walk, WalkNoMemoryL1, Missed, Invalidated
  <2>5. l1'[k] = SearchInvalid(l1[k], l2[c.vpn % L2Lines], c.vpn)
    BY <2>3, <2>4 DEF Insert, EntryInit, L1Type
  <2> QED
    BY <2>2, <2>3, <2>4, <2>5, ClearedIsEvicted
<1> QED
  BY <1>1, <1>2, InitType, PTL DEF Spec, OnlyEvictedPagesInvalidated

-----------------------------------------------------------------------------
(***************************************************************************)
(* Translations.                                                           *)
(***************************************************************************)
L1Agrees(tlb) == \A i \in Line1 : Agrees(tlb[i], i, L1Lines)

\* A new entry agrees with the page table it comes from.
LEMMA InsertAgrees ==
  ASSUME NEW lines \in Nat \ {0}, NEW tlb \in [0 .. (lines - 1) -> Entry(lines)],
         NEW vpn \in Vpn, NEW ppn \in PageNums, PageTable[vpn] = ppn,
         NEW i \in 0 .. (lines - 1), Agrees(tlb[i], i, lines)
  PROVE  Agrees(Insert(tlb, vpn, ppn, lines)[i], i, lines)
<1>1. CASE i = vpn % lines
  <2>1. Insert(tlb, vpn, ppn, lines)[i] = EntryInit(vpn, ppn, lines)
    BY <1>1 DEF Insert
  <2>2. PageOf(EntryInit(vpn, ppn, lines), i, lines) = vpn
    BY <1>1, EntryInitFacts
  <2>3. EntryInit(vpn, ppn, lines).ppn = ppn
    BY DEF EntryInit
  <2> QED
    BY <2>1, <2>2, <2>3 DEF Agrees
<1>2. CASE i # vpn % lines
  BY <1>2 DEF Insert
<1> QED
  BY <1>1, <1>2

\* What a hit gives is the translation of the page asked for.
LEMMA HitAgrees ==
  ASSUME NEW lines \in Nat \ {0}, NEW tlb \in [0 .. (lines - 1) -> Entry(lines)],
         NEW vpn \in Vpn, Hit(tlb, vpn, lines),
         \A i \in 0 .. (lines - 1) : Agrees(tlb[i], i, lines)
  PROVE  PageTable[vpn] = tlb[vpn % lines].ppn
<1>1. vpn \in Nat
  BY DEF Vpn
<1>2. /\ vpn % lines \in 0 .. (lines - 1) /\ tlb[vpn % lines].v = 1
      /\ PageOf(tlb[vpn % lines], vpn % lines, lines) = vpn
  BY <1>1, HitFacts
<1> QED
  BY <1>2 DEF Agrees

LEMMA SearchInvalidAgrees ==
  ASSUME NEW tlb \in L1Type, L1Agrees(tlb), NEW old, NEW vpn
  PROVE  L1Agrees(SearchInvalid(tlb, old, vpn))
<1> SUFFICES ASSUME NEW i \in Line1 PROVE Agrees(SearchInvalid(tlb, old, vpn)[i], i, L1Lines)
  BY DEF L1Agrees
<1>1. SearchInvalid(tlb, old, vpn)[i] = tlb[i] \/ SearchInvalid(tlb, old, vpn)[i].v = 0
  BY DEF SearchInvalid, L1Type, Entry
<1> QED
  BY <1>1 DEF L1Agrees, Agrees

LEMMA ZeroAgrees ==
  ASSUME NEW lines \in Nat \ {0}, NEW i \in 0 .. (lines - 1)
  PROVE  Agrees(Zero(lines)[i], i, lines)
  BY DEF Agrees, Zero, ZeroEntry

LEMMA SearchTranslated ==
  ASSUME TypeOK, Translated, NEW c \in Searches, Search(c.access, c.vpn)
  PROVE  Translated'
<1> DEFINE a == c.access
           vpn == c.vpn
           ppn == PageTable[vpn]
<1>1. a \in {"INSTRUCTION", "DATA"} /\ vpn \in Vpn /\ Own(a) \in L1Kinds
  BY CallsAssumption DEF Own
<1>2. /\ l1 \in [L1Kinds -> L1Type] /\ l2 \in L2Type
      /\ \A k \in L1Kinds : l1[k] \in L1Type /\ L1Agrees(l1[k])
      /\ \A i \in Line2 : Agrees(l2[i], i, L2Lines)
  BY DEF TypeOK, Translated, L1Type, L2Type, L1Agrees
<1>3. ASSUME \A k \in L1Kinds : L1Agrees(l1'[k]),
             \A i \in Line2 : Agrees(l2'[i], i, L2Lines),
             ret'.ok => PageTable[ret'.vpn] = ret'.ppn
      PROVE  Translated'
  BY <1>3 DEF Translated, L1Agrees, Agrees
<1>4. ASSUME NEW tlb \in L1Type, L1Agrees(tlb), ppn \in PageNums
      PROVE  L1Agrees(Insert(tlb, vpn, ppn, L1Lines))
  BY <1>1, <1>4, Sizes, InsertAgrees DEF L1Agrees, L1Type
<1> HIDE DEF a, vpn
<1>5. CASE L1Hit(a, vpn)
  <2>1. PageTable[vpn] = l1[Own(a)][vpn % L1Lines].ppn
    BY <1>1, <1>2, <1>5, Sizes, HitAgrees DEF L1Hit, L1Agrees, L1Type
  <2> QED
    BY <1>2, <1>3, <1>5, <2>1 DEF L1Hit, Result
<1>6. CASE L2Hit(a, vpn)
  <2>1. ppn = l2[vpn % L2Lines].ppn
    BY <1>1, <1>2, <1>6, Sizes, HitAgrees DEF L2Hit, L2HitCond, L2Type
  <2>2. ppn \in PageNums
    BY <1>1, <1>2, <2>1, LineFacts DEF L2Type, Entry
  <2>3. l1' = [l1 EXCEPT !["L1_ITLB"] = Insert(l1["L1_ITLB"], vpn, ppn, L1Lines)]
    BY <1>6, <2>1 DEF L2Hit
  <2>4. L1Agrees(Insert(l1["L1_ITLB"], vpn, ppn, L1Lines))
    BY <1>2, <1>4, <2>2
  <2>5. ASSUME NEW k \in L1Kinds PROVE L1Agrees(l1'[k])
    BY <1>2, <2>3, <2>4
  <2>6. UNCHANGED l2 /\ ret' = Result(a, vpn, 1, TRUE, ppn)
    BY <1>6, <2>1 DEF L2Hit
  <2> QED
    BY <1>2, <1>3, <2>5, <2>6 DEF Result
<1>7. CASE L2HitNoMemory(a, vpn)
  BY <1>2, <1>3, <1>7 DEF L2HitNoMemory, Result
<1>8. CASE Walk(a, vpn) \/ WalkNoMemoryL2(a, vpn) \/ WalkNoMemoryL1(a, vpn)
  <2>1. ppn \in PageNums
    BY <1>1, <1>8, PageTableAssumption DEF Walk, WalkNoMemoryL2, WalkNoMemoryL1
  <2>2. ASSUME NEW k \in L1Kinds PROVE L1Agrees(Invalidated(a, vpn)[k])
    BY <1>2, SearchInvalidAgrees DEF Invalidated
  <2>3. L1Agrees(Insert(l1[Own(a)], vpn, ppn, L1Lines))
    BY <1>1, <1>2, <1>4, <2>1
  <2>4. ASSUME NEW k \in L1Kinds PROVE L1Agrees(l1'[k])
    <3>1. DOMAIN Invalidated(a, vpn) = L1Kinds
      BY DEF Invalidated
    <3> QED
      BY <1>8, <2>2, <2>3, <3>1 DEF Walk, WalkNoMemoryL2, WalkNoMemoryL1
  <2>5. ASSUME NEW i \in Line2 PROVE Agrees(Insert(l2, vpn, ppn, L2Lines)[i], i, L2Lines)
    BY <1>1, <1>2, <2>1, Sizes, InsertAgrees DEF L2Type
  <2>6. \A i \in Line2 : Agrees(l2'[i], i, L2Lines)
    BY <1>2, <1>8, <2>5 DEF Walk, WalkNoMemoryL2, WalkNoMemoryL1
  <2>7. ret'.vpn = vpn /\ ret'.ppn = ppn
    BY <1>8 DEF Walk, WalkNoMemoryL2, WalkNoMemoryL1, Result
  <2> QED
    BY <1>3, <2>4, <2>6, <2>7
<1>9. CASE Fault(a, vpn)
  BY <1>2, <1>3, <1>9 DEF Fault, Result
<1> QED
  BY <1>5, <1>6, <1>7, <1>8, <1>9 DEF Search, a, vpn

LEMMA TranslatedStep ==
  InsertsInPlace /\ TypeOK /\ Translated /\ [Next]_vars => Translated'
<1> SUFFICES ASSUME InsertsInPlace, TypeOK, Translated, [Next]_vars PROVE Translated'
  OBVIOUS
<1>1. ASSUME NEW c \in Inserts, InsertEntry(c) PROVE Translated'
  <2>1. /\ c.tlb \in L1Kinds \cup {"L2_TLB"} /\ c.vpn \in Vpn
        /\ PageTable[c.vpn] \in PageNums /\ c.line = c.vpn % Lines(c.tlb)
    BY CallsAssumption, PageTableAssumption DEF InsertsInPlace
  <2>2. CASE c.tlb = "L2_TLB"
    <3>1. l2' = Insert(l2, c.vpn, PageTable[c.vpn], L2Lines) /\ UNCHANGED <<l1, ret>>
      BY <1>1, <2>1, <2>2 DEF InsertEntry, Insert, Lines
    <3>2. ASSUME NEW i \in Line2 PROVE Agrees(l2'[i], i, L2Lines)
      BY <2>1, <3>1, Sizes, InsertAgrees DEF TypeOK, Translated
    <3> QED
      BY <3>1, <3>2 DEF Translated
  <2>3. CASE c.tlb # "L2_TLB"
    <3> DEFINE new == Insert(l1[c.tlb], c.vpn, PageTable[c.vpn], L1Lines)
    <3>1. c.tlb \in L1Kinds /\ l1[c.tlb] \in L1Type /\ L1Agrees(l1[c.tlb])
      BY <2>1, <2>3 DEF TypeOK, L1Type, Translated, L1Agrees
    <3>2. l1' = [l1 EXCEPT ![c.tlb] = new] /\ UNCHANGED <<l2, ret>>
      BY <1>1, <2>1, <2>3 DEF InsertEntry, Insert, Lines
    <3>3. \A i \in Line1 : Agrees(new[i], i, L1Lines)
      BY <2>1, <3>1, Sizes, InsertAgrees DEF L1Type, L1Agrees
    <3> HIDE DEF new
    <3>4. ASSUME NEW k \in L1Kinds, NEW i \in Line1 PROVE Agrees(l1'[k][i], i, L1Lines)
      BY <3>1, <3>2, <3>3 DEF TypeOK, Translated
    <3> QED
      BY <3>2, <3>4 DEF Translated
  <2> QED
    BY <2>2, <2>3
<1>2. ASSUME NEW k \in Flushes, Flush(k) PROVE Translated'
  <2>1. CASE k = "L2_TLB"
    BY <1>2, <2>1, Sizes, ZeroAgrees DEF Flush, Translated
  <2>2. CASE k # "L2_TLB"
    <3>1. k \in L1Kinds /\ l1' = [l1 EXCEPT ![k] = Zero(L1Lines)] /\ UNCHANGED <<l2, ret>>
      BY <1>2, <2>2, CallsAssumption DEF Flush
    <3>2. ASSUME NEW j \in L1Kinds, NEW i \in Line1 PROVE Agrees(l1'[j][i], i, L1Lines)
      BY <3>1, Sizes, ZeroAgrees DEF TypeOK, Translated
    <3> QED
      BY <3>1, <3>2 DEF Translated
  <2> QED
    BY <2>1, <2>2
<1>3. CASE UNCHANGED vars
  BY <1>3 DEF vars, Translated
<1> QED
  BY <1>1, <1>2, <1>3, SearchTranslated DEF Next

LEMMA InitTranslated == Init => Translated
  BY Sizes, ZeroAgrees DEF Init, Translated, Result

(***************************************************************************)
(* No TLB ever holds, and no search ever gives, a translation other than   *)
(* the page table's, under any searches, any flushes and any insertions    *)
(* made on the line of the page.                                           *)
(***************************************************************************)
THEOREM TranslationsAreThePageTables == InsertsInPlace => (Spec => []Translated)
<1> SUFFICES ASSUME InsertsInPlace PROVE Spec => []Translated
  OBVIOUS
<1>2. TypeOK /\ Translated /\ [Next]_vars => TypeOK' /\ Translated'
  BY TypeStep, TranslatedStep
<1> QED
  BY <1>2, InitType, InitTranslated, PTL DEF Spec

-----------------------------------------------------------------------------
(***************************************************************************)
(* The hierarchy implements SingleTLB.                                     *)
(***************************************************************************)
Abstract == [i \in Line2 |-> AbstractLine(i)]
Left == [a \in {"INSTRUCTION", "DATA"} |-> Orphans(Own(a))]

\* The abstract TLB holds a page exactly when L2 hits for it.
LEMMA HeldIsHit ==
  ASSUME TypeOK, NEW vpn \in Vpn
  PROVE  /\ Abstract[vpn % L2Lines].page = vpn <=> Hit(l2, vpn, L2Lines)
         /\ Hit(l2, vpn, L2Lines) => Abstract[vpn % L2Lines].ppn = l2[vpn % L2Lines].ppn
<1>1. l2 \in L2Type /\ vpn \in Nat /\ vpn # -1 /\ vpn % L2Lines \in Line2
  BY LineFacts DEF TypeOK, L2Type, Vpn
<1>2. Hit(l2, vpn, L2Lines) <=> l2[vpn % L2Lines].v = 1
                               /\ PageOf(l2[vpn % L2Lines], vpn % L2Lines, L2Lines) = vpn
  BY <1>1, Sizes, HitFacts DEF L2Type
<1>3. Abstract[vpn % L2Lines] = AbstractLine(vpn % L2Lines)
  BY <1>1 DEF Abstract
<1> QED
  BY <1>1, <1>2, <1>3 DEF AbstractLine

LEMMA InitRefines == Init => Single!Init
<1> SUFFICES ASSUME Init PROVE Single!Init
  OBVIOUS
<1>1. \A i \in Line2 : AbstractLine(i) = [page |-> -1, ppn |-> 0]
  BY Sizes DEF Init, AbstractLine, Zero, ZeroEntry
<1>2. \A k \in L1Kinds : Orphans(k) = {}
  BY Sizes, LineFacts DEF Init, Orphans, Hit, Zero, ZeroEntry
<1>3. \A a \in {"INSTRUCTION", "DATA"} : Own(a) \in L1Kinds
  BY DEF Own
<1> QED
  BY <1>1, <1>2, <1>3 DEF Single!Init, Single!Empty, Single!Accesses, Init, Result, Line2

LEMMA LeftWithinFacts ==
  ASSUME NEW bound,
         \A a \in {"INSTRUCTION", "DATA"} : \A x \in Orphans(Own(a))' : x \in bound[a]
  PROVE  Single!LeftWithin(bound)
<1>1. DOMAIN PageTable = Vpn
  BY PageTableAssumption
<1>2. \A k : Orphans(k)' \subseteq Vpn
  BY DEF Orphans
<1> QED
  BY <1>1, <1>2 DEF Single!LeftWithin, Single!Accesses, Single!Pages

\* A line of L2 overwritten is a line of the abstract TLB overwritten.
LEMMA StoreFacts ==
  ASSUME TypeOK, NEW c \in Searches, PageTable[c.vpn] # NoPage,
         l2' = Insert(l2, c.vpn, PageTable[c.vpn], L2Lines)
  PROVE  Single!Store(c)
<1> DEFINE vpn == c.vpn
           i == vpn % L2Lines
           e == EntryInit(vpn, PageTable[vpn], L2Lines)
           new == [page |-> vpn, ppn |-> PageTable[vpn]]
<1>1. vpn \in Vpn /\ PageTable[vpn] \in PageNums /\ i \in Line2 /\ l2 \in L2Type
  BY CallsAssumption, PageTableAssumption, LineFacts DEF TypeOK, L2Type
<1>2. l2' = [l2 EXCEPT ![i] = e]
  BY DEF Insert
<1>3. ASSUME NEW j \in Line2, j # i PROVE Abstract'[j] = Abstract[j]
  <2>1. l2'[j] = l2[j]
    BY <1>2, <1>3
  <2> QED
    BY <2>1 DEF Abstract, AbstractLine
<1>4. Abstract'[i] = new
  <2>1. l2'[i] = e
    BY <1>1, <1>2 DEF L2Type
  <2>2. PageOf(e, i, L2Lines) = vpn
    BY <1>1, Sizes, EntryInitFacts
  <2>3. e.v = 1 /\ e.ppn = PageTable[vpn]
    BY DEF EntryInit
  <2> HIDE DEF e, i
  <2>4. AbstractLine(i)' = new
    BY <2>1, <2>2, <2>3 DEF AbstractLine
  <2>5. Abstract'[i] = AbstractLine(i)'
    BY <1>1 DEF Abstract
  <2> QED
    BY <2>4, <2>5
<1>5. Abstract' = [Abstract EXCEPT ![i] = new]
  <2> HIDE DEF new, i
  <2> QED
    BY <1>3, <1>4 DEF Abstract
<1> QED
  BY <1>5 DEF Single!Store, Single!Line, Abstract

LEMMA SearchRefines ==
  ASSUME TypeOK, Translated, NEW c \in Searches, Search(c.access, c.vpn)
  PROVE  Single!Next
<1> DEFINE a == c.access
           vpn == c.vpn
           ppn == PageTable[vpn]
           Step == \/ Single!Found(c) \/ Single!FoundLeft(c) \/ Single!Loaded(c)
                   \/ Single!NotStored(c) \/ Single!HalfLoaded(c) \/ Single!Failed(c)
<1>1. /\ a \in {"INSTRUCTION", "DATA"} /\ vpn \in Vpn /\ Own(a) \in L1Kinds
      /\ \A b \in {"INSTRUCTION", "DATA"} : Own(b) \in L1Kinds /\ (Own(b) = Own(a) => b = a)
  BY CallsAssumption DEF Own
<1>2. /\ l1[Own(a)] \in L1Type /\ l2 \in L2Type
      /\ \A i \in Line1 : Agrees(l1[Own(a)][i], i, L1Lines)
      /\ \A i \in Line2 : Agrees(l2[i], i, L2Lines)
  BY <1>1 DEF TypeOK, L1Type, L2Type, Translated
<1>3. /\ Single!Held(c) <=> Hit(l2, vpn, L2Lines)
      /\ Hit(l2, vpn, L2Lines) => Abstract[vpn % L2Lines].ppn = l2[vpn % L2Lines].ppn
      /\ Hit(l2, vpn, L2Lines) => l2[vpn % L2Lines].ppn = ppn
  <2>1. Hit(l2, vpn, L2Lines) => l2[vpn % L2Lines].ppn = ppn
    BY <1>1, <1>2, Sizes, HitAgrees DEF L2Type
  <2> QED
    BY <1>1, <2>1, HeldIsHit DEF Single!Held, Single!Line, Abstract
<1>4. Single!Walks(c) <=> ~ Hit(l2, vpn, L2Lines) /\ ~ Hit(l1[Own(a)], vpn, L1Lines)
  BY <1>1, <1>3 DEF Single!Walks, Orphans
<1>5. UNCHANGED l2 => Abstract' = Abstract
  BY DEF Abstract, AbstractLine
<1>6. ASSUME ~ WalkNoMemoryL1(a, vpn), ~ Walk(a, vpn) PROVE Single!LeftWithin(Left)
  <2>1. \A b \in {"INSTRUCTION", "DATA"} : \A x \in Orphans(Own(b))' : x \in Left[b]
    BY <1>1, <1>6, SearchOrphans DEF Left
  <2> HIDE DEF Left
  <2> QED
    BY <2>1, LeftWithinFacts
<1>7. SUFFICES Step
  BY DEF Single!Next
<1> HIDE DEF Step
<1>8. CASE L1Hit(a, vpn)
  <2>1. /\ Hit(l1[Own(a)], vpn, L1Lines) /\ UNCHANGED <<l1, l2>>
        /\ ret' = Result(a, vpn, 1, TRUE, l1[Own(a)][vpn % L1Lines].ppn)
        /\ ~ Walk(a, vpn) /\ ~ WalkNoMemoryL1(a, vpn)
    BY <1>8 DEF L1Hit, Walk, WalkNoMemoryL1, Missed
  <2>2. l1[Own(a)][vpn % L1Lines].ppn = ppn
    BY <1>1, <1>2, <2>1, Sizes, HitAgrees DEF L1Type
  <2>3. CASE Hit(l2, vpn, L2Lines)
    <3>1. Single!Found(c)
      BY <1>3, <1>5, <1>6, <2>1, <2>2, <2>3
         DEF Single!Found, Single!Outcome, Single!Line, Result, Abstract, Left
    <3> QED
      BY <3>1 DEF Step
  <2>4. CASE ~ Hit(l2, vpn, L2Lines)
    <3>1. vpn \in Orphans(Own(a))
      BY <1>1, <2>1, <2>4 DEF Orphans
    <3>2. Single!FoundLeft(c)
      BY <1>1, <1>3, <1>5, <1>6, <2>1, <2>2, <2>4, <3>1
         DEF Single!FoundLeft, Single!Outcome, Result, Abstract, Left
    <3> QED
      BY <3>2 DEF Step
  <2> QED
    BY <2>3, <2>4
<1>9. CASE L2Hit(a, vpn) \/ L2HitNoMemory(a, vpn)
  <2>1. /\ Hit(l2, vpn, L2Lines) /\ UNCHANGED l2
        /\ \E ok \in BOOLEAN : ret' = Result(a, vpn, 1, ok, l2[vpn % L2Lines].ppn)
        /\ ~ Walk(a, vpn) /\ ~ WalkNoMemoryL1(a, vpn)
    BY <1>9 DEF L2Hit, L2HitNoMemory, L2HitCond, Walk, WalkNoMemoryL1, Missed
  <2>2. Single!Found(c)
    BY <1>3, <1>5, <1>6, <2>1
       DEF Single!Found, Single!Outcome, Single!Line, Result, Abstract, Left
  <2> QED
    BY <2>2 DEF Step
<1>10. CASE Walk(a, vpn)
  <2>1. /\ ppn # NoPage /\ l2' = Insert(l2, vpn, ppn, L2Lines)
        /\ ret' = Result(a, vpn, 0, TRUE, ppn) /\ Single!Walks(c)
        /\ ~ WalkNoMemoryL1(a, vpn)
    BY <1>4, <1>10 DEF Walk, WalkNoMemoryL1, Missed, Result
  <2>2. Single!LeftWithin([b \in {"INSTRUCTION", "DATA"} |-> Left[b] \ {vpn}])
    <3> DEFINE bound == [b \in {"INSTRUCTION", "DATA"} |-> Left[b] \ {vpn}]
    <3>1. \A b \in {"INSTRUCTION", "DATA"} : \A x \in Orphans(Own(b))' : x \in bound[b]
      BY <1>1, <1>10, <2>1, SearchOrphans DEF Left
    <3> HIDE DEF bound
    <3>2. Single!LeftWithin(bound)
      BY <3>1, LeftWithinFacts
    <3> QED
      BY <3>2 DEF bound
  <2>3. Single!Loaded(c)
    BY <2>1, <2>2, StoreFacts DEF Single!Loaded, Single!Outcome, Single!Accesses, Result, Left
  <2> QED
    BY <2>3 DEF Step
<1>11. CASE WalkNoMemoryL2(a, vpn) /\ ~ Walk(a, vpn) /\ ~ WalkNoMemoryL1(a, vpn)
  <2>1. Single!NotStored(c)
    BY <1>4, <1>5, <1>6, <1>11
       DEF WalkNoMemoryL2, Missed, Single!NotStored, Single!Outcome, Result, Abstract, Left
  <2> QED
    BY <2>1 DEF Step
<1>12. CASE WalkNoMemoryL1(a, vpn)
  <2>1. /\ ppn # NoPage /\ l2' = Insert(l2, vpn, ppn, L2Lines)
        /\ ret' = Result(a, vpn, 0, FALSE, ppn) /\ Single!Walks(c)
    BY <1>4, <1>12 DEF WalkNoMemoryL1, Missed
  <2> DEFINE bound == [b \in {"INSTRUCTION", "DATA"} |->
                (Left[b] \cup (IF b = a THEN {Abstract[vpn % L2Lines].page} ELSE {})) \ {vpn}]
  <2>2. Single!LeftWithin(bound)
    <3>1. ASSUME NEW b \in {"INSTRUCTION", "DATA"}, NEW x \in Orphans(Own(b))'
          PROVE  x \in bound[b]
      <4>1. x \in Vpn /\ x # vpn
        BY <1>1, <1>12, <3>1, SearchOrphans
      <4>2. CASE x \in Orphans(Own(b))
        BY <4>1, <4>2 DEF Left
      <4>3. CASE x \notin Orphans(Own(b))
        <5>1. b = a /\ x % L2Lines = vpn % L2Lines /\ Hit(l2, x, L2Lines)
          BY <1>1, <3>1, <4>3, SearchOrphans
        <5>2. Abstract[vpn % L2Lines].page = x
          BY <4>1, <5>1, HeldIsHit
        <5> HIDE DEF Abstract, Left
        <5> QED
          BY <4>1, <5>1, <5>2
      <4> QED
        BY <4>2, <4>3
    <3> HIDE DEF bound
    <3> QED
      BY <3>1, LeftWithinFacts
  <2>3. Single!HalfLoaded(c)
    BY <2>1, <2>2, StoreFacts
       DEF Single!HalfLoaded, Single!Outcome, Single!Accesses, Single!Line, Result, Left, Abstract
  <2> QED
    BY <2>3 DEF Step
<1>13. CASE Fault(a, vpn)
  <2>1. ~ Walk(a, vpn) /\ ~ WalkNoMemoryL1(a, vpn)
    BY <1>13 DEF Fault, Walk, WalkNoMemoryL1
  <2>2. Single!Failed(c)
    BY <1>4, <1>5, <1>6, <1>13, <2>1
       DEF Fault, Missed, Single!Failed, Single!Outcome, Result, Abstract, Left
  <2> QED
    BY <2>2 DEF Step
<1> QED
  BY <1>8, <1>9, <1>10, <1>11, <1>12, <1>13 DEF Search, a, vpn

LEMMA StepRefines ==
  SearchOnly /\ TypeOK /\ Translated /\ [Next]_vars => [Single!Next]_<<Abstract, Left, ret>>
<1> SUFFICES ASSUME SearchOnly, TypeOK, Translated, [Next]_vars
             PROVE  [Single!Next]_<<Abstract, Left, ret>>
  OBVIOUS
<1>1. CASE \E c \in Searches : Search(c.access, c.vpn)
  BY <1>1, SearchRefines
<1>2. CASE UNCHANGED vars
  BY <1>2 DEF vars, Abstract, AbstractLine, Left, Orphans
<1>3. ASSUME NEW f \in L1Kinds, Flush(f) PROVE Single!Next
  <2>1. UNCHANGED <<l2, ret>>
    BY <1>3 DEF Flush
  <2>2. \A b \in {"INSTRUCTION", "DATA"} : \A x \in Orphans(Own(b))' : x \in Left[b]
    BY <1>3, FlushOrphans DEF Left, Own
  <2>3. Single!LeftWithin(Left)
    <3> HIDE DEF Left
    <3> QED
      BY <2>2, LeftWithinFacts
  <2>4. Abstract' = Abstract
    BY <2>1 DEF Abstract, AbstractLine
  <2>5. Single!Forget
    BY <2>1, <2>3, <2>4 DEF Single!Forget, Abstract, Left
  <2> QED
    BY <2>5 DEF Single!Next
<1> QED
  BY <1>1, <1>2, <1>3, SearchOnlySteps

(***************************************************************************)
(* The two levels give, search by search, the outcomes and the             *)
(* translations of one direct-mapped TLB of L2's size, which leaves a      *)
(* displaced page behind only when memory runs out as it is displaced.     *)
(***************************************************************************)
THEOREM ActsAsSingleTLB == SearchOnly => (Spec => SingleSpec)
<1> SUFFICES ASSUME SearchOnly PROVE Spec => SingleSpec
  OBVIOUS
<1>1. InsertsInPlace
  BY DEF SearchOnly, InsertsInPlace
<1>2. TypeOK /\ Translated /\ [Next]_vars => TypeOK' /\ Translated'
  BY <1>1, TypeStep, TranslatedStep
<1>3. TypeOK /\ Translated /\ [Next]_vars => [Single!Next]_<<Abstract, Left, ret>>
  BY StepRefines
<1> QED
  BY <1>2, <1>3, InitType, InitTranslated, InitRefines, PTL
     DEF Spec, SingleSpec, Single!Spec, Abstract, Left

-----------------------------------------------------------------------------
(***************************************************************************)
(* A search that walked and succeeded leaves its page in the L1 of its own *)
(* access, whatever the caller inserted or flushed before: the two         *)
(* branches of the miss path fill the TLB of their access (tlb_search).    *)
(***************************************************************************)
THEOREM WalksFill == Spec => WalkFillsOwnL1
<1> DEFINE A == ret' # ret /\ ret'.ok /\ ret'.hit = 0
                  => Hit(l1'[Own(ret'.access)], ret'.vpn, L1Lines)
<1>1. TypeOK /\ [Next]_vars => TypeOK'
  BY TypeStep
<1>2. TypeOK /\ [Next]_vars => [A]_vars
  <2> SUFFICES ASSUME TypeOK, Next, ret' # ret, ret'.ok, ret'.hit = 0
               PROVE  Hit(l1'[Own(ret'.access)], ret'.vpn, L1Lines)
    OBVIOUS
  <2>1. PICK c \in Searches : Search(c.access, c.vpn)
    BY DEF Next, Flush, InsertEntry
  <2>2. Walk(c.access, c.vpn)
    <3>1. ~ L1Hit(c.access, c.vpn)
      BY DEF L1Hit, Result
    <3>2. ~ L2Hit(c.access, c.vpn)
      BY DEF L2Hit, Result
    <3>3. ~ Fault(c.access, c.vpn) /\ ~ L2HitNoMemory(c.access, c.vpn)
      BY DEF Fault, L2HitNoMemory, Result
    <3>4. ~ WalkNoMemoryL2(c.access, c.vpn) /\ ~ WalkNoMemoryL1(c.access, c.vpn)
      BY DEF WalkNoMemoryL2, WalkNoMemoryL1, Result
    <3> QED
      BY <2>1, <3>1, <3>2, <3>3, <3>4 DEF Search
  <2> DEFINE k == Own(c.access)
             vpn == c.vpn
  <2>3. ret'.access = c.access /\ ret'.vpn = vpn
    BY <2>2 DEF Walk, Result
  <2>4. k \in L1Kinds /\ l1[k] \in L1Type /\ vpn % L1Lines \in Line1
    BY CallsAssumption, LineFacts DEF Own, L1Kinds, TypeOK, L1Type
  <2>5. l1'[k] = Insert(l1[k], vpn, PageTable[vpn], L1Lines)
    BY <2>2, <2>4 DEF Walk, Invalidated
  <2>6. l1'[k][vpn % L1Lines] = EntryInit(vpn, PageTable[vpn], L1Lines)
    BY <2>4, <2>5 DEF Insert, L1Type
  <2>7. Hit(l1'[k], vpn, L1Lines)
    BY <2>6 DEF Hit, EntryInit
  <2> QED
    BY <2>3, <2>7
<1> QED
  BY <1>1, <1>2, InitType, PTL DEF Spec, WalkFillsOwnL1

=============================================================================
