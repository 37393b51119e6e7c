------------------------- MODULE CacheAlignedProofs -------------------------
(***************************************************************************)
(* Theorems about Cache for every geometry, memory and set of calls, when  *)
(* every address is 16-byte aligned and no caller inserts entries in L2.   *)
(* Coherence also needs that instructions are never written, for a write   *)
(* goes to the data L1 alone.  It and the uniqueness of tags need that the *)
(* instruction L1 is not flushed, for that flush overruns into the first   *)
(* entry of the data L1 and clears its tag.                                *)
(***************************************************************************)
EXTENDS CacheProofs, CacheRefinement

CodeNeverWritten ==
  \A c \in Reads, d \in Writes \cup ByteWrites :
    c.type = "INSTRUCTION" => c.addr.blk # d.addr.blk

AlignedCalls == NoPreload /\ WordAligned

CoherentCalls == AlignedCalls /\ CodeNeverWritten /\ "L1_ICACHE" \notin Flushes

-----------------------------------------------------------------------------
(* Blocks. *)

\* A block is the index and the tag it is cached under, and no other is.
LEMMA BlockOfTag ==
  ASSUME NEW b \in Block, NEW c \in Block,
         b \div L1Lines = c \div L1Lines, b % L1Lines = c % L1Lines
  PROVE  b = c
  <1>1. L1Lines \in Nat /\ L1Lines > 0 /\ b \in Nat /\ c \in Nat
    BY GeometryAssumption DEF Block
  <1>2. b = L1Lines * (b \div L1Lines) + (b % L1Lines) /\ c = L1Lines * (c \div L1Lines) + (c % L1Lines)
    BY <1>1
  <1> QED
    BY <1>2

\* From an aligned address, the w-th word's b-th byte is that of its block.
LEMMA AlignedPlus ==
  ASSUME NEW a \in Addr, Aligned(a), NEW w \in WordIdx, NEW b \in ByteIdx
  PROVE  Plus(a, w, b) = [blk |-> a.blk, word |-> w, byte |-> b]
  <1>1. a.word = 0 /\ a.byte = 0 /\ w \in Nat /\ w < LineWords /\ b \in Nat /\ b < WordBytes
    BY GeometryAssumption DEF Aligned, WordIdx, ByteIdx
  <1>2. LineWords \in Nat /\ WordBytes \in Nat
    BY GeometryAssumption
  <1> QED
    BY <1>1, <1>2 DEF Plus

LEMMA AlignedMemLine ==
  ASSUME NEW m \in Memory, NEW a \in Addr, Aligned(a)
  PROVE  MemLine(m, a) = m[a.blk]
  <1>1. m[a.blk] \in Line
    BY DEF Addr, Memory
  <1>2. MemLine(m, a) = [w \in WordIdx |-> [b \in ByteIdx |-> m[a.blk][w][b]]]
    BY AlignedPlus DEF MemLine
  <1>3. \A w \in WordIdx : m[a.blk][w] = [b \in ByteIdx |-> m[a.blk][w][b]]
    BY <1>1 DEF Line, Word
  <1> QED
    BY <1>1, <1>2, <1>3 DEF Line

LEMMA AlignedMemPut ==
  ASSUME NEW m \in Memory, NEW a \in Addr, Aligned(a), NEW line \in Line
  PROVE  MemPut(m, a, line) = [m EXCEPT ![a.blk] = line]
  <1>1. ASSUME NEW k \in Block, NEW w \in WordIdx, NEW b \in ByteIdx
        PROVE  MemPut(m, a, line)[k][w][b] = [m EXCEPT ![a.blk] = line][k][w][b]
    <2> DEFINE x == [blk |-> k, word |-> w, byte |-> b]
               ps == Offsets(a, x)
    <2>1. MemPut(m, a, line)[k][w][b] =
            IF ps = {} THEN m[k][w][b] ELSE LET p == CHOOSE p \in ps : TRUE IN line[p[1]][p[2]]
      BY DEF MemPut
    <2>2. ps = {p \in WordIdx \X ByteIdx : [blk |-> a.blk, word |-> p[1], byte |-> p[2]] = x}
      <3>1. \A p \in WordIdx \X ByteIdx :
              Plus(a, p[1], p[2]) = [blk |-> a.blk, word |-> p[1], byte |-> p[2]]
        BY AlignedPlus
      <3> HIDE DEF x
      <3> QED
        BY <3>1 DEF Offsets
    <2>3. CASE k = a.blk
      <3>1. ps = {<<w, b>>}
        <4>1. <<w, b>> \in ps
          BY <2>2, <2>3
        <4>2. ASSUME NEW p \in ps PROVE p = <<w, b>>
          <5>1. p \in WordIdx \X ByteIdx /\ [blk |-> a.blk, word |-> p[1], byte |-> p[2]] = x
            BY <2>2
          <5>2. p = <<p[1], p[2]>>
            BY <5>1
          <5>3. p[1] = w /\ p[2] = b
            BY <5>1
          <5> QED
            BY <5>2, <5>3
        <4> HIDE DEF ps
        <4> QED
          BY <4>1, <4>2
      <3>2. (CHOOSE p \in ps : TRUE) = <<w, b>>
        <4> HIDE DEF ps
        <4> QED
          BY <3>1
      <3>3. MemPut(m, a, line)[k][w][b] = line[w][b]
        <4> HIDE DEF ps
        <4> QED
          BY <2>1, <3>1, <3>2
      <3> QED
        BY <2>3, <3>3 DEF Memory
    <2>4. CASE k # a.blk
      <3>1. ps = {}
        BY <2>2, <2>4
      <3> QED
        BY <2>1, <2>4, <3>1 DEF Memory
    <2> QED
      BY <2>3, <2>4
  <1> DEFINE m1 == MemPut(m, a, line)
             m2 == [m EXCEPT ![a.blk] = line]
  <1>2. m1 \in Memory /\ m2 \in Memory
    <2>1. m2 \in Memory
      BY DEF Memory
    <2> QED
      BY <2>1, MemPutInMemory
  <1>3. \A k \in Block, w \in WordIdx, b \in ByteIdx : m1[k][w][b] = m2[k][w][b]
    BY <1>1
  <1> HIDE DEF m1, m2
  <1>4. \A k \in Block, w \in WordIdx : m1[k][w] = m2[k][w]
    BY <1>2, <1>3 DEF Memory, Line, Word
  <1>5. \A k \in Block : m1[k] = m2[k]
    BY <1>2, <1>4 DEF Memory, Line
  <1>6. m1 = m2
    BY <1>2, <1>5 DEF Memory
  <1> QED
    BY <1>6 DEF m1, m2

-----------------------------------------------------------------------------
(* One set, and what a read or a write at an aligned address makes of it. *)

Fresh(a, line) == [v |-> VALID, age |-> 0, tag |-> TagOf1(a), line |-> line]
Filled(set, a, line) == Insert(set, VictimWay(set), Fresh(a, line))

ReadSet(set, a, line) ==
  IF Hit(set, TagOf1(a)) THEN AgeUpdate(set, HitWay(set, TagOf1(a)))
  ELSE AgeUpdate(Filled(set, a, line), VictimWay(set))

WriteSet(set, a, line) ==
  IF Hit(set, TagOf1(a))
  THEN [AgeUpdate(set, HitWay(set, TagOf1(a))) EXCEPT ![HitWay(set, TagOf1(a))].line = line]
  ELSE IF HasPlace(set) THEN AgeIncrease(Filled(set, a, line), L1Ways, VictimWay(set))
  ELSE AgeUpdate(Filled(set, a, line), VictimWay(set))

\* The three invariants of the hierarchy, of one set.
ValidFirst(set) ==
  \A w \in Way1 : set[w].v = VALID => \A u \in 0 .. (w - 1) : set[u].v = VALID
Distinct(set) ==
  \A w, u \in Way1 : set[w].v = VALID /\ set[u].v = VALID /\ set[w].tag = set[u].tag => w = u
Holds(set, i, m) ==
  \A w \in Way1, b \in Block :
    set[w].v = VALID /\ set[w].tag = b \div L1Lines /\ i = b % L1Lines => set[w].line = m[b]
Good(set, i, m) == ValidFirst(set) /\ Distinct(set) /\ Holds(set, i, m)

\* Two sets that differ in nothing but their ages.
SameButAges(set, new) ==
  \A w \in Way1 : new[w].v = set[w].v /\ new[w].tag = set[w].tag /\ new[w].line = set[w].line

LEMMA AgesDoNotMatter ==
  ASSUME NEW set, NEW new, SameButAges(set, new), NEW i, NEW m, Good(set, i, m)
  PROVE  Good(new, i, m)
  <1>1. L1Ways \in Nat \ {0} /\ \A w \in Way1 : 0 .. (w - 1) \subseteq Way1
    BY WaysFacts
  <1>2. ValidFirst(new)
    BY <1>1 DEF SameButAges, Good, ValidFirst
  <1>3. Distinct(new)
    BY DEF SameButAges, Good, Distinct
  <1>4. Holds(new, i, m)
    BY DEF SameButAges, Good, Holds
  <1> QED
    BY <1>2, <1>3, <1>4 DEF Good

LEMMA AgedSets ==
  ASSUME NEW set \in Set1, NEW way \in Way1
  PROVE  SameButAges(set, AgeUpdate(set, way)) /\ SameButAges(set, AgeIncrease(set, L1Ways, way))
  <1>1. SameButAges(set, AgeUpdate(set, way))
    BY AgeUpdateFacts, WaysFacts DEF Set1, SameButAges
  <1>2. SameButAges(set, AgeIncrease(set, L1Ways, way))
    BY AgeIncreaseFacts, WaysFacts DEF Set1, SameButAges
  <1> QED
    BY <1>1, <1>2

LEMMA FreshEntry ==
  ASSUME NEW a \in Addr, NEW line \in Line, NEW set \in Set1
  PROVE  /\ Fresh(a, line) \in Entry1 /\ VictimWay(set) \in Way1
         /\ Filled(set, a, line) \in Set1
  <1>1. TagOf1(a) \in Tag1
    BY IndexFacts DEF Addr
  <1>2. Fresh(a, line) \in Entry1
    BY <1>1, WaysFacts DEF Fresh, Entry1
  <1>3. VictimWay(set) \in Way1
    BY VictimWayFacts
  <1> QED
    BY <1>2, <1>3 DEF Filled, Insert, Set1

\* The scan of `hit', which stops at an invalid way, misses no valid one.
LEMMA MissMeansAbsent ==
  ASSUME NEW set \in Set1, ValidFirst(set), Distinct(set), NEW tag, ~ Hit(set, tag),
         NEW w \in Way1, set[w].v = VALID
  PROVE  set[w].tag # tag
  <1> SUFFICES ASSUME set[w].tag = tag PROVE FALSE
    OBVIOUS
  <1>1. ASSUME NEW u \in 0 .. (w - 1) PROVE set[u].v = VALID /\ set[u].tag # tag
    <2>1. u \in Way1 /\ u # w
      BY WaysFacts
    <2> QED
      BY <2>1 DEF ValidFirst, Distinct
  <1>2. w \in DOMAIN set
    BY DEF Set1
  <1> QED
    BY <1>1, <1>2 DEF Hit, HitWays

\* What a call keeps of the valid ways of a set: they come first, under different tags.
KeepsValid(set, new) ==
  ValidFirst(set) => ValidFirst(new) /\ (Distinct(set) => Distinct(new))

\* A block read in on a miss goes after the valid ways, or over one of a full set.
LEMMA FilledKeepsValid ==
  ASSUME NEW set \in Set1, NEW a \in Addr, NEW line \in Line, ~ Hit(set, TagOf1(a))
  PROVE  KeepsValid(set, Filled(set, a, line))
  <1> DEFINE way == VictimWay(set)
             new == Filled(set, a, line)
             tag == TagOf1(a)
  <1> SUFFICES ASSUME ValidFirst(set) PROVE ValidFirst(new) /\ (Distinct(set) => Distinct(new))
    BY DEF KeepsValid
  <1>1. way \in Way1 /\ new \in Set1
    BY FreshEntry
  <1>2. /\ new[way].v = VALID /\ new[way].tag = tag
        /\ \A w \in Way1 : w # way => new[w] = set[w]
    BY <1>1 DEF Filled, Insert, Fresh, Set1
  <1>3. Distinct(set) => \A w \in Way1 : set[w].v = VALID => set[w].tag # tag
    BY MissMeansAbsent
  <1>4. \A w \in Way1 : \A u \in 0 .. (w - 1) : u \in Way1 /\ u \in Nat /\ w \in Nat /\ u < w
    BY WaysFacts
  <1>5. \A u \in 0 .. (way - 1) : set[u].v = VALID
    <2>1. CASE HasPlace(set)
      <3>1. way = FindPlace(set)
        BY <2>1 DEF VictimWay
      <3>2. \A u \in 0 .. (way - 1) : set[u].v # INVALID
        BY <2>1, <3>1, FindPlaceFacts
      <3> HIDE DEF way
      <3> QED
        BY <1>1, <1>4, <3>2 DEF Set1, Entry1
    <2>2. CASE ~ HasPlace(set)
      <3>1. \A w \in 0 .. (L1Ways - 1) : set[w].v = VALID
        BY <2>2, NoPlaceMeansFull, WaysFacts DEF Set1, Entry1
      <3> HIDE DEF way
      <3> QED
        BY <1>1, <1>4, <3>1, WaysFacts
    <2> QED
      BY <2>1, <2>2
  <1> HIDE DEF way, new, tag
  <1>6. ValidFirst(new)
    <2> SUFFICES ASSUME NEW w \in Way1, new[w].v = VALID, NEW u \in 0 .. (w - 1)
                 PROVE  new[u].v = VALID
      BY DEF ValidFirst
    <2>1. u \in Way1
      BY <1>4
    <2>2. CASE w = way \/ u = way
      BY <1>2, <1>5, <2>1, <2>2
    <2>3. CASE w # way /\ u # way
      BY <1>2, <2>1, <2>3 DEF ValidFirst
    <2> QED
      BY <2>2, <2>3
  <1>7. Distinct(set) => Distinct(new)
    BY <1>2, <1>3 DEF Distinct
  <1> QED
    BY <1>6, <1>7

\* The block read in is memory's, and the others keep theirs.
LEMMA FilledIsGood ==
  ASSUME NEW set \in Set1, NEW a \in Addr, NEW m \in Memory, NEW n \in Memory,
         Good(set, Index1(a), m), ~ Hit(set, TagOf1(a)),
         \A b \in Block : b # a.blk => n[b] = m[b]
  PROVE  Good(Filled(set, a, n[a.blk]), Index1(a), n)
  <1> DEFINE way == VictimWay(set)
             line == n[a.blk]
             new == Filled(set, a, line)
             tag == TagOf1(a)
  <1>0. a.blk \in Block /\ line \in Line
    BY DEF Addr, Memory
  <1>1. way \in Way1 /\ new \in Set1
    BY <1>0, FreshEntry
  <1>2. /\ new[way].v = VALID /\ new[way].tag = tag /\ new[way].line = line
        /\ \A w \in Way1 : w # way => new[w] = set[w]
    BY <1>1 DEF Filled, Insert, Fresh, Set1
  <1>3. \A w \in Way1 : set[w].v = VALID => set[w].tag # tag
    BY MissMeansAbsent DEF Good
  <1>4. KeepsValid(set, new)
    BY <1>0, FilledKeepsValid
  <1> HIDE DEF way, new, line, tag
  <1>5. Holds(new, Index1(a), n)
    <2> SUFFICES ASSUME NEW w \in Way1, NEW b \in Block, new[w].v = VALID,
                        new[w].tag = b \div L1Lines, Index1(a) = b % L1Lines
                 PROVE  new[w].line = n[b]
      BY DEF Holds
    <2>1. CASE w = way
      <3>1. b = a.blk
        BY <1>0, <1>2, <2>1, BlockOfTag DEF tag, TagOf1, Index1
      <3> QED
        BY <1>2, <2>1, <3>1 DEF line
    <2>2. CASE w # way
      <3>1. b # a.blk
        BY <1>2, <1>3, <2>2 DEF tag, TagOf1
      <3>2. set[w].line = m[b]
        BY <1>2, <2>2 DEF Good, Holds
      <3> QED
        BY <1>2, <2>2, <3>1, <3>2
    <2> QED
      BY <2>1, <2>2
  <1>6. Good(new, Index1(a), n)
    BY <1>4, <1>5 DEF Good, KeepsValid
  <1> QED
    BY <1>6 DEF new, line

\* On a hit the way is one of the set and holds the block.
LEMMA HitHolds ==
  ASSUME NEW set \in Set1, NEW a \in Addr, NEW m, Holds(set, Index1(a), m),
         Hit(set, TagOf1(a))
  PROVE  /\ HitWay(set, TagOf1(a)) \in Way1
         /\ set[HitWay(set, TagOf1(a))].v = VALID
         /\ set[HitWay(set, TagOf1(a))].tag = TagOf1(a)
         /\ set[HitWay(set, TagOf1(a))].line = m[a.blk]
  <1> DEFINE way == HitWay(set, TagOf1(a))
  <1>1. way \in Way1 /\ set[way].v = VALID /\ set[way].tag = TagOf1(a)
    BY HitWayFacts DEF Set1
  <1>2. a.blk \in Block
    BY DEF Addr
  <1> HIDE DEF way
  <1>3. set[way].line = m[a.blk]
    BY <1>1, <1>2 DEF Holds, TagOf1, Index1
  <1> QED
    BY <1>1, <1>3 DEF way

LEMMA ReadSetFacts ==
  ASSUME NEW set \in Set1, NEW a \in Addr, NEW m \in Memory, Good(set, Index1(a), m)
  PROVE  Good(ReadSet(set, a, m[a.blk]), Index1(a), m)
  <1>1. CASE Hit(set, TagOf1(a))
    <2>1. HitWay(set, TagOf1(a)) \in Way1
      BY <1>1, HitHolds DEF Good
    <2> QED
      BY <1>1, <2>1, AgedSets, AgesDoNotMatter DEF ReadSet
  <1>2. CASE ~ Hit(set, TagOf1(a))
    <2> DEFINE new == Filled(set, a, m[a.blk])
               way == VictimWay(set)
    <2>1. new \in Set1 /\ way \in Way1
      BY FreshEntry DEF Addr, Memory
    <2>2. Good(new, Index1(a), m)
      BY <1>2, FilledIsGood
    <2>3. ReadSet(set, a, m[a.blk]) = AgeUpdate(new, way)
      BY <1>2 DEF ReadSet
    <2> HIDE DEF new, way
    <2> QED
      BY <2>1, <2>2, <2>3, AgedSets, AgesDoNotMatter
  <1> QED
    BY <1>1, <1>2

LEMMA WriteSetFacts ==
  ASSUME NEW set \in Set1, NEW a \in Addr, NEW m \in Memory, NEW line \in Line,
         Good(set, Index1(a), m)
  PROVE  Good(WriteSet(set, a, line), Index1(a), [m EXCEPT ![a.blk] = line])
  <1> DEFINE n == [m EXCEPT ![a.blk] = line]
             i == Index1(a)
             tag == TagOf1(a)
             all == WriteSet(set, a, line)
  <1>1. /\ a.blk \in Block /\ n \in Memory /\ n[a.blk] = line
        /\ \A b \in Block : b # a.blk => n[b] = m[b]
    BY DEF Addr, Memory
  <1>2. CASE Hit(set, tag)
    <2> DEFINE way == HitWay(set, tag)
               aged == AgeUpdate(set, way)
               new == [aged EXCEPT ![way].line = line]
    <2>1. way \in Way1 /\ set[way].v = VALID /\ set[way].tag = tag
      BY <1>2, HitHolds DEF Good
    <2>2. Good(aged, i, m) /\ aged \in Set1 /\ aged[way].v = VALID /\ aged[way].tag = tag
      BY <2>1, AgedSets, AgesDoNotMatter, Ages1 DEF SameButAges
    <2>3. all = new
      BY <1>2 DEF WriteSet
    <2> HIDE DEF way, aged, n, all
    <2>4. /\ \A w \in Way1 : new[w].v = aged[w].v /\ new[w].tag = aged[w].tag
          /\ \A w \in Way1 : w # way => new[w].line = aged[w].line
          /\ new[way].line = line
      BY <2>1, <2>2 DEF Set1, Entry1
    <2> HIDE DEF new
    <2>5. ValidFirst(new)
      <3>1. \A w \in Way1 : 0 .. (w - 1) \subseteq Way1
        BY WaysFacts
      <3> QED
        BY <2>2, <2>4, <3>1 DEF Good, ValidFirst
    <2>6. Distinct(new)
      BY <2>2, <2>4 DEF Good, Distinct
    <2>7. Holds(new, i, n)
      <3> SUFFICES ASSUME NEW w \in Way1, NEW b \in Block, new[w].v = VALID,
                          new[w].tag = b \div L1Lines, i = b % L1Lines
                   PROVE  new[w].line = n[b]
        BY DEF Holds
      <3>1. CASE w = way
        <4>1. b = a.blk
          BY <1>1, <2>2, <2>4, <3>1, BlockOfTag DEF TagOf1, Index1
        <4> QED
          BY <1>1, <2>4, <3>1, <4>1
      <3>2. CASE w # way
        <4>1. b # a.blk
          BY <2>1, <2>2, <2>4, <3>2 DEF Good, Distinct, TagOf1
        <4>2. aged[w].line = m[b]
          BY <2>2, <2>4 DEF Good, Holds
        <4> QED
          BY <1>1, <2>4, <3>2, <4>1, <4>2
      <3> QED
        BY <3>1, <3>2
    <2> QED
      BY <2>3, <2>5, <2>6, <2>7 DEF Good, n, all
  <1>3. CASE ~ Hit(set, tag)
    <2> DEFINE new == Filled(set, a, line)
               way == VictimWay(set)
    <2>1. new \in Set1 /\ way \in Way1
      BY FreshEntry
    <2>2. Good(new, i, n)
      <3> HIDE DEF n
      <3> QED
        BY <1>1, <1>3, FilledIsGood
    <2>3. all = AgeUpdate(new, way) \/ all = AgeIncrease(new, L1Ways, way)
      BY <1>3 DEF WriteSet
    <2> HIDE DEF new, way, n, all
    <2> QED
      BY <2>1, <2>2, <2>3, AgedSets, AgesDoNotMatter DEF n, all
  <1> QED
    BY <1>2, <1>3

\* Memory may change at a block the set does not hold.
LEMMA AbsentBlock ==
  ASSUME NEW set \in Set1, NEW a \in Addr, NEW m, NEW n,
         Good(set, Index1(a), m), ~ Hit(set, TagOf1(a)),
         \A b \in Block : b # a.blk => n[b] = m[b]
  PROVE  Good(set, Index1(a), n)
  <1>1. \A w \in Way1 : set[w].v = VALID => set[w].tag # TagOf1(a)
    BY MissMeansAbsent DEF Good
  <1>2. Holds(set, Index1(a), n)
    BY <1>1 DEF Good, Holds, TagOf1
  <1> QED
    BY <1>2 DEF Good

-----------------------------------------------------------------------------
(* Ages. *)

ZeroAges(set) == \A w \in Way1 : set[w].age = 0

\* LRU_age_update for a way of age 0 changes no age.
LEMMA NobodyIsYounger ==
  ASSUME NEW set \in Set1, ZeroAges(set), NEW way \in Way1
  PROVE  ZeroAges(AgeUpdate(set, way))
  <1> DEFINE new == AgeUpdate(set, way)
  <1>1. \A w \in 0 .. (L1Ways - 1) : set[way].age = 0 /\ w # way => new[w].age = set[w].age
    BY AgeUpdateFacts, WaysFacts DEF Set1
  <1>2. new[way].age = 0
    BY AgeUpdateFacts, WaysFacts DEF Set1
  <1> HIDE DEF new
  <1>3. ZeroAges(new)
    BY <1>1, <1>2, WaysFacts DEF ZeroAges
  <1> QED
    BY <1>3 DEF new

LEMMA FilledAges ==
  ASSUME NEW set \in Set1, ZeroAges(set), NEW a \in Addr, NEW line \in Line
  PROVE  ZeroAges(Filled(set, a, line))
  <1> DEFINE way == VictimWay(set)
             e == Fresh(a, line)
             new == Filled(set, a, line)
  <1>1. way \in Way1 /\ e.age = 0 /\ new = [set EXCEPT ![way] = e] /\ DOMAIN set = Way1
    BY FreshEntry DEF Filled, Insert, Fresh, Set1
  <1> HIDE DEF way, e, new
  <1>2. ZeroAges(new)
    BY <1>1 DEF ZeroAges
  <1> QED
    BY <1>2 DEF new

\* Reads alone never make an age grow.
LEMMA ReadSetAges ==
  ASSUME NEW set \in Set1, ZeroAges(set), NEW a \in Addr, NEW line \in Line
  PROVE  ZeroAges(ReadSet(set, a, line))
  <1>1. CASE Hit(set, TagOf1(a))
    <2>1. HitWay(set, TagOf1(a)) \in Way1
      BY <1>1, HitWayFacts DEF Set1
    <2> QED
      BY <1>1, <2>1, NobodyIsYounger DEF ReadSet
  <1>2. CASE ~ Hit(set, TagOf1(a))
    <2>1. Filled(set, a, line) \in Set1 /\ VictimWay(set) \in Way1
      BY FreshEntry
    <2>2. ZeroAges(Filled(set, a, line))
      BY FilledAges
    <2> QED
      BY <1>2, <2>1, <2>2, NobodyIsYounger DEF ReadSet
  <1> QED
    BY <1>1, <1>2

LEMMA SameKeepsValid ==
  ASSUME NEW set, NEW new, SameButAges(set, new)
  PROVE  KeepsValid(set, new)
  <1>1. \A w \in Way1 : 0 .. (w - 1) \subseteq Way1
    BY WaysFacts
  <1> QED
    BY <1>1 DEF SameButAges, KeepsValid, ValidFirst, Distinct

LEMMA ReadSetKeepsValid ==
  ASSUME NEW set \in Set1, NEW a \in Addr, NEW line \in Line
  PROVE  KeepsValid(set, ReadSet(set, a, line))
  <1>1. CASE Hit(set, TagOf1(a))
    <2>1. HitWay(set, TagOf1(a)) \in Way1
      BY <1>1, HitWayFacts DEF Set1
    <2> QED
      BY <1>1, <2>1, AgedSets, SameKeepsValid DEF ReadSet
  <1>2. CASE ~ Hit(set, TagOf1(a))
    <2> DEFINE new == Filled(set, a, line)
               way == VictimWay(set)
    <2>1. new \in Set1 /\ way \in Way1 /\ KeepsValid(set, new)
      BY <1>2, FreshEntry, FilledKeepsValid
    <2>2. ReadSet(set, a, line) = AgeUpdate(new, way)
      BY <1>2 DEF ReadSet
    <2> HIDE DEF new, way
    <2>3. KeepsValid(new, AgeUpdate(new, way))
      BY <2>1, AgedSets, SameKeepsValid
    <2> QED
      BY <2>1, <2>2, <2>3 DEF KeepsValid
  <1> QED
    BY <1>1, <1>2

LEMMA WriteSetKeepsValid ==
  ASSUME NEW set \in Set1, NEW a \in Addr, NEW line \in Line
  PROVE  KeepsValid(set, WriteSet(set, a, line))
  <1>1. CASE Hit(set, TagOf1(a))
    <2> DEFINE way == HitWay(set, TagOf1(a))
               aged == AgeUpdate(set, way)
               new == [aged EXCEPT ![way].line = line]
    <2>1. way \in Way1
      BY <1>1, HitWayFacts DEF Set1
    <2>2. aged \in Set1 /\ KeepsValid(set, aged)
      BY <2>1, Ages1, AgedSets, SameKeepsValid
    <2>3. WriteSet(set, a, line) = new
      BY <1>1 DEF WriteSet
    <2> HIDE DEF way, aged
    <2>4. \A w \in Way1 : new[w].v = aged[w].v /\ new[w].tag = aged[w].tag
      BY <2>1, <2>2 DEF Set1, Entry1
    <2> HIDE DEF new
    <2>5. KeepsValid(aged, new)
      BY <2>4, WaysFacts DEF KeepsValid, ValidFirst, Distinct
    <2> QED
      BY <2>2, <2>3, <2>5 DEF KeepsValid
  <1>2. CASE ~ Hit(set, TagOf1(a))
    <2> DEFINE new == Filled(set, a, line)
               way == VictimWay(set)
    <2>1. new \in Set1 /\ way \in Way1 /\ KeepsValid(set, new)
      BY <1>2, FreshEntry, FilledKeepsValid
    <2>2. \/ WriteSet(set, a, line) = AgeUpdate(new, way)
          \/ WriteSet(set, a, line) = AgeIncrease(new, L1Ways, way)
      BY <1>2 DEF WriteSet
    <2> HIDE DEF new, way
    <2>3. KeepsValid(new, AgeUpdate(new, way)) /\ KeepsValid(new, AgeIncrease(new, L1Ways, way))
      BY <2>1, AgedSets, SameKeepsValid
    <2> QED
      BY <2>1, <2>2, <2>3 DEF KeepsValid
  <1> QED
    BY <1>1, <1>2

\* What a call keeps of a stuck set.
KeepsStuck(set, new) ==
  Stuck(set) => Stuck(new) /\ \A w \in 0 .. (L1Ways - 2) : new[w].tag = set[w].tag

\* In a stuck set the victim is the last way, and the new entry does not age it.
LEMMA StuckVictim ==
  ASSUME NEW set \in Set1, Stuck(set), NEW a \in Addr, NEW line \in Line
  PROVE  /\ ~ HasPlace(set)
         /\ VictimWay(set) = L1Ways - 1
         /\ KeepsStuck(set, AgeUpdate(Filled(set, a, line), VictimWay(set)))
  <1> DEFINE way == VictimWay(set)
             filled == Filled(set, a, line)
             new == AgeUpdate(filled, way)
  <1>1. way \in Way1 /\ filled \in Set1
    BY FreshEntry
  <1>2. ~ HasPlace(set)
    BY DEF HasPlace, Places, Stuck, Set1, VALID, INVALID
  <1>3. way = L1Ways - 1
    <2>1. DOMAIN set = 0 .. (L1Ways - 1) /\ \A w \in 0 .. (L1Ways - 1) : set[w].age \in 0 .. 0
      BY WaysFacts DEF Stuck, Set1
    <2>2. IsOldest(set, ApplyLru(set)) /\ ApplyLru(set) \in 0 .. (L1Ways - 1)
      BY <2>1, ApplyLruFacts, WaysFacts
    <2>3. way = ApplyLru(set)
      BY <1>2 DEF VictimWay
    <2>4. \A u \in 0 .. (L1Ways - 1) : ~ (u > way)
      BY <2>1, <2>2, <2>3 DEF IsOldest
    <2> HIDE DEF way
    <2>5. L1Ways - 1 \in 0 .. (L1Ways - 1) /\ way \in 0 .. (L1Ways - 1)
      BY <1>1, WaysFacts
    <2> QED
      BY <2>4, <2>5, WaysFacts
  <1>4. /\ \A w \in Way1 : filled[w].v = VALID /\ filled[w].age = 0
        /\ \A w \in Way1 : w # way => filled[w].tag = set[w].tag
    BY <1>1 DEF Filled, Insert, Fresh, Set1, Stuck
  <1>5. ZeroAges(new) /\ SameButAges(filled, new)
    <2>1. ZeroAges(filled)
      BY <1>4 DEF ZeroAges
    <2> HIDE DEF way, filled
    <2> QED
      BY <1>1, <2>1, NobodyIsYounger, AgedSets
  <1>6. \A w \in 0 .. (L1Ways - 2) : w \in Way1 /\ w # L1Ways - 1
    BY WaysFacts
  <1> HIDE DEF way, filled, new
  <1>7. Stuck(new) /\ \A w \in 0 .. (L1Ways - 2) : new[w].tag = set[w].tag
    BY <1>3, <1>4, <1>5, <1>6 DEF Stuck, ZeroAges, SameButAges
  <1> QED
    BY <1>2, <1>3, <1>7 DEF KeepsStuck, way, filled, new

LEMMA StuckHit ==
  ASSUME NEW set \in Set1, Stuck(set), NEW way \in Way1
  PROVE  /\ Stuck(AgeUpdate(set, way))
         /\ \A w \in Way1 : AgeUpdate(set, way)[w].tag = set[w].tag
  <1>1. ZeroAges(AgeUpdate(set, way)) /\ SameButAges(set, AgeUpdate(set, way))
    BY NobodyIsYounger, AgedSets DEF Stuck, ZeroAges
  <1> QED
    BY <1>1 DEF Stuck, ZeroAges, SameButAges

LEMMA ReadSetStuck ==
  ASSUME NEW set \in Set1, NEW a \in Addr, NEW line \in Line
  PROVE  KeepsStuck(set, ReadSet(set, a, line))
  <1> SUFFICES ASSUME Stuck(set) PROVE KeepsStuck(set, ReadSet(set, a, line))
    BY DEF KeepsStuck
  <1>1. CASE Hit(set, TagOf1(a))
    <2>1. HitWay(set, TagOf1(a)) \in Way1 /\ 0 .. (L1Ways - 2) \subseteq Way1
      BY <1>1, HitWayFacts, WaysFacts DEF Set1
    <2> QED
      BY <1>1, <2>1, StuckHit DEF ReadSet, KeepsStuck
  <1>2. CASE ~ Hit(set, TagOf1(a))
    BY <1>2, StuckVictim DEF ReadSet
  <1> QED
    BY <1>1, <1>2

LEMMA WriteSetStuck ==
  ASSUME NEW set \in Set1, NEW a \in Addr, NEW line \in Line
  PROVE  KeepsStuck(set, WriteSet(set, a, line))
  <1> SUFFICES ASSUME Stuck(set) PROVE KeepsStuck(set, WriteSet(set, a, line))
    BY DEF KeepsStuck
  <1>1. CASE Hit(set, TagOf1(a))
    <2> DEFINE way == HitWay(set, TagOf1(a))
               aged == AgeUpdate(set, way)
               new == [aged EXCEPT ![way].line = line]
    <2>1. way \in Way1 /\ 0 .. (L1Ways - 2) \subseteq Way1
      BY <1>1, HitWayFacts, WaysFacts DEF Set1
    <2>2. Stuck(aged) /\ aged \in Set1 /\ \A w \in Way1 : aged[w].tag = set[w].tag
      BY <2>1, StuckHit, Ages1
    <2>3. WriteSet(set, a, line) = new
      BY <1>1 DEF WriteSet
    <2> HIDE DEF way, aged
    <2>4. \A w \in Way1 : new[w].v = aged[w].v /\ new[w].age = aged[w].age /\ new[w].tag = aged[w].tag
      BY <2>1, <2>2 DEF Set1, Entry1
    <2> HIDE DEF new
    <2> QED
      BY <2>1, <2>2, <2>3, <2>4 DEF Stuck, KeepsStuck
  <1>2. CASE ~ Hit(set, TagOf1(a))
    BY <1>2, StuckVictim DEF WriteSet
  <1> QED
    BY <1>1, <1>2

\* A set whose ages alone change, as when the new entry of a call is not allocated.
LEMMA AgedStuck ==
  ASSUME NEW set \in Set1, NEW way \in Way1
  PROVE  /\ KeepsStuck(set, AgeUpdate(set, way))
         /\ HasPlace(set) => KeepsStuck(set, AgeIncrease(set, L1Ways, way))
  <1>1. KeepsStuck(set, AgeUpdate(set, way))
    <2>1. 0 .. (L1Ways - 2) \subseteq Way1
      BY WaysFacts
    <2> QED
      BY <2>1, StuckHit DEF KeepsStuck
  <1>2. HasPlace(set) => ~ Stuck(set)
    BY DEF HasPlace, Places, Stuck, Set1, VALID, INVALID
  <1> QED
    BY <1>1, <1>2 DEF KeepsStuck

-----------------------------------------------------------------------------
(* The calls at an aligned address: with L2 empty they are one set's. *)

SetOf(s, k, a) == s.l1[k][Index1(a)]

\* The line a write stores: the word put into the cached line, or into memory's.
WrittenLine(s, a, data) ==
  LET set == SetOf(s, "L1_DCACHE", a)
  IN IF Hit(set, TagOf1(a)) THEN [set[HitWay(set, TagOf1(a))].line EXCEPT ![a.word] = data]
     ELSE [s.mem[a.blk] EXCEPT ![a.word] = data]

LEMMA AlignedInMemory ==
  ASSUME NEW a \in Addr, Aligned(a)
  PROVE  InMemory(a) /\ Index1(a) \in Line1 /\ a.blk \in Block /\ a.word \in WordIdx
  BY IndexFacts DEF InMemory, Addr

LEMMA AlignedEntry ==
  ASSUME NEW m \in Memory, NEW a \in Addr, Aligned(a), NEW g
  PROVE  EntryInit(m, a, TagOf1(a), g) = Fresh(a, m[a.blk])
  BY AlignedMemLine DEF EntryInit, Fresh

LEMMA AlignedRead ==
  ASSUME NEW s \in State, L2Empty(s.l2), NEW k \in L1Kinds, NEW a \in Addr, Aligned(a),
         NEW g \in Entry1, NEW r, r = CacheRead(s, k, a, g)
  PROVE  /\ r.mem = s.mem
         /\ r.l1 = [s.l1 EXCEPT ![k][Index1(a)] = ReadSet(SetOf(s, k, a), a, s.mem[a.blk])]
         /\ ~ Hit(SetOf(s, k, a), TagOf1(a)) => r.word = s.mem[a.blk][a.word]
         /\ Hit(SetOf(s, k, a), TagOf1(a)) =>
              r.word = SetOf(s, k, a)[HitWay(SetOf(s, k, a), TagOf1(a))].line[a.word]
  <1> DEFINE set == SetOf(s, k, a)
  <1>1. ~ Hit(s.l2[Index2(a)], TagOf2(a)) /\ s.mem \in Memory
    BY AlignedInMemory, NoL2Hit DEF State
  <1>2. CASE Hit(set, TagOf1(a))
    <2>1. r = ReadL1Hit(s, k, a)
      BY <1>2 DEF CacheRead, SetOf
    <2> QED
      BY <1>2, <2>1 DEF ReadL1Hit, ReadSet, SetOf, State
  <1>3. CASE ~ Hit(set, TagOf1(a))
    <2>1. r = ReadMiss(s, k, a, g)
      BY <1>1, <1>3 DEF CacheRead, SetOf
    <2>2. EntryInit(s.mem, a, TagOf1(a), g) = Fresh(a, s.mem[a.blk])
      BY <1>1, AlignedEntry
    <2>3. Fresh(a, s.mem[a.blk]).line = s.mem[a.blk]
      BY DEF Fresh
    <2>4. ReadSet(set, a, s.mem[a.blk]) =
            AgeUpdate(Insert(set, VictimWay(set), Fresh(a, s.mem[a.blk])), VictimWay(set))
      BY <1>3 DEF ReadSet, Filled
    <2> QED
      BY <1>3, <2>1, <2>2, <2>3, <2>4 DEF ReadMiss, SetOf, State
  <1> QED
    BY <1>2, <1>3

LEMMA AlignedWrite ==
  ASSUME NEW s \in State, L2Empty(s.l2), NEW a \in Addr, Aligned(a),
         NEW data \in Word, NEW g \in Entry1, NEW r, r = CacheWrite(s, a, data, g),
         NEW line, line = WrittenLine(s, a, data)
  PROVE  /\ line \in Line
         /\ r.mem = [s.mem EXCEPT ![a.blk] = line]
         /\ r.l1 = [s.l1 EXCEPT !["L1_DCACHE"][Index1(a)] =
                      WriteSet(SetOf(s, "L1_DCACHE", a), a, line)]
  <1> DEFINE k == "L1_DCACHE"
             set == SetOf(s, k, a)
             way == HitWay(set, TagOf1(a))
  <1>1. ~ Hit(L2AsL1(s, Index1(a)), TagOf1(a)) /\ s.mem \in Memory /\ set \in Set1
    BY AlignedInMemory, NoL2Hit DEF State, Caches1, SetOf, L1Kinds
  <1>2. a.word \in WordIdx /\ a.blk \in Block
    BY AlignedInMemory
  <1>3. CASE Hit(set, TagOf1(a))
    <2>1. r = WriteL1Hit(s, a, data)
      BY <1>3 DEF CacheWrite, SetOf
    <2>2. line = [set[way].line EXCEPT ![a.word] = data]
      BY <1>3 DEF WrittenLine
    <2>3. line \in Line
      <3>1. set[way].line \in Line
        BY <1>1, <1>3, HitWayFacts DEF Set1, Entry1
      <3> QED
        BY <1>2, <2>2, <3>1 DEF Line
    <2>4. MemPut(s.mem, a, line) = [s.mem EXCEPT ![a.blk] = line]
      BY <1>1, <2>3, AlignedMemPut
    <2>5. WriteSet(set, a, line) = [AgeUpdate(set, way) EXCEPT ![way].line = line]
      BY <1>3 DEF WriteSet
    <2> DEFINE new == WriteSet(set, a, line)
               m == [s.mem EXCEPT ![a.blk] = line]
    <2>6. r = [s EXCEPT !.l1[k][Index1(a)] = new, !.mem = m]
      <3>1. r = [s EXCEPT !.l1[k][Index1(a)] = [AgeUpdate(set, way) EXCEPT ![way].line = line],
                          !.mem = MemPut(s.mem, a, line)]
        BY <2>1, <2>2 DEF WriteL1Hit, SetOf
      <3> HIDE DEF set, way, m
      <3> QED
        BY <2>4, <2>5, <3>1 DEF m
    <2>7. r.mem = m /\ r.l1 = [s.l1 EXCEPT ![k][Index1(a)] = new]
      <3> HIDE DEF new, m, set
      <3> QED
        BY <2>6 DEF State
    <2> QED
      BY <2>3, <2>7
  <1>4. CASE ~ Hit(set, TagOf1(a))
    <2> DEFINE m == [s.mem EXCEPT ![a.blk] = line]
               e == EntryInit(m, a, TagOf1(a), g)
    <2>1. r = WriteMiss(s, a, data, g)
      BY <1>1, <1>4 DEF CacheWrite, SetOf
    <2>2. line = [MemLine(s.mem, a) EXCEPT ![a.word] = data]
      BY <1>1, <1>4, AlignedMemLine DEF WrittenLine
    <2>3. line \in Line
      BY <1>1, <1>2, <2>2, AlignedInMemory, MemLineInLine DEF Line
    <2>4. MemPut(s.mem, a, line) = m
      BY <1>1, <2>3, AlignedMemPut
    <2>5. m \in Memory /\ m[a.blk] = line
      BY <1>1, <1>2, <2>3 DEF Memory
    <2>6. e = Fresh(a, line)
      <3> HIDE DEF m
      <3> QED
        BY <2>5, AlignedEntry
    <2>7. r = IF HasPlace(set)
              THEN [s EXCEPT !.mem = m,
                             !.l1[k][Index1(a)] =
                               AgeIncrease(Insert(set, VictimWay(set), e), L1Ways, VictimWay(set))]
              ELSE [s EXCEPT !.mem = m,
                             !.l1[k][Index1(a)] =
                               AgeUpdate(Insert(set, VictimWay(set), e), VictimWay(set)),
                             !.l2[Index2(a)] = PutVictim(@, VictimOf1(set[VictimWay(set)]))]
      <3> HIDE DEF m
      <3> QED
        BY <2>1, <2>2, <2>4 DEF WriteMiss, SetOf, State
    <2>8. WriteSet(set, a, line) =
            IF HasPlace(set)
            THEN AgeIncrease(Insert(set, VictimWay(set), e), L1Ways, VictimWay(set))
            ELSE AgeUpdate(Insert(set, VictimWay(set), e), VictimWay(set))
      BY <1>4, <2>6 DEF WriteSet, Filled
    <2> DEFINE new == WriteSet(set, a, line)
    <2>9. r.mem = m /\ r.l1 = [s.l1 EXCEPT ![k][Index1(a)] = new]
      <3> HIDE DEF e, m, set
      <3>1. CASE HasPlace(set)
        <4>1. r = [s EXCEPT !.mem = m, !.l1[k][Index1(a)] = new]
          BY <2>7, <2>8, <3>1
        <4> HIDE DEF new
        <4> QED
          BY <4>1 DEF State
      <3>2. CASE ~ HasPlace(set)
        <4>1. r = [s EXCEPT !.mem = m, !.l1[k][Index1(a)] = new,
                            !.l2[Index2(a)] = PutVictim(@, VictimOf1(set[VictimWay(set)]))]
          BY <2>7, <2>8, <3>2
        <4> HIDE DEF new
        <4> QED
          BY <4>1 DEF State
      <3> QED
        BY <3>1, <3>2
    <2> QED
      BY <2>3, <2>9
  <1> QED
    BY <1>3, <1>4

\* A write whose entry is not allocated: memory gets the line, and the set its ages.
AgedSet(set) ==
  IF HasPlace(set) THEN AgeIncrease(set, L1Ways, VictimWay(set)) ELSE AgeUpdate(set, VictimWay(set))

LEMMA AgedSetFacts ==
  ASSUME NEW set \in Set1
  PROVE  SameButAges(set, AgedSet(set)) /\ KeepsStuck(set, AgedSet(set))
  BY VictimWayFacts, AgedSets, AgedStuck DEF AgedSet

LEMMA AlignedUnallocated ==
  ASSUME NEW s \in State, NEW a \in Addr, Aligned(a), NEW data \in Word,
         NEW r, r = WriteUnallocated(s, a, data)
  PROVE  /\ r.mem = [s.mem EXCEPT ![a.blk] = [s.mem[a.blk] EXCEPT ![a.word] = data]]
         /\ r.l1 = [s.l1 EXCEPT !["L1_DCACHE"][Index1(a)] = AgedSet(SetOf(s, "L1_DCACHE", a))]
  <1> DEFINE k == "L1_DCACHE"
             i == Index1(a)
             set == SetOf(s, k, a)
             line == [s.mem[a.blk] EXCEPT ![a.word] = data]
             m == [s.mem EXCEPT ![a.blk] = line]
             new == AgedSet(set)
             old == PutVictim(s.l2[Index2(a)], VictimOf1(set[VictimWay(set)]))
  <1>1. s.mem \in Memory /\ a.word \in WordIdx /\ a.blk \in Block
    BY AlignedInMemory DEF State
  <1>2. [MemLine(s.mem, a) EXCEPT ![a.word] = data] = line /\ line \in Line
    BY <1>1, AlignedMemLine DEF Memory, Line
  <1>3. MemPut(s.mem, a, line) = m
    <2> HIDE DEF line
    <2> QED
      BY <1>1, <1>2, AlignedMemPut
  <1>4. r = IF HasPlace(set) THEN [s EXCEPT !.mem = m, !.l1[k][i] = new]
            ELSE [s EXCEPT !.mem = m, !.l1[k][i] = new, !.l2[Index2(a)] = old]
    <2> DEFINE put == MemPut(s.mem, a, [MemLine(s.mem, a) EXCEPT ![a.word] = data])
    <2>1. r = IF HasPlace(set) THEN [s EXCEPT !.mem = put, !.l1[k][i] = new]
              ELSE [s EXCEPT !.mem = put, !.l1[k][i] = new, !.l2[Index2(a)] = old]
      BY DEF WriteUnallocated, SetOf, AgedSet
    <2>2. put = m
      BY <1>2, <1>3
    <2> HIDE DEF put, m, new, old, set, i, k
    <2> QED
      BY <2>1, <2>2
  <1> HIDE DEF m, new, old
  <1>5. r.mem = m /\ r.l1 = [s.l1 EXCEPT ![k][i] = new]
    BY <1>4 DEF State
  <1> QED
    BY <1>5 DEF m, new

-----------------------------------------------------------------------------
(***************************************************************************)
(* The whole hierarchy.  No block of the instruction L1 is ever written,   *)
(* and memory may change at a block only where the data L1 alone may hold  *)
(* it; the three invariants then hold of every set.                        *)
(***************************************************************************)
WrittenBlocks == {d.addr.blk : d \in Writes \cup ByteWrites}

NotWritten(set, i) ==
  \A w \in Way1, b \in Block :
    set[w].v = VALID /\ set[w].tag = b \div L1Lines /\ i = b % L1Lines => b \notin WrittenBlocks

GoodState(s) ==
  /\ \A k \in L1Kinds, i \in Line1 : Good(s.l1[k][i], i, s.mem)
  /\ \A i \in Line1 : NotWritten(s.l1["L1_ICACHE"][i], i)

LEMMA ReadSetNotWritten ==
  ASSUME NEW set \in Set1, NEW a \in Addr, NEW line \in Line, NotWritten(set, Index1(a)),
         a.blk \notin WrittenBlocks
  PROVE  NotWritten(ReadSet(set, a, line), Index1(a))
  <1> DEFINE tag == TagOf1(a)
             i == Index1(a)
  <1>1. CASE Hit(set, tag)
    <2>1. HitWay(set, tag) \in Way1
      BY <1>1, HitWayFacts DEF Set1
    <2>2. SameButAges(set, ReadSet(set, a, line))
      BY <1>1, <2>1, AgedSets DEF ReadSet
    <2> QED
      BY <2>2 DEF SameButAges, NotWritten
  <1>2. CASE ~ Hit(set, tag)
    <2> DEFINE way == VictimWay(set)
               filled == Filled(set, a, line)
               new == ReadSet(set, a, line)
    <2>1. way \in Way1 /\ filled \in Set1
      BY FreshEntry
    <2>2. filled[way].tag = tag /\ \A w \in Way1 : w # way => filled[w] = set[w]
      BY <2>1 DEF Filled, Insert, Fresh, Set1
    <2>3. SameButAges(filled, new)
      <3> HIDE DEF way, filled
      <3> QED
        BY <1>2, <2>1, AgedSets DEF ReadSet, way, filled
    <2> HIDE DEF way, filled, new
    <2>4. ASSUME NEW w \in Way1, NEW b \in Block, new[w].v = VALID,
                 new[w].tag = b \div L1Lines, i = b % L1Lines
          PROVE  b \notin WrittenBlocks
      <3>1. CASE w = way
        <4>1. b = a.blk
          BY <2>2, <2>3, <2>4, <3>1, BlockOfTag DEF SameButAges, TagOf1, Index1, Addr
        <4> QED
          BY <4>1
      <3>2. CASE w # way
        BY <2>2, <2>3, <2>4, <3>2 DEF SameButAges, NotWritten
      <3> QED
        BY <3>1, <3>2
    <2> QED
      BY <2>4 DEF NotWritten, new
  <1> QED
    BY <1>1, <1>2

\* A call changes one set, and memory at most at a block only the data L1 may hold.
LEMMA OneSetChanges ==
  ASSUME NEW s \in State, GoodState(s), NEW k \in L1Kinds, NEW a \in Addr, NEW new,
         NEW r, r.l1 = [s.l1 EXCEPT ![k][Index1(a)] = new],
         Good(new, Index1(a), r.mem),
         k = "L1_ICACHE" => NotWritten(new, Index1(a)),
         \A b \in Block : b # a.blk => r.mem[b] = s.mem[b],
         r.mem = s.mem \/ (k = "L1_DCACHE" /\ a.blk \in WrittenBlocks)
  PROVE  GoodState(r)
  <1> DEFINE i == Index1(a)
  <1>1. s.l1 \in Caches1 /\ i \in Line1 /\ a.blk \in Block
    BY IndexFacts DEF State, Addr
  <1>2. ASSUME NEW j \in L1Kinds, NEW n \in Line1
        PROVE  r.l1[j][n] = IF j = k /\ n = i THEN new ELSE s.l1[j][n]
    BY <1>1 DEF Caches1
  <1>3. ASSUME NEW j \in L1Kinds, NEW n \in Line1
        PROVE  Good(r.l1[j][n], n, r.mem)
    <2>1. CASE j = k /\ n = i
      BY <1>2, <2>1
    <2>2. CASE ~ (j = k /\ n = i)
      <3>1. r.l1[j][n] = s.l1[j][n] /\ Good(s.l1[j][n], n, s.mem)
        BY <1>2, <2>2 DEF GoodState
      <3>2. ASSUME NEW w \in Way1, NEW b \in Block, s.l1[j][n][w].v = VALID,
                   s.l1[j][n][w].tag = b \div L1Lines, n = b % L1Lines
            PROVE  r.mem[b] = s.mem[b]
        <4>1. CASE r.mem = s.mem
          BY <4>1
        <4>2. CASE k = "L1_DCACHE" /\ a.blk \in WrittenBlocks /\ j = "L1_DCACHE"
          <5>1. b # a.blk
            BY <2>2, <3>2, <4>2 DEF Index1
          <5> QED
            BY <5>1
        <4>3. CASE k = "L1_DCACHE" /\ a.blk \in WrittenBlocks /\ j = "L1_ICACHE"
          <5>1. b \notin WrittenBlocks
            BY <3>2, <4>3 DEF GoodState, NotWritten
          <5> QED
            BY <4>3, <5>1
        <4> QED
          BY <4>1, <4>2, <4>3 DEF L1Kinds
      <3>3. Holds(s.l1[j][n], n, r.mem)
        BY <3>1, <3>2 DEF Good, Holds
      <3> QED
        BY <3>1, <3>3 DEF Good
    <2> QED
      BY <2>1, <2>2
  <1>4. ASSUME NEW n \in Line1
        PROVE  NotWritten(r.l1["L1_ICACHE"][n], n)
    <2>1. CASE "L1_ICACHE" = k /\ n = i
      BY <1>2, <2>1
    <2>2. CASE ~ ("L1_ICACHE" = k /\ n = i)
      <3>1. r.l1["L1_ICACHE"][n] = s.l1["L1_ICACHE"][n]
        BY <1>2, <2>2 DEF L1Kinds
      <3> QED
        BY <3>1 DEF GoodState
    <2> QED
      BY <2>1, <2>2
  <1> QED
    BY <1>3, <1>4 DEF GoodState

\* cache_read gives what memory holds, and keeps the hierarchy good.
LEMMA ReadKeepsGood ==
  ASSUME NEW s \in State, L2Empty(s.l2), GoodState(s), NEW k \in L1Kinds,
         NEW a \in Addr, Aligned(a), k = "L1_ICACHE" => a.blk \notin WrittenBlocks,
         NEW g \in Entry1, NEW r, r = CacheRead(s, k, a, g)
  PROVE  GoodState(r) /\ r.mem = s.mem /\ r.word = s.mem[a.blk][a.word]
  <1> DEFINE set == SetOf(s, k, a)
             new == ReadSet(set, a, s.mem[a.blk])
  <1>1. /\ s.mem \in Memory /\ set \in Set1 /\ Index1(a) \in Line1 /\ a.blk \in Block
        /\ Good(set, Index1(a), s.mem)
    BY AlignedInMemory DEF State, Caches1, SetOf, GoodState
  <1>2. /\ r.mem = s.mem /\ r.l1 = [s.l1 EXCEPT ![k][Index1(a)] = new]
        /\ ~ Hit(set, TagOf1(a)) => r.word = s.mem[a.blk][a.word]
        /\ Hit(set, TagOf1(a)) => r.word = set[HitWay(set, TagOf1(a))].line[a.word]
    BY AlignedRead
  <1>3. Hit(set, TagOf1(a)) => set[HitWay(set, TagOf1(a))].line = s.mem[a.blk]
    BY <1>1, HitHolds DEF Good
  <1>4. Good(new, Index1(a), s.mem)
    BY <1>1, ReadSetFacts
  <1>5. k = "L1_ICACHE" => NotWritten(new, Index1(a))
    <2>1. SUFFICES ASSUME k = "L1_ICACHE" PROVE NotWritten(new, Index1(a))
      OBVIOUS
    <2>2. NotWritten(set, Index1(a))
      BY <1>1, <2>1 DEF GoodState, SetOf
    <2>3. s.mem[a.blk] \in Line
      BY <1>1 DEF Memory
    <2> QED
      BY <1>1, <2>1, <2>2, <2>3, ReadSetNotWritten
  <1> HIDE DEF new, set
  <1>6. GoodState(r)
    BY <1>2, <1>4, <1>5, OneSetChanges
  <1> QED
    BY <1>2, <1>3, <1>6

\* cache_write changes the word in memory and keeps the hierarchy good.
LEMMA WriteKeepsGood ==
  ASSUME NEW s \in State, L2Empty(s.l2), GoodState(s), NEW a \in Addr, Aligned(a),
         a.blk \in WrittenBlocks, NEW data \in Word, NEW g \in Entry1,
         NEW r, r = CacheWrite(s, a, data, g)
  PROVE  GoodState(r) /\ r.mem = [s.mem EXCEPT ![a.blk][a.word] = data]
  <1> DEFINE k == "L1_DCACHE"
             set == SetOf(s, k, a)
             line == WrittenLine(s, a, data)
             new == WriteSet(set, a, line)
  <1>1. /\ s.mem \in Memory /\ set \in Set1 /\ Index1(a) \in Line1 /\ a.blk \in Block
        /\ Good(set, Index1(a), s.mem) /\ k \in L1Kinds
    BY AlignedInMemory DEF State, Caches1, SetOf, GoodState, L1Kinds
  <1>2. /\ line \in Line /\ r.mem = [s.mem EXCEPT ![a.blk] = line]
        /\ r.l1 = [s.l1 EXCEPT ![k][Index1(a)] = new]
    BY AlignedWrite
  <1>3. Hit(set, TagOf1(a)) => set[HitWay(set, TagOf1(a))].line = s.mem[a.blk]
    BY <1>1, HitHolds DEF Good
  <1>4. line = [s.mem[a.blk] EXCEPT ![a.word] = data]
    BY <1>3 DEF WrittenLine
  <1>5. Good(new, Index1(a), r.mem)
    BY <1>1, <1>2, WriteSetFacts
  <1>6. \A b \in Block : b # a.blk => r.mem[b] = s.mem[b]
    BY <1>1, <1>2 DEF Memory
  <1> HIDE DEF new, set, line
  <1>7. GoodState(r)
    <2>1. k = "L1_ICACHE" => NotWritten(new, Index1(a))
      OBVIOUS
    <2>2. r.mem = s.mem \/ (k = "L1_DCACHE" /\ a.blk \in WrittenBlocks)
      OBVIOUS
    <2>3. k \in L1Kinds /\ r.l1 = [s.l1 EXCEPT ![k][Index1(a)] = new]
      BY <1>1, <1>2
    <2> HIDE DEF k
    <2> QED
      BY <1>5, <1>6, <2>1, <2>2, <2>3, OneSetChanges
  <1>8. r.mem = [s.mem EXCEPT ![a.blk][a.word] = data]
    BY <1>1, <1>2, <1>4 DEF Memory
  <1> QED
    BY <1>7, <1>8

\* So does a write without its entry, when no cache has the block.
LEMMA UnallocatedKeepsGood ==
  ASSUME NEW s \in State, GoodState(s), NEW a \in Addr, Aligned(a),
         a.blk \in WrittenBlocks, NEW data \in Word, WriteMisses(s, a),
         NEW r, r = WriteUnallocated(s, a, data)
  PROVE  GoodState(r) /\ r.mem = [s.mem EXCEPT ![a.blk][a.word] = data]
  <1> DEFINE k == "L1_DCACHE"
             set == SetOf(s, k, a)
             new == AgedSet(set)
             line == [s.mem[a.blk] EXCEPT ![a.word] = data]
  <1>1. /\ s.mem \in Memory /\ set \in Set1 /\ Index1(a) \in Line1 /\ a.blk \in Block
        /\ Good(set, Index1(a), s.mem) /\ k \in L1Kinds
    BY AlignedInMemory DEF State, Caches1, SetOf, GoodState, L1Kinds
  <1>2. r.mem = [s.mem EXCEPT ![a.blk] = line] /\ r.l1 = [s.l1 EXCEPT ![k][Index1(a)] = new]
    BY AlignedUnallocated
  <1>3. ~ Hit(set, TagOf1(a))
    BY DEF WriteMisses, SetOf
  <1> HIDE DEF set
  <1>4. \A b \in Block : b # a.blk => r.mem[b] = s.mem[b]
    BY <1>1, <1>2 DEF Memory
  <1>5. Good(new, Index1(a), r.mem)
    <2>1. Good(set, Index1(a), r.mem)
      BY <1>1, <1>3, <1>4, AbsentBlock
    <2> QED
      BY <1>1, <2>1, AgedSetFacts, AgesDoNotMatter
  <1> HIDE DEF new
  <1>6. GoodState(r)
    <2>1. k = "L1_ICACHE" => NotWritten(new, Index1(a))
      OBVIOUS
    <2>2. r.mem = s.mem \/ (k = "L1_DCACHE" /\ a.blk \in WrittenBlocks)
      OBVIOUS
    <2>3. k \in L1Kinds /\ r.l1 = [s.l1 EXCEPT ![k][Index1(a)] = new]
      BY <1>1, <1>2
    <2> HIDE DEF k
    <2> QED
      BY <1>4, <1>5, <2>1, <2>2, <2>3, OneSetChanges
  <1> QED
    BY <1>2, <1>6

\* A call that fails changes at most the ages of the set it hit.
HitAged(set, a) == AgeUpdate(set, HitWay(set, TagOf1(a)))

LEMMA WriteFailedAges ==
  ASSUME NEW s \in State, L2Empty(s.l2), NEW a \in Addr, Aligned(a), NEW data,
         NEW r \in WriteFailed(s, a, data), r # s
  PROVE  /\ SameButAges(SetOf(s, "L1_DCACHE", a), HitAged(SetOf(s, "L1_DCACHE", a), a))
         /\ KeepsStuck(SetOf(s, "L1_DCACHE", a), HitAged(SetOf(s, "L1_DCACHE", a), a))
         /\ r.l1 = [s.l1 EXCEPT !["L1_DCACHE"][Index1(a)] = HitAged(SetOf(s, "L1_DCACHE", a), a)]
         /\ r.mem = s.mem
  <1> DEFINE k == "L1_DCACHE"
             set == SetOf(s, k, a)
             way == HitWay(set, TagOf1(a))
             new == HitAged(set, a)
  <1>1. set \in Set1
    BY AlignedInMemory DEF State, Caches1, SetOf, L1Kinds
  <1>2. ~ Hit(L2AsL1(s, Index1(a)), TagOf1(a))
    BY AlignedInMemory, NoL2Hit
  <1>3. Hit(set, TagOf1(a)) /\ r = [s EXCEPT !.l1[k][Index1(a)] = new]
    BY <1>2 DEF WriteFailed, SetOf, HitAged
  <1>4. way \in Way1
    BY <1>1, <1>3, HitWayFacts DEF Set1
  <1>5. SameButAges(set, new) /\ KeepsStuck(set, new)
    BY <1>1, <1>4, AgedSets, AgedStuck DEF HitAged
  <1> HIDE DEF new, set
  <1>6. r.l1 = [s.l1 EXCEPT ![k][Index1(a)] = new] /\ r.mem = s.mem
    BY <1>3 DEF State
  <1> QED
    BY <1>5, <1>6 DEF set, new

LEMMA WriteFailedKeepsGood ==
  ASSUME NEW s \in State, L2Empty(s.l2), GoodState(s), NEW a \in Addr, Aligned(a), NEW data,
         NEW r \in WriteFailed(s, a, data)
  PROVE  GoodState(r) /\ r.mem = s.mem
  <1>1. CASE r = s
    BY <1>1
  <1>2. CASE r # s
    <2> DEFINE k == "L1_DCACHE"
               set == SetOf(s, k, a)
               new == HitAged(set, a)
    <2>1. /\ SameButAges(set, new) /\ KeepsStuck(set, new)
          /\ r.l1 = [s.l1 EXCEPT ![k][Index1(a)] = new] /\ r.mem = s.mem
      BY <1>2, WriteFailedAges
    <2>2. Good(set, Index1(a), s.mem) /\ k \in L1Kinds /\ k # "L1_ICACHE"
      BY AlignedInMemory DEF SetOf, GoodState, L1Kinds
    <2>3. Good(new, Index1(a), r.mem)
      BY <2>1, <2>2, AgesDoNotMatter
    <2> HIDE DEF k, set, new
    <2>4. GoodState(r)
      BY <2>1, <2>2, <2>3, OneSetChanges
    <2> QED
      BY <2>1, <2>4
  <1> QED
    BY <1>1, <1>2

-----------------------------------------------------------------------------
(* The steps. *)

Caches == [l1 |-> l1, mem |-> mem]

CInv == IInv /\ GoodState(Caches)

\* The call of FlatMemory that a call of cache_read is.
FlatCall(c) == [cache |-> CacheOf(c.type), addr |-> c.addr, bytes |-> Selected(c.size, c.addr)]

LEMMA BeforeGood ==
  ASSUME CInv, NEW word \in GarbageWords
  PROVE  /\ Before(word) \in State /\ L2Empty(Before(word).l2) /\ GoodState(Before(word))
         /\ Before(word).mem = mem /\ Before(word).l1 = l1
  <1>1. Before(word) \in State /\ L2Empty(Before(word).l2)
    BY BeforeState DEF CInv
  <1> QED
    BY <1>1 DEF CInv, Caches, Before, GoodState

LEMMA AfterGood ==
  ASSUME NEW r, GoodState(r), After(r)
  PROVE  GoodState(Caches)'
  BY DEF After, Caches, GoodState

LEMMA ReadCoherent ==
  ASSUME CoherentCalls, CInv, NEW c \in Reads, Read(c)
  PROVE  GoodState(Caches)' /\ Flat!Read(FlatCall(c))
  <1> DEFINE k == CacheOf(c.type)
             a == c.addr
  <1>1. PICK g \in Garbage, word \in GarbageWords :
          LET s == CacheRead(Before(word), k, a, g)
          IN /\ After(s)
             /\ ret' = [op |-> "READ", cache |-> k, addr |-> a,
                        data |-> [b \in Selected(c.size, a) |-> s.word[b]]]
    BY DEF Read
  <1> DEFINE r == CacheRead(Before(word), k, a, g)
  <1>2. k \in L1Kinds /\ a \in Addr /\ Aligned(a) /\ g \in Entry1
    BY CallsAssumption DEF CacheOf, L1Kinds, CoherentCalls, AlignedCalls, WordAligned, InMemory
  <1>3. k = "L1_ICACHE" => a.blk \notin WrittenBlocks
    BY CallsAssumption DEF CacheOf, CoherentCalls, CodeNeverWritten, WrittenBlocks
  <1>4. GoodState(r) /\ r.mem = mem /\ r.word = mem[a.blk][a.word]
    <2> HIDE DEF k, a
    <2> QED
      BY <1>2, <1>3, BeforeGood, ReadKeepsGood
  <1>5. After(r) /\ ret' = [op |-> "READ", cache |-> k, addr |-> a,
                            data |-> [b \in Selected(c.size, a) |-> r.word[b]]]
    BY <1>1
  <1> HIDE DEF r
  <1>6. mem' = mem
    BY <1>4, <1>5 DEF After
  <1>7. ret' = [op |-> "READ", cache |-> k, addr |-> a,
                data |-> [b \in Selected(c.size, a) |-> mem[a.blk][a.word][b]]]
    BY <1>4, <1>5
  <1>8. Flat!Read(FlatCall(c))
    BY <1>6, <1>7 DEF Flat!Read, FlatCall
  <1> QED
    BY <1>4, <1>5, <1>8, AfterGood

\* A word stored over a word is FlatMemory's way of writing it.
LEMMA FlatWriteOf ==
  ASSUME mem \in Memory, NEW a \in Addr, NEW data \in Word
  PROVE  [mem EXCEPT ![a.blk][a.word] = data] =
         [mem EXCEPT ![a.blk][a.word] =
            [b \in DOMAIN @ |-> IF b \in DOMAIN data THEN data[b] ELSE @[b]]]
  <1>1. mem[a.blk][a.word] \in Word
    BY DEF Memory, Line, Addr
  <1>2. data = [b \in DOMAIN mem[a.blk][a.word] |->
                  IF b \in DOMAIN data THEN data[b] ELSE mem[a.blk][a.word][b]]
    BY <1>1 DEF Word
  <1> QED
    BY <1>2

LEMMA WriteCoherent ==
  ASSUME CoherentCalls, CInv, NEW c \in Writes, Write(c)
  PROVE  GoodState(Caches)' /\ Flat!Write(c)
  <1> DEFINE a == c.addr
  <1>1. PICK g \in Garbage, word \in GarbageWords :
          /\ After(CacheWrite(Before(word), a, c.data, g))
          /\ ret' = [op |-> "WRITE", cache |-> "L1_DCACHE", addr |-> a, data |-> c.data]
    BY DEF Write, Wrote
  <1> DEFINE r == CacheWrite(Before(word), a, c.data, g)
  <1>2. a \in Addr /\ Aligned(a) /\ g \in Entry1 /\ c.data \in Word /\ a.blk \in WrittenBlocks
    BY CallsAssumption DEF CoherentCalls, AlignedCalls, WordAligned, InMemory, WrittenBlocks
  <1>3. GoodState(r) /\ r.mem = [mem EXCEPT ![a.blk][a.word] = c.data]
    <2> HIDE DEF a
    <2> QED
      BY <1>2, BeforeGood, WriteKeepsGood
  <1>4. After(r)
    BY <1>1
  <1> HIDE DEF r
  <1>5. mem' = [mem EXCEPT ![a.blk][a.word] = c.data] /\ mem \in Memory
    BY <1>3, <1>4 DEF After, CInv, IInv, TypeOK
  <1>6. Flat!Write(c)
    BY <1>1, <1>2, <1>5, FlatWriteOf DEF Flat!Write
  <1> QED
    BY <1>3, <1>4, <1>6, AfterGood

LEMMA WriteByteCoherent ==
  ASSUME CoherentCalls, CInv, NEW c \in ByteWrites, WriteByte(c)
  PROVE  GoodState(Caches)' /\ Flat!Or(c)
  <1> DEFINE a == c.addr
  <1>1. PICK g1 \in Garbage, g2 \in Garbage, word \in GarbageWords :
          /\ After(CacheWriteByte(Before(word), a, c.data, g1, g2))
          /\ ret' = [op |-> "WRITE", cache |-> "L1_DCACHE", addr |-> a,
                     data |-> [b \in {a.byte} |-> c.data]]
    BY DEF WriteByte, Wrote
  <1> DEFINE r == CacheRead(Before(word), "L1_DCACHE", a, g1)
             new == OrByte(r.word, a, c.data)
             t == CacheWrite(r, a, new, g2)
  <1>2. /\ a \in Addr /\ Aligned(a) /\ InMemory(a) /\ g1 \in Entry1 /\ g2 \in Entry1
        /\ c.data \in Byte /\ a.blk \in WrittenBlocks /\ "L1_DCACHE" \in L1Kinds
    BY CallsAssumption DEF CoherentCalls, AlignedCalls, WordAligned, InMemory, WrittenBlocks,
                           L1Kinds
  <1> HIDE DEF a
  <1>3. r \in State /\ L2Empty(r.l2)
    BY <1>2, BeforeGood, ReadFacts DEF CallLeaves
  <1>4. GoodState(r) /\ r.mem = mem /\ r.word = mem[a.blk][a.word]
    BY <1>2, BeforeGood, ReadKeepsGood
  <1>5. t = CacheWriteByte(Before(word), a, c.data, g1, g2)
    BY DEF CacheWriteByte
  <1> HIDE DEF r
  <1>6. new \in Word
    BY <1>2, <1>3, OrByteInWord DEF State
  <1>7. GoodState(t) /\ t.mem = [r.mem EXCEPT ![a.blk][a.word] = new]
    <2> HIDE DEF new
    <2> QED
      BY <1>2, <1>3, <1>4, <1>6, WriteKeepsGood
  <1>8. After(t)
    BY <1>1, <1>5
  <1> HIDE DEF t
  <1>9. mem' = [mem EXCEPT ![a.blk][a.word] = new]
    BY <1>4, <1>7, <1>8 DEF After
  <1>10. mem' = [mem EXCEPT ![a.blk][a.word][a.byte] = @ \cup c.data]
    BY <1>4, <1>9 DEF OrByte
  <1>11. Flat!Or(c)
    BY <1>1, <1>10 DEF Flat!Or, a
  <1> QED
    BY <1>7, <1>8, <1>11, AfterGood

\* The same calls when they run out of memory: FlatMemory has them do nothing.
LEMMA FailCoherent ==
  ASSUME CInv, NEW word \in GarbageWords, NEW r, GoodState(r), r.mem = Before(word).mem,
         After(r), NEW k, NEW a, Fails(k, a)
  PROVE  GoodState(Caches)' /\ Flat!Other([op |-> "FAILED", cache |-> k, addr |-> a])
  <1>1. mem' = mem
    BY DEF After, Before
  <1> QED
    BY <1>1, AfterGood DEF Flat!Other, Fails

LEMMA ReadFailsCoherent ==
  ASSUME CoherentCalls, CInv, NEW c \in Reads, ReadFails(c)
  PROVE  /\ GoodState(Caches)'
         /\ Flat!Other([op |-> "FAILED", cache |-> CacheOf(c.type), addr |-> c.addr])
  <1> DEFINE k == CacheOf(c.type)
  <1>1. PICK word \in GarbageWords : /\ \E s \in ReadFailed(Before(word), k, c.addr) : After(s)
                                     /\ Fails(k, c.addr)
    BY DEF ReadFails
  <1>2. InMemory(c.addr)
    BY CallsAssumption
  <1>3. After(Before(word)) /\ GoodState(Before(word))
    BY <1>1, <1>2, BeforeGood, ReadFailedFacts
  <1> HIDE DEF k
  <1> QED
    BY <1>1, <1>3, FailCoherent DEF k

LEMMA WriteFailsCoherent ==
  ASSUME CoherentCalls, CInv, NEW c \in Writes, WriteFails(c)
  PROVE  /\ GoodState(Caches)'
         /\ Flat!Other([op |-> "FAILED", cache |-> "L1_DCACHE", addr |-> c.addr])
  <1>1. PICK word \in GarbageWords :
          /\ \E s \in WriteFailed(Before(word), c.addr, c.data) : After(s)
          /\ Fails("L1_DCACHE", c.addr)
    BY DEF WriteFails
  <1>2. c.addr \in Addr /\ Aligned(c.addr)
    BY CallsAssumption DEF CoherentCalls, AlignedCalls, WordAligned, InMemory
  <1>3. PICK s \in WriteFailed(Before(word), c.addr, c.data) : After(s)
    BY <1>1
  <1>4. GoodState(s) /\ s.mem = Before(word).mem
    BY <1>2, BeforeGood, WriteFailedKeepsGood
  <1> QED
    BY <1>1, <1>3, <1>4, FailCoherent

LEMMA WriteByteFailsCoherent ==
  ASSUME CoherentCalls, CInv, NEW c \in ByteWrites, WriteByteFails(c)
  PROVE  /\ GoodState(Caches)'
         /\ Flat!Other([op |-> "FAILED", cache |-> "L1_DCACHE", addr |-> c.addr])
  <1> DEFINE a == c.addr
  <1>1. PICK g \in Garbage, word \in GarbageWords :
          /\ \E s \in WriteByteFailed(Before(word), a, c.data, g) : After(s)
          /\ Fails("L1_DCACHE", a)
    BY DEF WriteByteFails
  <1>2. PICK t \in WriteByteFailed(Before(word), a, c.data, g) : After(t)
    BY <1>1
  <1> DEFINE r == CacheRead(Before(word), "L1_DCACHE", a, g)
             data == OrByte(r.word, a, c.data)
  <1>3. a \in Addr /\ Aligned(a) /\ InMemory(a) /\ g \in Entry1 /\ "L1_DCACHE" \in L1Kinds
    BY CallsAssumption DEF CoherentCalls, AlignedCalls, WordAligned, InMemory, L1Kinds
  <1>4. t \in ReadFailed(Before(word), "L1_DCACHE", a) \/ t \in WriteFailed(r, a, data)
    BY <1>2 DEF WriteByteFailed
  <1> HIDE DEF a
  <1>5. /\ r \in State /\ L2Empty(r.l2) /\ GoodState(r) /\ r.mem = Before(word).mem
        /\ ReadFailed(Before(word), "L1_DCACHE", a) = {Before(word)} /\ GoodState(Before(word))
    BY <1>3, BeforeGood, ReadFacts, ReadKeepsGood, ReadFailedFacts DEF CallLeaves
  <1> HIDE DEF r, data
  <1>6. GoodState(t) /\ t.mem = Before(word).mem
    BY <1>3, <1>4, <1>5, WriteFailedKeepsGood
  <1> QED
    BY <1>1, <1>2, <1>6, FailCoherent DEF a

\* And a write whose entry is not allocated still is a write.
LEMMA WriteUncachedCoherent ==
  ASSUME CoherentCalls, CInv, NEW c \in Writes, WriteUncached(c)
  PROVE  GoodState(Caches)' /\ Flat!Write(c)
  <1> DEFINE a == c.addr
  <1>1. PICK word \in GarbageWords :
          /\ WriteMisses(Before(word), a)
          /\ After(WriteUnallocated(Before(word), a, c.data))
          /\ ret' = [op |-> "WRITE", cache |-> "L1_DCACHE", addr |-> a, data |-> c.data]
    BY DEF WriteUncached, Wrote
  <1> DEFINE r == WriteUnallocated(Before(word), a, c.data)
  <1>2. a \in Addr /\ Aligned(a) /\ c.data \in Word /\ a.blk \in WrittenBlocks
    BY CallsAssumption DEF CoherentCalls, AlignedCalls, WordAligned, InMemory, WrittenBlocks
  <1>3. GoodState(r) /\ r.mem = [mem EXCEPT ![a.blk][a.word] = c.data]
    <2> HIDE DEF a
    <2> QED
      BY <1>1, <1>2, BeforeGood, UnallocatedKeepsGood
  <1>4. After(r)
    BY <1>1
  <1> HIDE DEF r
  <1>5. mem' = [mem EXCEPT ![a.blk][a.word] = c.data] /\ mem \in Memory
    BY <1>3, <1>4 DEF After, CInv, IInv, TypeOK
  <1>6. Flat!Write(c)
    BY <1>1, <1>2, <1>5, FlatWriteOf DEF Flat!Write
  <1> QED
    BY <1>3, <1>4, <1>6, AfterGood

LEMMA WriteByteUncachedCoherent ==
  ASSUME CoherentCalls, CInv, NEW c \in ByteWrites, WriteByteUncached(c)
  PROVE  GoodState(Caches)' /\ Flat!Or(c)
  <1> DEFINE a == c.addr
  <1>1. PICK g \in Garbage, word \in GarbageWords :
          LET s == CacheRead(Before(word), "L1_DCACHE", a, g)
          IN /\ WriteMisses(s, a)
             /\ After(WriteUnallocated(s, a, OrByte(s.word, a, c.data)))
             /\ ret' = [op |-> "WRITE", cache |-> "L1_DCACHE", addr |-> a,
                        data |-> [b \in {a.byte} |-> c.data]]
    BY DEF WriteByteUncached, Wrote
  <1> DEFINE r == CacheRead(Before(word), "L1_DCACHE", a, g)
             new == OrByte(r.word, a, c.data)
             t == WriteUnallocated(r, a, new)
  <1>2. /\ a \in Addr /\ Aligned(a) /\ InMemory(a) /\ g \in Entry1
        /\ c.data \in Byte /\ a.blk \in WrittenBlocks /\ "L1_DCACHE" \in L1Kinds
    BY CallsAssumption DEF CoherentCalls, AlignedCalls, WordAligned, InMemory, WrittenBlocks,
                           L1Kinds
  <1>3. WriteMisses(r, a) /\ After(t)
    BY <1>1
  <1> HIDE DEF a
  <1>4. r \in State /\ GoodState(r) /\ r.mem = mem /\ r.word = mem[a.blk][a.word]
    BY <1>2, BeforeGood, ReadFacts, ReadKeepsGood DEF CallLeaves
  <1> HIDE DEF r
  <1>5. new \in Word
    BY <1>2, <1>4, OrByteInWord DEF State
  <1>6. GoodState(t) /\ t.mem = [r.mem EXCEPT ![a.blk][a.word] = new]
    <2> HIDE DEF new
    <2> QED
      BY <1>2, <1>3, <1>4, <1>5, UnallocatedKeepsGood
  <1> HIDE DEF t
  <1>7. mem' = [mem EXCEPT ![a.blk][a.word] = new]
    BY <1>3, <1>4, <1>6 DEF After
  <1>8. mem' = [mem EXCEPT ![a.blk][a.word][a.byte] = @ \cup c.data]
    BY <1>4, <1>7 DEF OrByte
  <1>9. Flat!Or(c)
    BY <1>1, <1>8 DEF Flat!Or, a
  <1> QED
    BY <1>3, <1>6, <1>9, AfterGood

\* An emptied cache is good, and only the data L1 is ever emptied.
LEMMA FlushCoherent ==
  ASSUME CoherentCalls, CInv, NEW k \in Flushes, Flush(k)
  PROVE  GoodState(Caches)' /\ Flat!Other([op |-> "FLUSH", cache |-> k])
  <1>1. l1 \in Caches1 /\ k # "L1_ICACHE" /\ mem' = mem
    BY DEF CInv, IInv, TypeOK, Caches1, Set1, CoherentCalls, Flush
  <1>2. l1'["L1_ICACHE"] = l1["L1_ICACHE"]
    BY <1>1 DEF Flush, L1Kinds
  <1>3. \A j \in L1Kinds, i \in Line1 : Good(l1[j][i], i, mem)
    BY DEF CInv, GoodState, Caches
  <1>4. ASSUME NEW i \in Line1 PROVE Good(l1'["L1_DCACHE"][i], i, mem)
    <2>1. CASE k = "L1_DCACHE"
      <3> DEFINE cache == l1["L1_DCACHE"]
      <3>1. cache \in [Line1 -> Set1]
        BY <1>1 DEF Caches1, L1Kinds
      <3>2. l1'["L1_DCACHE"] = Flushed(cache)
        BY <2>1 DEF Flush, L1Kinds
      <3> DEFINE inv == Invalidated(cache)
      <3> HIDE DEF cache
      <3>3. inv \in [Line1 -> Set1] /\ \A w \in Way1 : inv[i][w].v = INVALID
        <4>1. \A n \in Line1, w \in Way1 : [cache[n][w] EXCEPT !.v = INVALID] \in Entry1
          BY <3>1 DEF Set1, Entry1
        <4> QED
          BY <3>1, <4>1 DEF Invalidated, Set1, Entry1
      <3>4. \A w \in Way1 : Flushed(cache)[i][w].v = INVALID
        <4>1. Flushed(cache) = [inv EXCEPT ![0][0].line = ZeroLine]
          BY DEF Flushed
        <4> HIDE DEF inv
        <4> QED
          BY <3>3, <4>1 DEF Set1, Entry1
      <3>5. \A w \in Way1 : l1'["L1_DCACHE"][i][w].v # VALID
        BY <3>2, <3>4 DEF VALID, INVALID
      <3> QED
        BY <3>5 DEF Good, ValidFirst, Distinct, Holds
    <2>2. CASE k # "L1_DCACHE"
      <3>1. l1'["L1_DCACHE"] = l1["L1_DCACHE"]
        BY <1>1, <2>2 DEF Flush, L1Kinds
      <3> QED
        BY <1>3, <3>1 DEF L1Kinds
    <2> QED
      BY <2>1, <2>2
  <1>5. GoodState(Caches)'
    BY <1>1, <1>2, <1>3, <1>4 DEF GoodState, Caches, L1Kinds, CInv
  <1>6. Flat!Other([op |-> "FLUSH", cache |-> k])
    BY <1>1 DEF Flat!Other, Flush
  <1> QED
    BY <1>5, <1>6

LEMMA InitGood == Init => CInv
  <1> SUFFICES ASSUME Init PROVE CInv
    OBVIOUS
  <1>1. \A k \in L1Kinds, i \in Line1, w \in Way1 : l1[k][i][w].v # VALID
    BY DEF Init, ZeroEntry, VALID, INVALID
  <1>2. GoodState(Caches)
    BY <1>1 DEF GoodState, Caches, Good, ValidFirst, Distinct, Holds, NotWritten, L1Kinds
  <1> QED
    BY <1>2, InitIInv DEF CInv

\* Every step keeps the invariant and is a step of the flat memory.
LEMMA CoherentStep ==
  ASSUME CoherentCalls, CInv, [Next]_vars
  PROVE  CInv' /\ [Flat!Next]_(Flat!vars)
  <1>1. IInv'
    BY NextStep DEF CInv, CoherentCalls, AlignedCalls
  <1>2. CASE Next
    <2>1. ASSUME NEW c \in Reads, Read(c) PROVE GoodState(Caches)' /\ Flat!Next
      BY <2>1, ReadCoherent DEF Flat!Next, FlatCall
    <2>2. ASSUME NEW c \in Writes, Write(c) PROVE GoodState(Caches)' /\ Flat!Next
      BY <2>2, WriteCoherent DEF Flat!Next
    <2>3. ASSUME NEW c \in ByteWrites, WriteByte(c) PROVE GoodState(Caches)' /\ Flat!Next
      BY <2>3, WriteByteCoherent DEF Flat!Next
    <2>4. ASSUME NEW k \in Flushes, Flush(k) PROVE GoodState(Caches)' /\ Flat!Next
      BY <2>4, FlushCoherent DEF Flat!Next
    <2>5. \A p \in Preloads : FALSE
      BY DEF CoherentCalls, AlignedCalls, NoPreload
    <2>6. ASSUME NEW c \in Reads, ReadFails(c) PROVE GoodState(Caches)' /\ Flat!Next
      <3> DEFINE r == [op |-> "FAILED", cache |-> CacheOf(c.type), addr |-> c.addr]
      <3>1. GoodState(Caches)' /\ Flat!Other(r)
        BY <2>6, ReadFailsCoherent
      <3>2. r \in {[op |-> "FAILED", cache |-> CacheOf(d.type), addr |-> d.addr] : d \in Reads}
        OBVIOUS
      <3> HIDE DEF r
      <3> QED
        BY <3>1, <3>2 DEF Flat!Next
    <2>7. ASSUME NEW c \in Writes, WriteFails(c) PROVE GoodState(Caches)' /\ Flat!Next
      BY <2>7, WriteFailsCoherent DEF Flat!Next
    <2>8. ASSUME NEW c \in ByteWrites, WriteByteFails(c) PROVE GoodState(Caches)' /\ Flat!Next
      BY <2>8, WriteByteFailsCoherent DEF Flat!Next
    <2>9. ASSUME NEW c \in Writes, WriteUncached(c) PROVE GoodState(Caches)' /\ Flat!Next
      BY <2>9, WriteUncachedCoherent DEF Flat!Next
    <2>10. ASSUME NEW c \in ByteWrites, WriteByteUncached(c) PROVE GoodState(Caches)' /\ Flat!Next
      BY <2>10, WriteByteUncachedCoherent DEF Flat!Next
    <2> QED
      BY <1>1, <1>2, <2>1, <2>2, <2>3, <2>4, <2>5, <2>6, <2>7, <2>8, <2>9, <2>10 DEF Next, CInv
  <1>3. CASE vars' = vars
    <2>1. GoodState(Caches)'
      BY <1>3 DEF vars, CInv, GoodState, Caches
    <2>2. (Flat!vars)' = Flat!vars
      BY <1>3 DEF vars, Flat!vars
    <2> QED
      BY <1>1, <2>1, <2>2 DEF CInv
  <1> QED
    BY <1>2, <1>3

LEMMA GoodMeans == CInv => Coherent
  BY DEF CInv, GoodState, Caches, Good, Holds, Coherent

-----------------------------------------------------------------------------
(***************************************************************************)
(* The write-through works: what L1 holds is what memory holds.            *)
(***************************************************************************)
THEOREM WriteThrough == CoherentCalls => (Spec => []Coherent)
  <1> SUFFICES ASSUME CoherentCalls PROVE Spec => []Coherent
    OBVIOUS
  <1>1. CInv /\ [Next]_vars => CInv'
    BY CoherentStep
  <1> QED
    BY <1>1, InitGood, GoodMeans, PTL DEF Spec

(***************************************************************************)
(* The caches are invisible: every behaviour of the hierarchy is one of a  *)
(* memory without caches, where a read returns the bytes at its address, a *)
(* word write changes the bytes it names, a byte write sets the bits of    *)
(* its byte, and a flush or a call that runs out of memory does nothing.   *)
(***************************************************************************)
THEOREM ActsAsFlatMemory == CoherentCalls => (Spec => FlatSpec)
  <1> SUFFICES ASSUME CoherentCalls PROVE Spec => FlatSpec
    OBVIOUS
  <1>1. CInv /\ [Next]_vars => CInv'
    BY CoherentStep
  <1>2. CInv /\ [Next]_vars => [Flat!Next]_(Flat!vars)
    BY CoherentStep
  <1>3. Init => Flat!Init
    BY DEF Init, Flat!Init
  <1> QED
    BY <1>1, <1>2, <1>3, InitGood, PTL DEF Spec, FlatSpec, Flat!Spec

-----------------------------------------------------------------------------
(* The ages and the valid ways, for which the calls need to be aligned and no more. *)

\* What any aligned call does to the ages, the valid bits and the tags of the sets.
KeepsSet(set, new) == KeepsStuck(set, new) /\ KeepsValid(set, new)

CallAges(before, after) ==
  \A k \in L1Kinds, i \in Line1 : KeepsSet(before[k][i], after[k][i])

LEMMA StuckChain ==
  ASSUME NEW x, NEW y, NEW z, CallAges(x, y), CallAges(y, z)
  PROVE  CallAges(x, z)
  BY DEF CallAges, KeepsSet, KeepsStuck, KeepsValid

LEMMA OneSetAges ==
  ASSUME NEW s \in State, NEW k \in L1Kinds, NEW a \in Addr, NEW new,
         KeepsSet(SetOf(s, k, a), new), NEW after, after = [s.l1 EXCEPT ![k][Index1(a)] = new]
  PROVE  CallAges(s.l1, after)
  <1>1. s.l1 \in Caches1 /\ Index1(a) \in Line1
    BY IndexFacts DEF State, Addr
  <1>2. ASSUME NEW j \in L1Kinds, NEW i \in Line1 PROVE KeepsSet(s.l1[j][i], after[j][i])
    <2>1. CASE j = k /\ i = Index1(a)
      BY <1>1, <2>1 DEF Caches1, SetOf
    <2>2. CASE ~ (j = k /\ i = Index1(a))
      <3>1. after[j][i] = s.l1[j][i]
        BY <1>1, <2>2 DEF Caches1
      <3>2. 0 .. (L1Ways - 2) \subseteq Way1
        BY WaysFacts
      <3> QED
        BY <3>1, <3>2 DEF KeepsSet, KeepsStuck, KeepsValid
    <2> QED
      BY <2>1, <2>2
  <1> QED
    BY <1>2 DEF CallAges

LEMMA ReadAges ==
  ASSUME NEW s \in State, L2Empty(s.l2), NEW k \in L1Kinds, NEW a \in Addr, Aligned(a),
         NEW g \in Entry1, NEW r, r = CacheRead(s, k, a, g)
  PROVE  /\ CallAges(s.l1, r.l1)
         /\ ZeroAges(SetOf(s, k, a)) => ZeroAges(SetOf(r, k, a))
  <1> DEFINE set == SetOf(s, k, a)
             new == ReadSet(set, a, s.mem[a.blk])
  <1>1. set \in Set1 /\ s.mem[a.blk] \in Line /\ s.l1 \in Caches1 /\ Index1(a) \in Line1
    BY AlignedInMemory DEF State, Caches1, SetOf, Memory
  <1>2. r.l1 = [s.l1 EXCEPT ![k][Index1(a)] = new]
    BY AlignedRead
  <1>3. KeepsSet(set, new) /\ (ZeroAges(set) => ZeroAges(new))
    BY <1>1, ReadSetStuck, ReadSetKeepsValid, ReadSetAges DEF KeepsSet
  <1>4. SetOf(r, k, a) = new
    <2> HIDE DEF new
    <2> QED
      BY <1>1, <1>2 DEF Caches1, SetOf
  <1> HIDE DEF new
  <1>5. CallAges(s.l1, r.l1)
    BY <1>2, <1>3, OneSetAges
  <1> QED
    BY <1>3, <1>4, <1>5

LEMMA WriteAges ==
  ASSUME NEW s \in State, L2Empty(s.l2), NEW a \in Addr, Aligned(a),
         NEW data \in Word, NEW g \in Entry1, NEW r, r = CacheWrite(s, a, data, g)
  PROVE  CallAges(s.l1, r.l1)
  <1> DEFINE k == "L1_DCACHE"
             set == SetOf(s, k, a)
             line == WrittenLine(s, a, data)
             new == WriteSet(set, a, line)
  <1>1. set \in Set1 /\ k \in L1Kinds
    BY AlignedInMemory DEF State, Caches1, SetOf, L1Kinds
  <1>2. /\ line \in Line /\ r.mem = [s.mem EXCEPT ![a.blk] = line]
        /\ r.l1 = [s.l1 EXCEPT ![k][Index1(a)] = new]
    BY AlignedWrite
  <1> HIDE DEF line
  <1>3. KeepsSet(set, new)
    BY <1>1, <1>2, WriteSetStuck, WriteSetKeepsValid DEF KeepsSet
  <1> HIDE DEF new, k
  <1> QED
    BY <1>1, <1>2, <1>3, OneSetAges

LEMMA UnallocatedAges ==
  ASSUME NEW s \in State, NEW a \in Addr, Aligned(a), NEW data \in Word,
         NEW r, r = WriteUnallocated(s, a, data)
  PROVE  CallAges(s.l1, r.l1)
  <1> DEFINE k == "L1_DCACHE"
             set == SetOf(s, k, a)
             new == AgedSet(set)
  <1>1. set \in Set1 /\ k \in L1Kinds
    BY AlignedInMemory DEF State, Caches1, SetOf, L1Kinds
  <1>2. /\ r.mem = [s.mem EXCEPT ![a.blk] = [s.mem[a.blk] EXCEPT ![a.word] = data]]
        /\ r.l1 = [s.l1 EXCEPT ![k][Index1(a)] = new]
    BY AlignedUnallocated
  <1>3. KeepsSet(set, new)
    BY <1>1, AgedSetFacts, SameKeepsValid DEF KeepsSet
  <1> HIDE DEF new, k
  <1> QED
    BY <1>1, <1>2, <1>3, OneSetAges

LEMMA NothingAges ==
  ASSUME NEW x
  PROVE  CallAges(x, x)
  <1>1. 0 .. (L1Ways - 2) \subseteq Way1
    BY WaysFacts
  <1> QED
    BY <1>1 DEF CallAges, KeepsSet, KeepsStuck, KeepsValid

LEMMA WriteFailedCallAges ==
  ASSUME NEW s \in State, L2Empty(s.l2), NEW a \in Addr, Aligned(a), NEW data,
         NEW r \in WriteFailed(s, a, data)
  PROVE  CallAges(s.l1, r.l1)
  <1>1. CASE r = s
    BY <1>1, NothingAges
  <1>2. CASE r # s
    <2> DEFINE k == "L1_DCACHE"
               set == SetOf(s, k, a)
               new == HitAged(set, a)
    <2>1. /\ SameButAges(set, new) /\ KeepsStuck(set, new)
          /\ r.l1 = [s.l1 EXCEPT ![k][Index1(a)] = new] /\ r.mem = s.mem
      BY <1>2, WriteFailedAges
    <2>2. KeepsSet(set, new) /\ k \in L1Kinds
      BY <2>1, SameKeepsValid DEF KeepsSet, L1Kinds
    <2> HIDE DEF k, new
    <2> QED
      BY <2>1, <2>2, OneSetAges
  <1> QED
    BY <1>1, <1>2

\* The same of a step, with what a call does to an instruction set that never aged.
AgesStep ==
  /\ ret'.op # "FLUSH" => CallAges(l1, l1')
  /\ ICacheNeverAges => ICacheNeverAges'

LEMMA ReadAgesStep ==
  ASSUME AlignedCalls, IInv, NEW c \in Reads, Read(c)
  PROVE  AgesStep
  <1> DEFINE k == CacheOf(c.type)
             a == c.addr
  <1>1. PICK g \in Garbage, word \in GarbageWords : After(CacheRead(Before(word), k, a, g))
    BY DEF Read
  <1> DEFINE s == Before(word)
             r == CacheRead(s, k, a, g)
  <1>2. k \in L1Kinds /\ a \in Addr /\ Aligned(a) /\ InMemory(a) /\ g \in Entry1
    BY CallsAssumption DEF CacheOf, L1Kinds, AlignedCalls, WordAligned, InMemory
  <1>3. s \in State /\ L2Empty(s.l2) /\ s.l1 = l1
    BY BeforeState DEF Before
  <1>4. l1' = r.l1
    BY <1>1 DEF After
  <1> HIDE DEF k, a, s
  <1>5. CallAges(s.l1, r.l1) /\ (ZeroAges(SetOf(s, k, a)) => ZeroAges(SetOf(r, k, a)))
    BY <1>2, <1>3, ReadAges
  <1>6. \A j \in L1Kinds, i \in Line1 : j # k \/ i # Index1(a) => r.l1[j][i] = s.l1[j][i]
    BY <1>2, <1>3, ReadFacts DEF CallLeaves
  <1> HIDE DEF r
  <1>7. ICacheNeverAges => ICacheNeverAges'
    <2> SUFFICES ASSUME ICacheNeverAges, NEW i \in Line1
                 PROVE  ZeroAges(r.l1["L1_ICACHE"][i])
      BY <1>4 DEF ICacheNeverAges, ZeroAges
    <2>1. ZeroAges(s.l1["L1_ICACHE"][i])
      BY <1>3 DEF ICacheNeverAges, ZeroAges
    <2>2. CASE k = "L1_ICACHE" /\ i = Index1(a)
      BY <1>5, <2>1, <2>2 DEF SetOf
    <2>3. CASE ~ (k = "L1_ICACHE" /\ i = Index1(a))
      BY <1>6, <2>1, <2>3 DEF L1Kinds
    <2> QED
      BY <2>2, <2>3
  <1> QED
    BY <1>3, <1>4, <1>5, <1>7 DEF AgesStep

\* A call on the data L1 leaves the instruction L1 alone.
LEMMA DataCallAges ==
  ASSUME NEW s \in State, s.l1 = l1, NEW r, NEW a, l1' = r.l1,
         CallLeaves(s, r, "L1_DCACHE", a), CallAges(s.l1, r.l1)
  PROVE  AgesStep
  <1>1. \A i \in Line1 : l1'["L1_ICACHE"][i] = l1["L1_ICACHE"][i]
    BY DEF CallLeaves, L1Kinds
  <1> QED
    BY <1>1 DEF AgesStep, ICacheNeverAges

LEMMA WriteAgesStep ==
  ASSUME AlignedCalls, IInv, NEW c \in Writes, Write(c)
  PROVE  AgesStep
  <1>1. PICK g \in Garbage, word \in GarbageWords :
          After(CacheWrite(Before(word), c.addr, c.data, g))
    BY DEF Write
  <1> DEFINE s == Before(word)
             a == c.addr
             r == CacheWrite(s, a, c.data, g)
  <1>2. a \in Addr /\ Aligned(a) /\ InMemory(a) /\ g \in Entry1 /\ c.data \in Word
    BY CallsAssumption DEF AlignedCalls, WordAligned, InMemory
  <1>3. s \in State /\ L2Empty(s.l2) /\ s.l1 = l1
    BY BeforeState DEF Before
  <1>4. l1' = r.l1
    BY <1>1 DEF After
  <1> HIDE DEF s, a
  <1>5. CallAges(s.l1, r.l1)
    BY <1>2, <1>3, WriteAges
  <1>6. CallLeaves(s, r, "L1_DCACHE", a)
    BY <1>2, <1>3, WriteFacts
  <1> HIDE DEF r
  <1> QED
    BY <1>3, <1>4, <1>5, <1>6, DataCallAges

LEMMA WriteByteAgesStep ==
  ASSUME AlignedCalls, IInv, NEW c \in ByteWrites, WriteByte(c)
  PROVE  AgesStep
  <1>1. PICK g1 \in Garbage, g2 \in Garbage, word \in GarbageWords :
          After(CacheWriteByte(Before(word), c.addr, c.data, g1, g2))
    BY DEF WriteByte
  <1> DEFINE s == Before(word)
             a == c.addr
             r == CacheRead(s, "L1_DCACHE", a, g1)
             new == OrByte(r.word, a, c.data)
             t == CacheWrite(r, a, new, g2)
  <1>2. /\ a \in Addr /\ Aligned(a) /\ InMemory(a) /\ g1 \in Entry1 /\ g2 \in Entry1
        /\ c.data \in Byte /\ "L1_DCACHE" \in L1Kinds
    BY CallsAssumption DEF AlignedCalls, WordAligned, InMemory, L1Kinds
  <1>3. s \in State /\ L2Empty(s.l2) /\ s.l1 = l1
    BY BeforeState DEF Before
  <1>4. l1' = CacheWriteByte(s, a, c.data, g1, g2).l1
    BY <1>1 DEF After
  <1>5. CacheWriteByte(s, a, c.data, g1, g2) = t
    BY DEF CacheWriteByte
  <1> HIDE DEF s, a
  <1>6. CallLeaves(s, t, "L1_DCACHE", a)
    BY <1>2, <1>3, <1>5, WriteByteFacts
  <1>7. r \in State /\ L2Empty(r.l2)
    BY <1>2, <1>3, ReadFacts DEF CallLeaves
  <1>8. CallAges(s.l1, r.l1)
    BY <1>2, <1>3, ReadAges
  <1> HIDE DEF r
  <1>9. new \in Word
    BY <1>2, <1>7, OrByteInWord DEF State
  <1> HIDE DEF new
  <1>10. CallAges(r.l1, t.l1)
    BY <1>2, <1>7, <1>9, WriteAges
  <1>11. CallAges(s.l1, t.l1)
    BY <1>8, <1>10, StuckChain
  <1> HIDE DEF t
  <1> QED
    BY <1>3, <1>4, <1>5, <1>6, <1>11, DataCallAges

\* The calls that run out of memory.
LEMMA ReadFailsAgesStep ==
  ASSUME IInv, NEW c \in Reads, ReadFails(c)
  PROVE  AgesStep
  <1>1. PICK word \in GarbageWords :
          \E s \in ReadFailed(Before(word), CacheOf(c.type), c.addr) : After(s)
    BY DEF ReadFails
  <1>2. InMemory(c.addr)
    BY CallsAssumption
  <1>3. After(Before(word))
    BY <1>1, <1>2, BeforeState, ReadFailedFacts
  <1>4. l1' = l1
    BY <1>3 DEF After, Before
  <1> QED
    BY <1>4, NothingAges DEF AgesStep, ICacheNeverAges

LEMMA WriteFailsAgesStep ==
  ASSUME AlignedCalls, IInv, NEW c \in Writes, WriteFails(c)
  PROVE  AgesStep
  <1>1. PICK word \in GarbageWords : \E s \in WriteFailed(Before(word), c.addr, c.data) : After(s)
    BY DEF WriteFails
  <1>2. PICK r \in WriteFailed(Before(word), c.addr, c.data) : After(r)
    BY <1>1
  <1> DEFINE s == Before(word)
  <1>3. c.addr \in Addr /\ Aligned(c.addr) /\ InMemory(c.addr)
    BY CallsAssumption DEF AlignedCalls, WordAligned, InMemory
  <1>4. s \in State /\ L2Empty(s.l2) /\ s.l1 = l1 /\ l1' = r.l1
    BY <1>2, BeforeState DEF Before, After
  <1> HIDE DEF s
  <1>5. r \in WriteFailed(s, c.addr, c.data)
    BY <1>2 DEF s
  <1>6. CallAges(s.l1, r.l1) /\ CallLeaves(s, r, "L1_DCACHE", c.addr)
    BY <1>3, <1>4, <1>5, WriteFailedCallAges, WriteFailedFacts
  <1> QED
    BY <1>4, <1>6, DataCallAges

LEMMA WriteByteFailsAgesStep ==
  ASSUME AlignedCalls, IInv, NEW c \in ByteWrites, WriteByteFails(c)
  PROVE  AgesStep
  <1> DEFINE a == c.addr
  <1>1. PICK g \in Garbage, word \in GarbageWords :
          \E s \in WriteByteFailed(Before(word), a, c.data, g) : After(s)
    BY DEF WriteByteFails
  <1> DEFINE s == Before(word)
             r == CacheRead(s, "L1_DCACHE", a, g)
             data == OrByte(r.word, a, c.data)
  <1>2. PICK t \in WriteByteFailed(s, a, c.data, g) : After(t)
    BY <1>1
  <1>3. a \in Addr /\ Aligned(a) /\ InMemory(a) /\ g \in Entry1 /\ "L1_DCACHE" \in L1Kinds
    BY CallsAssumption DEF AlignedCalls, WordAligned, InMemory, L1Kinds
  <1>4. s \in State /\ L2Empty(s.l2) /\ s.l1 = l1 /\ l1' = t.l1
    BY <1>2, BeforeState DEF Before, After
  <1> HIDE DEF s, a
  <1>5. t \in ReadFailed(s, "L1_DCACHE", a) \/ t \in WriteFailed(r, a, data)
    BY <1>2 DEF WriteByteFailed
  <1>6. CallLeaves(s, t, "L1_DCACHE", a)
    BY <1>2, <1>3, <1>4, WriteByteFailedFacts
  <1>7. r \in State /\ L2Empty(r.l2) /\ CallAges(s.l1, r.l1)
    BY <1>3, <1>4, ReadFacts, ReadAges DEF CallLeaves
  <1>8. CallAges(s.l1, t.l1)
    <2>1. CASE t \in ReadFailed(s, "L1_DCACHE", a)
      BY <1>3, <1>4, <2>1, ReadFailedFacts, NothingAges
    <2>2. CASE t \in WriteFailed(r, a, data)
      <3> HIDE DEF r, data
      <3> QED
        BY <1>3, <1>7, <2>2, WriteFailedCallAges, StuckChain
    <2> QED
      BY <1>5, <2>1, <2>2
  <1> QED
    BY <1>4, <1>6, <1>8, DataCallAges

LEMMA WriteUncachedAgesStep ==
  ASSUME AlignedCalls, IInv, NEW c \in Writes, WriteUncached(c)
  PROVE  AgesStep
  <1>1. PICK word \in GarbageWords : After(WriteUnallocated(Before(word), c.addr, c.data))
    BY DEF WriteUncached
  <1> DEFINE s == Before(word)
             a == c.addr
             r == WriteUnallocated(s, a, c.data)
  <1>2. a \in Addr /\ Aligned(a) /\ InMemory(a) /\ c.data \in Word
    BY CallsAssumption DEF AlignedCalls, WordAligned, InMemory
  <1>3. s \in State /\ L2Empty(s.l2) /\ s.l1 = l1 /\ l1' = r.l1
    BY <1>1, BeforeState DEF Before, After
  <1> HIDE DEF s, a
  <1>4. CallAges(s.l1, r.l1) /\ CallLeaves(s, r, "L1_DCACHE", a)
    BY <1>2, <1>3, UnallocatedAges, WriteUnallocatedFacts
  <1> HIDE DEF r
  <1> QED
    BY <1>3, <1>4, DataCallAges

LEMMA WriteByteUncachedAgesStep ==
  ASSUME AlignedCalls, IInv, NEW c \in ByteWrites, WriteByteUncached(c)
  PROVE  AgesStep
  <1>1. PICK g \in Garbage, word \in GarbageWords :
          LET s == CacheRead(Before(word), "L1_DCACHE", c.addr, g)
          IN After(WriteUnallocated(s, c.addr, OrByte(s.word, c.addr, c.data)))
    BY DEF WriteByteUncached
  <1> DEFINE s == Before(word)
             a == c.addr
             r == CacheRead(s, "L1_DCACHE", a, g)
             data == OrByte(r.word, a, c.data)
             t == WriteUnallocated(r, a, data)
  <1>2. /\ a \in Addr /\ Aligned(a) /\ InMemory(a) /\ g \in Entry1
        /\ c.data \in Byte /\ "L1_DCACHE" \in L1Kinds
    BY CallsAssumption DEF AlignedCalls, WordAligned, InMemory, L1Kinds
  <1>3. s \in State /\ L2Empty(s.l2) /\ s.l1 = l1 /\ l1' = t.l1
    BY <1>1, BeforeState DEF Before, After
  <1> HIDE DEF s, a
  <1>4. CallLeaves(s, r, "L1_DCACHE", a) /\ CallAges(s.l1, r.l1)
    BY <1>2, <1>3, ReadFacts, ReadAges
  <1> HIDE DEF r
  <1>5. r \in State /\ L2Empty(r.l2) /\ data \in Word
    BY <1>2, <1>4, OrByteInWord DEF CallLeaves, State
  <1> HIDE DEF data
  <1>6. CallAges(r.l1, t.l1) /\ CallLeaves(r, t, "L1_DCACHE", a)
    BY <1>2, <1>5, UnallocatedAges, WriteUnallocatedFacts
  <1> HIDE DEF t
  <1>7. CallAges(s.l1, t.l1) /\ CallLeaves(s, t, "L1_DCACHE", a)
    BY <1>4, <1>6, StuckChain DEF CallLeaves
  <1> QED
    BY <1>3, <1>7, DataCallAges

\* A flush clears valid bits and a line of its own cache; its overrun clears ages.
LEMMA FlushAgesStep ==
  ASSUME IInv, NEW k \in Flushes, Flush(k)
  PROVE  AgesStep
  <1>1. l1["L1_ICACHE"] \in [Line1 -> Set1] /\ ret'.op = "FLUSH"
    BY DEF IInv, TypeOK, Set1, L1Kinds, Flush
  <1>2. l1'["L1_ICACHE"] = IF k = "L1_ICACHE" THEN Flushed(l1["L1_ICACHE"]) ELSE l1["L1_ICACHE"]
    BY DEF Flush, L1Kinds
  <1>3. \A i \in Line1, w \in Way1 :
          Flushed(l1["L1_ICACHE"])[i][w].age = l1["L1_ICACHE"][i][w].age
    <2> DEFINE cache == l1["L1_ICACHE"]
               inv == Invalidated(cache)
    <2> HIDE DEF cache
    <2>1. /\ inv \in [Line1 -> Set1]
          /\ \A i \in Line1, w \in Way1 : inv[i][w].age = cache[i][w].age
      <3>1. \A i \in Line1, w \in Way1 : /\ [cache[i][w] EXCEPT !.v = INVALID] \in Entry1
                                         /\ cache[i][w] \in Entry1
        BY <1>1 DEF Set1, Entry1, cache
      <3> QED
        BY <1>1, <3>1 DEF Invalidated, Set1, Entry1, cache
    <2>2. Flushed(cache) = [inv EXCEPT ![0][0].line = ZeroLine]
      BY DEF Flushed
    <2> HIDE DEF inv
    <2>3. \A i \in Line1, w \in Way1 : Flushed(cache)[i][w].age = cache[i][w].age
      BY <2>1, <2>2 DEF Set1, Entry1
    <2> QED
      BY <2>3 DEF cache
  <1> QED
    BY <1>1, <1>2, <1>3 DEF AgesStep, ICacheNeverAges

LEMMA AgesNext ==
  ASSUME AlignedCalls, IInv, [Next]_vars
  PROVE  vars' = vars \/ AgesStep
  <1>1. \A p \in Preloads : FALSE
    BY DEF AlignedCalls, NoPreload
  <1> QED
    BY <1>1, ReadAgesStep, WriteAgesStep, WriteByteAgesStep, FlushAgesStep, ReadFailsAgesStep,
       WriteFailsAgesStep, WriteByteFailsAgesStep, WriteUncachedAgesStep,
       WriteByteUncachedAgesStep DEF Next

(***************************************************************************)
(* The instruction L1 never ages, so apply_lru always takes the last way   *)
(* of a full set of it: whatever the reads and the flushes, its            *)
(* replacement is not LRU.                                                 *)
(***************************************************************************)
THEOREM InstructionsNeverAge == AlignedCalls => (Spec => []ICacheNeverAges)
  <1> SUFFICES ASSUME AlignedCalls PROVE Spec => []ICacheNeverAges
    OBVIOUS
  <1> DEFINE Inv == IInv /\ ICacheNeverAges
  <1>1. Init => Inv
    BY InitIInv DEF Init, ICacheNeverAges, ZeroEntry, L1Kinds
  <1>2. Inv /\ [Next]_vars => Inv'
    BY NextStep, AgesNext DEF AlignedCalls, AgesStep, ICacheNeverAges, vars
  <1> QED
    BY <1>1, <1>2, PTL DEF Spec

(***************************************************************************)
(* A full set whose ages are all 0 stays so until a flush, and every way   *)
(* but the last keeps its block: neither reads nor writes, hit or miss,    *)
(* ever let an age grow again.                                             *)
(***************************************************************************)
THEOREM StuckForEver == AlignedCalls => (Spec => StuckSetsStayStuck)
  <1> SUFFICES ASSUME AlignedCalls PROVE Spec => StuckSetsStayStuck
    OBVIOUS
  <1> DEFINE A == ret'.op # "FLUSH" =>
                    \A k \in L1Kinds, i \in Line1 : Stuck(l1[k][i]) =>
                      /\ Stuck(l1'[k][i])
                      /\ \A w \in 0 .. (L1Ways - 2) : l1'[k][i][w].tag = l1[k][i][w].tag
  <1>1. IInv /\ [Next]_vars => IInv'
    BY NextStep DEF AlignedCalls
  <1>2. IInv /\ [Next]_vars => [A]_vars
    BY AgesNext DEF AgesStep, CallAges, KeepsSet, KeepsStuck
  <1> QED
    BY <1>1, <1>2, InitIInv, PTL DEF Spec, StuckSetsStayStuck

-----------------------------------------------------------------------------
(* The valid ways, through calls and flushes. *)

Firsts == \A k \in L1Kinds, i \in Line1 : ValidFirst(l1[k][i])

Onces == \A k \in L1Kinds, i \in Line1 : Distinct(l1[k][i])

\* A flush makes a cache invalid, and overruns into no valid bit; only the flush of the
\* instruction L1 overruns into a tag of an L1.
LEMMA FlushKeepsValid ==
  ASSUME IInv, NEW k \in Flushes, Flush(k)
  PROVE  /\ Firsts => Firsts'
         /\ k # "L1_ICACHE" => (Onces => Onces')
  <1>1. l1 \in [L1Kinds -> [Line1 -> Set1]]
    BY DEF IInv, TypeOK, Caches1, Set1
  <1>2. ASSUME NEW j \in L1Kinds, j = k
        PROVE  \A i \in Line1, w \in Way1 : l1'[j][i][w].v = INVALID
    <2> DEFINE cache == l1[j]
               inv == Invalidated(cache)
    <2>1. cache \in [Line1 -> Set1] /\ l1'[j] = Flushed(cache)
      BY <1>1, <1>2 DEF Flush
    <2> HIDE DEF cache
    <2>2. inv \in [Line1 -> Set1] /\ \A i \in Line1, w \in Way1 : inv[i][w].v = INVALID
      <3>1. \A i \in Line1, w \in Way1 : /\ [cache[i][w] EXCEPT !.v = INVALID] \in Entry1
                                         /\ [cache[i][w] EXCEPT !.v = INVALID].v = INVALID
        BY <2>1 DEF Set1, Entry1, INVALID
      <3> QED
        BY <2>1, <3>1 DEF Invalidated, Set1
    <2>3. Flushed(cache) = [inv EXCEPT ![0][0].line = ZeroLine]
      BY DEF Flushed
    <2> HIDE DEF inv
    <2> QED
      BY <2>1, <2>2, <2>3 DEF Set1, Entry1
  <1>3. ASSUME NEW j \in L1Kinds, j # k
        PROVE  /\ \A i \in Line1, w \in Way1 : l1'[j][i][w].v = l1[j][i][w].v
               /\ k # "L1_ICACHE" => l1'[j] = l1[j]
    <2>1. l1'[j] = IF k = "L1_ICACHE" THEN Overrun(l1[j]) ELSE l1[j]
      BY <1>3 DEF Flush
    <2>2. \A i \in Line1, w \in Way1 : Overrun(l1[j])[i][w].v = l1[j][i][w].v
      <3>1. l1[j] \in [Line1 -> Set1]
        BY <1>1
      <3> QED
        BY <3>1 DEF Overrun, Set1, Entry1
    <2> QED
      BY <2>1, <2>2
  <1>4. VALID # INVALID /\ \A w \in Way1 : 0 .. (w - 1) \subseteq Way1
    BY WaysFacts DEF VALID, INVALID
  <1>5. Firsts => Firsts'
    <2> SUFFICES ASSUME Firsts, NEW j \in L1Kinds, NEW i \in Line1
                 PROVE  ValidFirst(l1'[j][i])
      BY DEF Firsts
    <2> QED
      BY <1>2, <1>3, <1>4 DEF Firsts, ValidFirst
  <1>6. ASSUME k # "L1_ICACHE", Onces PROVE Onces'
    <2> SUFFICES ASSUME NEW j \in L1Kinds, NEW i \in Line1
                 PROVE  Distinct(l1'[j][i])
      BY DEF Onces
    <2> QED
      BY <1>2, <1>3, <1>4, <1>6 DEF Onces, Distinct
  <1> QED
    BY <1>5, <1>6

LEMMA ValidNext ==
  ASSUME AlignedCalls, IInv, Firsts, [Next]_vars
  PROVE  Firsts' /\ ("L1_ICACHE" \notin Flushes => (Onces => Onces'))
  <1>1. CASE vars' = vars
    BY <1>1 DEF vars, Firsts, Onces
  <1>2. CASE CallAges(l1, l1')
    BY <1>2 DEF CallAges, KeepsSet, KeepsValid, Firsts, Onces
  <1>3. CASE \E k \in Flushes : Flush(k)
    BY <1>3, FlushKeepsValid
  <1>4. vars' = vars \/ CallAges(l1, l1') \/ \E k \in Flushes : Flush(k)
    <2>1. \A p \in Preloads : FALSE
      BY DEF AlignedCalls, NoPreload
    <2>2. /\ \A c \in Reads : Read(c) \/ ReadFails(c) => ret'.op # "FLUSH"
          /\ \A c \in Writes : Write(c) \/ WriteUncached(c) \/ WriteFails(c) => ret'.op # "FLUSH"
          /\ \A c \in ByteWrites : WriteByte(c) \/ WriteByteUncached(c) \/ WriteByteFails(c)
                                   => ret'.op # "FLUSH"
      BY DEF Read, ReadFails, Write, WriteUncached, WriteFails, WriteByte, WriteByteUncached,
             WriteByteFails, Wrote, Fails
    <2> QED
      BY <2>1, <2>2, ReadAgesStep, WriteAgesStep, WriteByteAgesStep, ReadFailsAgesStep,
         WriteFailsAgesStep, WriteByteFailsAgesStep, WriteUncachedAgesStep,
         WriteByteUncachedAgesStep DEF Next, AgesStep
  <1> QED
    BY <1>1, <1>2, <1>3, <1>4

LEMMA InitValid == Init => IInv /\ Firsts /\ Onces
  BY InitIInv DEF Init, ZeroEntry, VALID, INVALID, Firsts, Onces, ValidFirst, Distinct, L1Kinds

(***************************************************************************)
(* The valid ways of a set come first, so the scan of `hit', which gives   *)
(* up at the first invalid way, finds every block there is, whatever is    *)
(* written and flushed.                                                    *)
(***************************************************************************)
THEOREM ScanIsComplete == AlignedCalls => (Spec => []ValidPrefix)
  <1> SUFFICES ASSUME AlignedCalls PROVE Spec => []ValidPrefix
    OBVIOUS
  <1>1. IInv /\ Firsts /\ [Next]_vars => (IInv /\ Firsts)'
    BY NextStep, ValidNext DEF AlignedCalls
  <1>2. Firsts => ValidPrefix
    BY DEF Firsts, ValidFirst, ValidPrefix
  <1> QED
    BY <1>1, <1>2, InitValid, PTL DEF Spec

(***************************************************************************)
(* No block is in two ways of an L1, through every miss, eviction and      *)
(* flush of the other caches, although the entries evicted keep their      *)
(* tags, and even for a program that writes the instructions it fetches.   *)
(***************************************************************************)
THEOREM CachedOnce == AlignedCalls /\ "L1_ICACHE" \notin Flushes => (Spec => []UniqueTags)
  <1> SUFFICES ASSUME AlignedCalls, "L1_ICACHE" \notin Flushes PROVE Spec => []UniqueTags
    OBVIOUS
  <1> DEFINE Inv == IInv /\ Firsts /\ Onces
  <1>1. Inv /\ [Next]_vars => Inv'
    BY NextStep, ValidNext DEF AlignedCalls
  <1>2. Inv => UniqueTags
    BY DEF Onces, Distinct, UniqueTags
  <1> QED
    BY <1>1, <1>2, InitValid, PTL DEF Spec

=============================================================================
