---------------------------- MODULE SystemProofs ----------------------------
(***************************************************************************)
(* Theorems about System, for every geometry of the caches and the pages,  *)
(* every image, every program and every reading of words as numbers.  A    *)
(* page is a whole number of blocks and a command's address begins a       *)
(* block: only such accesses does cache_entry_init accept.  Nothing is     *)
(* asked of the tables: the program may write its own.                     *)
(***************************************************************************)
EXTENDS CacheAlignedProofs, AddressProofs, SystemRefinement

AlignedProgram ==
  /\ PageSize % BlockBytes = 0
  /\ \A c \in ProgramCommands : c.vaddr.page_offset % BlockBytes = 0

CacheGood(cache, m) == \A i \in Line1 : Good(cache[i], i, m)

\* Before a memory is loaded the caches are empty; then each L1 holds what it last read.
SysInv ==
  /\ IInv /\ seen \in Memory
  /\ phase = "off" => \A k \in L1Kinds, i \in Line1, w \in Way1 : l1[k][i][w].v = INVALID
  /\ CacheGood(l1["L1_DCACHE"], mem)
  /\ CacheGood(l1["L1_ICACHE"], seen)

-----------------------------------------------------------------------------
(* Addresses. *)

LEMMA Sizes ==
  /\ LineWords \in Nat \ {0} /\ WordBytes \in Nat \ {0} /\ BlockBytes \in Nat \ {0}
  /\ BlockBytes = WordBytes * LineWords /\ PageSize \in Nat \ {0} /\ MaxBlock \in Nat
  <1>1. LineWords \in Nat \ {0} /\ WordBytes \in Nat \ {0} /\ PageSize \in Nat \ {0} /\ MaxBlock \in Nat
    BY GeometryAssumption, PageAssumption
  <1>2. BlockBytes \in Nat \ {0}
    BY <1>1, Product DEF BlockBytes
  <1> QED
    BY <1>1, <1>2 DEF BlockBytes

LEMMA Multiple ==
  ASSUME NEW k \in Nat, NEW n \in Nat \ {0}, NEW p, p = k * n
  PROVE  p \div n = k /\ p % n = 0
  <1>1. p \in Nat /\ p = k * n + 0 /\ 0 \in 0 .. (n - 1)
    BY SMT
  <1> QED
    BY <1>1, Unique

\* The byte n of memory: its word is the digit of n \div WordBytes.
LEMMA PlaceOf ==
  ASSUME NEW n \in Nat
  PROVE  /\ AddrOf(n) = [blk |-> (n \div WordBytes) \div LineWords,
                         word |-> (n \div WordBytes) % LineWords, byte |-> n % WordBytes]
         /\ AddrOf(n) = Translated!Place(n)
  <1> DEFINE q == n \div WordBytes
             o == n % WordBytes
             d == q % LineWords
  <1>1. q \in Nat /\ o \in 0 .. (WordBytes - 1)
    BY Sizes, Mod, Div
  <1>2. d \in Nat
    BY <1>1, Sizes, Mod
  <1>3. n % BlockBytes = o + WordBytes * d /\ n \div BlockBytes = q \div LineWords
    BY Sizes, Digit
  <1> HIDE DEF q, o, d
  <1>4. (o + WordBytes * d) \div WordBytes = d
    <2>1. o + WordBytes * d = d * WordBytes + o
      BY <1>1, <1>2, Sizes
    <2> QED
      BY <1>1, <1>2, <2>1, Sizes, Unique
  <1>5. AddrOf(n) = [blk |-> q \div LineWords, word |-> d, byte |-> o]
    BY <1>3, <1>4 DEF AddrOf, o
  <1> QED
    BY <1>3, <1>5 DEF Translated!Place, q, d, o, BlockBytes

\* The n-th word of memory.
LEMMA WordPlace ==
  ASSUME NEW n \in Nat
  PROVE  AddrOf(n * WordBytes) = [blk |-> n \div LineWords, word |-> n % LineWords, byte |-> 0]
  <1> DEFINE p == n * WordBytes
  <1>1. p \in Nat
    BY Sizes
  <1>2. p \div WordBytes = n /\ p % WordBytes = 0
    BY Sizes, Multiple
  <1> HIDE DEF p
  <1>3. AddrOf(p) = [blk |-> n \div LineWords, word |-> n % LineWords, byte |-> 0]
    BY <1>1, <1>2, PlaceOf
  <1> QED
    BY <1>3 DEF p

Starts == Nat \cup {-1}

\* A word is in memory when its block is.
LEMMA WordInMemory ==
  ASSUME NEW n \in Nat
  PROVE  /\ n \div LineWords \in Block <=> n < LineWords * (MaxBlock + 1)
         /\ n % LineWords \in WordIdx
  <1> DEFINE q == n \div LineWords
             r == n % LineWords
  <1>1. q \in Nat /\ r \in 0 .. (LineWords - 1) /\ n = q * LineWords + r
    BY Sizes, Mod, Div, Euclid
  <1> HIDE DEF q, r
  <1>2. q \in Block <=> q <= MaxBlock
    BY <1>1, Sizes DEF Block
  <1>3. ASSUME q <= MaxBlock PROVE n < LineWords * (MaxBlock + 1)
    <2>1. q * LineWords <= MaxBlock * LineWords
      BY <1>1, <1>3, Sizes
    <2> QED
      BY <1>1, <2>1, Sizes
  <1>4. ASSUME ~ (q <= MaxBlock) PROVE ~ (n < LineWords * (MaxBlock + 1))
    <2>1. (MaxBlock + 1) * LineWords <= q * LineWords
      BY <1>1, <1>4, Sizes
    <2> QED
      BY <1>1, <2>1, Sizes
  <1>5. r \in WordIdx
    BY <1>1 DEF WordIdx
  <1> QED
    BY <1>2, <1>3, <1>4, <1>5 DEF q, r

\* read_page_entry finds the entry of the abstract table.
LEMMA EntryIsLookup ==
  ASSUME NEW m \in Memory, NEW t \in Starts, NEW i \in Nat
  PROVE  /\ ReadPageEntry(m, t, i) = Translated!Lookup(m, t, i)
         /\ ReadPageEntry(m, t, i) \in Starts
  <1>1. CASE t = -1
    BY <1>1 DEF ReadPageEntry, Translated!Lookup, NoEntry, Starts
  <1>2. CASE t \in Nat
    <2> DEFINE n == t \div WordBytes + i
    <2>1. n \in Nat
      BY <1>2, Sizes, Div
    <2>2. AddrOf(n * WordBytes) = [blk |-> n \div LineWords, word |-> n % LineWords, byte |-> 0]
      BY <2>1, WordPlace
    <2>3. (n \div LineWords \in Block <=> n < LineWords * (MaxBlock + 1)) /\ n % LineWords \in WordIdx
      BY <2>1, WordInMemory
    <2>4. t # NoEntry /\ t >= 0
      BY <1>2 DEF NoEntry
    <2>5. ReadPageEntry(m, t, i) = IF n \div LineWords \in Block
                                   THEN WordValue[m[n \div LineWords][n % LineWords]] ELSE -1
      BY <2>2, <2>4 DEF ReadPageEntry, NoEntry
    <2>6. Translated!Lookup(m, t, i) = IF n < LineWords * (MaxBlock + 1)
                                       THEN WordValue[m[n \div LineWords][n % LineWords]] ELSE -1
      BY <2>4 DEF Translated!Lookup, Translated!WordAt
    <2>7. n \div LineWords \in Block => WordValue[m[n \div LineWords][n % LineWords]] \in Nat
      BY <2>3, SystemAssumption DEF Memory, Line
    <2> HIDE DEF n
    <2> QED
      BY <2>3, <2>5, <2>6, <2>7 DEF Starts
  <1> QED
    BY <1>1, <1>2 DEF Starts

LEMMA WalkIsPageOf ==
  ASSUME NEW m \in Memory, NEW v \in VirtAddr
  PROVE  PageWalk(m, v) = Translated!PageOf(m, v) /\ PageWalk(m, v) \in Starts
  <1>1. {v.pgd, v.pud, v.pmd, v.pte} \subseteq Nat /\ 0 \in Starts
    BY PageAssumption DEF VirtAddr, Index, Starts
  <1> DEFINE t1 == ReadPageEntry(m, 0, v.pgd)
             t2 == ReadPageEntry(m, t1, v.pud)
             t3 == ReadPageEntry(m, t2, v.pmd)
             t4 == ReadPageEntry(m, t3, v.pte)
  <1>2. t1 \in Starts /\ t1 = Translated!Lookup(m, 0, v.pgd)
    BY <1>1, EntryIsLookup
  <1> HIDE DEF t1
  <1>3. t2 \in Starts /\ t2 = Translated!Lookup(m, t1, v.pud)
    BY <1>1, <1>2, EntryIsLookup
  <1> HIDE DEF t2
  <1>4. t3 \in Starts /\ t3 = Translated!Lookup(m, t2, v.pmd)
    BY <1>1, <1>3, EntryIsLookup
  <1> HIDE DEF t3
  <1>5. t4 \in Starts /\ t4 = Translated!Lookup(m, t3, v.pte)
    BY <1>1, <1>4, EntryIsLookup
  <1>6. PageWalk(m, v) = t4
    BY DEF PageWalk, t1, t2, t3
  <1> QED
    BY <1>2, <1>3, <1>4, <1>5, <1>6 DEF Translated!PageOf

\* The datum of a command begins a block, at its offset from the start of its page.
LEMMA DatumPlace ==
  ASSUME AlignedProgram, NEW page \in Nat, IsPageBegin(page),
         NEW off \in Nat, off % BlockBytes = 0
  PROVE  LET a == AddrOf(PhyByte(InitPhyAddr(page, off)))
         IN /\ a = Translated!Place(page + off)
            /\ Aligned(a) /\ a.blk \in Nat
            /\ InMemory(a) <=> a.blk <= MaxBlock
  <1> DEFINE y == page \div PageSize
             x == PageSize \div BlockBytes
             z == off \div BlockBytes
             n == page + off
             a == AddrOf(n)
             q == n \div WordBytes
  <1>1. y \in Nat /\ x \in Nat /\ z \in Nat
    BY Sizes, Div
  <1>2. page = y * PageSize /\ PageSize = x * BlockBytes /\ off = z * BlockBytes
    <2>1. page % PageSize = 0 /\ PageSize % BlockBytes = 0
      BY DEF AlignedProgram, IsPageBegin
    <2>2. /\ page = y * PageSize + (page % PageSize)
          /\ PageSize = x * BlockBytes + (PageSize % BlockBytes)
          /\ off = z * BlockBytes + (off % BlockBytes)
      BY Sizes, Euclid
    <2> HIDE DEF x, y, z
    <2> QED
      BY <1>1, <2>1, <2>2, Sizes
  <1>3. PhyByte(InitPhyAddr(page, off)) = n
    BY <1>2 DEF PhyByte, InitPhyAddr
  <1> HIDE DEF x, y, z
  <1> DEFINE u == y * x + z
             w == u * LineWords
  <1>4. u \in Nat /\ n = u * BlockBytes
    BY <1>1, <1>2, Sizes
  <1> HIDE DEF n, u
  <1>5. w \in Nat /\ n = w * WordBytes /\ w = u * LineWords
    BY <1>4, Sizes
  <1> HIDE DEF w
  <1>6. n \in Nat
    BY <1>5, Sizes
  <1>7. q = w /\ n % WordBytes = 0
    BY <1>5, Sizes, Multiple DEF q
  <1> HIDE DEF q
  <1>8. q % LineWords = 0 /\ q \div LineWords = u
    BY <1>4, <1>5, <1>7, Sizes, Multiple
  <1>9. a = [blk |-> q \div LineWords, word |-> q % LineWords, byte |-> n % WordBytes]
         /\ a = Translated!Place(n)
    BY <1>6, PlaceOf DEF q
  <1>10. Aligned(a) /\ a.blk \in Nat
    BY <1>4, <1>7, <1>8, <1>9 DEF Aligned
  <1>11. InMemory(a) <=> a.blk <= MaxBlock
    <2>1. a.word \in WordIdx /\ a.byte \in ByteIdx /\ a = [blk |-> a.blk, word |-> a.word, byte |-> a.byte]
      BY <1>7, <1>8, <1>9, Sizes DEF WordIdx, ByteIdx
    <2>2. a \in Addr <=> a.blk \in Block
      BY <2>1 DEF Addr
    <2>3. a.blk \in Block <=> a.blk <= MaxBlock
      BY <1>10, Sizes DEF Block
    <2> QED
      BY <1>10, <2>2, <2>3 DEF InMemory
  <1> QED
    BY <1>3, <1>9, <1>10, <1>11 DEF n

-----------------------------------------------------------------------------
(* The caches. *)

\* r differs from s in one set of one L1; n from m in one block.
OneSet(s, r, k, a, new) == r.l1 = [s.l1 EXCEPT ![k][Index1(a)] = new]
OneBlock(a, m, n) == \A b \in Block : b # a.blk => n[b] = m[b]

\* One set changes, and what its cache is a copy of changes at that block only.
LEMMA OtherSetsGood ==
  ASSUME NEW s \in State, NEW k \in L1Kinds, NEW a \in Addr, NEW m, NEW n,
         CacheGood(s.l1[k], m), OneBlock(a, m, n),
         NEW new, Good(new, Index1(a), n), NEW r, OneSet(s, r, k, a, new)
  PROVE  CacheGood(r.l1[k], n) /\ r.l1[k][Index1(a)] = new
  <1> DEFINE i == Index1(a)
  <1>1. s.l1 \in Caches1 /\ i \in Line1
    BY IndexFacts DEF State, Addr
  <1>2. ASSUME NEW j \in Line1 PROVE r.l1[k][j] = IF j = i THEN new ELSE s.l1[k][j]
    BY <1>1 DEF Caches1, OneSet
  <1>3. ASSUME NEW j \in Line1 PROVE Good(r.l1[k][j], j, n)
    <2>1. CASE j = i
      BY <1>2, <2>1
    <2>2. CASE j # i
      <3>1. r.l1[k][j] = s.l1[k][j] /\ Good(s.l1[k][j], j, m)
        BY <1>2, <2>2 DEF CacheGood
      <3>2. \A b \in Block : j = b % L1Lines => n[b] = m[b]
        BY <2>2 DEF Index1, OneBlock
      <3>3. Holds(s.l1[k][j], j, n)
        BY <3>1, <3>2 DEF Good, Holds
      <3> QED
        BY <3>1, <3>3 DEF Good
    <2> QED
      BY <2>1, <2>2
  <1> QED
    BY <1>1, <1>2, <1>3 DEF CacheGood

\* A valid way with the tag is found by the scan, and is a copy of the block.
LEMMA PresentIsHit ==
  ASSUME NEW set \in Set1, NEW a \in Addr, NEW m, Good(set, Index1(a), m),
         \E w \in Way1 : set[w].v = VALID /\ set[w].tag = TagOf1(a)
  PROVE  set[HitWay(set, TagOf1(a))].line = m[a.blk]
  <1>1. Hit(set, TagOf1(a))
    BY MissMeansAbsent DEF Good
  <1> QED
    BY <1>1, HitHolds DEF Good

\* The line a read of a set leaves there: the copy it had, or that of memory.
ReadLine(set, a, m, line) == IF Hit(set, TagOf1(a)) THEN m[a.blk] ELSE line

LEMMA FetchedSet ==
  ASSUME NEW set \in Set1, NEW a \in Addr, NEW m \in Memory, NEW line \in Line,
         Good(set, Index1(a), m)
  PROVE  LET new == ReadSet(set, a, line)
             n == [m EXCEPT ![a.blk] = ReadLine(set, a, m, line)]
         IN /\ OneBlock(a, m, n)
            /\ Good(new, Index1(a), n)
            /\ new[HitWay(new, TagOf1(a))].line = ReadLine(set, a, m, line)
  <1> DEFINE new == ReadSet(set, a, line)
             n == [m EXCEPT ![a.blk] = ReadLine(set, a, m, line)]
             tag == TagOf1(a)
             way == HitWay(set, tag)
             i == Index1(a)
  <1>1. a.blk \in Block /\ m[a.blk] \in Line /\ ReadLine(set, a, m, line) \in Line
    BY DEF Addr, Memory, ReadLine
  <1>2. /\ n \in Memory /\ n[a.blk] = ReadLine(set, a, m, line)
        /\ \A b \in Block : b # a.blk => n[b] = m[b]
    BY <1>1 DEF Memory
  <1>3. CASE Hit(set, tag)
    <2>1. n = m
      BY <1>1, <1>3 DEF ReadLine, Memory
    <2>2. way \in Way1 /\ set[way].v = VALID /\ set[way].tag = tag
      BY <1>3, HitHolds DEF Good
    <2>3. new = AgeUpdate(set, way)
      BY <1>3 DEF ReadSet
    <2> HIDE DEF way, tag, new, n
    <2>4. SameButAges(set, new) /\ new \in Set1
      BY <2>2, <2>3, AgedSets, Ages1
    <2>5. Good(new, i, n)
      BY <2>1, <2>4, AgesDoNotMatter
    <2>6. new[way].v = VALID /\ new[way].tag = tag
      BY <2>2, <2>4 DEF SameButAges
    <2>7. new[HitWay(new, tag)].line = n[a.blk]
      BY <2>2, <2>4, <2>5, <2>6, PresentIsHit DEF tag
    <2> QED
      BY <1>2, <2>5, <2>7 DEF tag, OneBlock, new, n
  <1>4. CASE ~ Hit(set, tag)
    <2> DEFINE filled == Filled(set, a, line)
               victim == VictimWay(set)
    <2>1. n[a.blk] = line
      BY <1>2, <1>4 DEF ReadLine
    <2>2. filled \in Set1 /\ victim \in Way1
      BY FreshEntry
    <2>3. Good(filled, i, n)
      <3> HIDE DEF n
      <3> QED
        BY <1>2, <1>4, <2>1, FilledIsGood
    <2>4. filled[victim].v = VALID /\ filled[victim].tag = tag
      BY <2>2 DEF Filled, Insert, Fresh, Set1
    <2>5. new = AgeUpdate(filled, victim)
      BY <1>4 DEF ReadSet
    <2> HIDE DEF filled, victim, tag, new, n
    <2>6. SameButAges(filled, new) /\ new \in Set1
      BY <2>2, <2>5, AgedSets, Ages1
    <2>7. Good(new, i, n)
      BY <2>3, <2>6, AgesDoNotMatter
    <2>8. new[victim].v = VALID /\ new[victim].tag = tag
      BY <2>2, <2>4, <2>6 DEF SameButAges
    <2>9. new[HitWay(new, tag)].line = n[a.blk]
      BY <2>2, <2>6, <2>7, <2>8, PresentIsHit DEF tag
    <2> QED
      BY <1>2, <2>7, <2>9 DEF tag, OneBlock, new, n
  <1> QED
    BY <1>3, <1>4

\* After a read of a, cache is a copy of m but for the line it read: m's or memory's.
Copies(cache, m, memory, a, word) ==
  \E line \in {m[a.blk], memory[a.blk]} :
    /\ CacheGood(cache, [m EXCEPT ![a.blk] = line])
    /\ word = line[a.word]
    /\ cache[Index1(a)][HitWay(cache[Index1(a)], TagOf1(a))].line = line

\* cache_read, of an L1 that is a copy of m wherever it holds a block.
LEMMA ReadCall ==
  ASSUME NEW s \in State, L2Empty(s.l2), NEW k \in L1Kinds, NEW a \in Addr, Aligned(a),
         NEW g \in Entry1, NEW r, r = CacheRead(s, k, a, g),
         NEW m \in Memory, CacheGood(s.l1[k], m)
  PROVE  Copies(r.l1[k], m, s.mem, a, r.word)
  <1> DEFINE set == SetOf(s, k, a)
             new == ReadSet(set, a, s.mem[a.blk])
             line == ReadLine(set, a, m, s.mem[a.blk])
             n == [m EXCEPT ![a.blk] = line]
  <1>1. /\ set \in Set1 /\ s.mem[a.blk] \in Line /\ Index1(a) \in Line1
        /\ Good(set, Index1(a), m)
    BY AlignedInMemory DEF State, Caches1, SetOf, Memory, CacheGood
  <1>2. /\ r.l1 = [s.l1 EXCEPT ![k][Index1(a)] = new]
        /\ ~ Hit(set, TagOf1(a)) => r.word = s.mem[a.blk][a.word]
        /\ Hit(set, TagOf1(a)) => r.word = set[HitWay(set, TagOf1(a))].line[a.word]
    BY AlignedRead
  <1>3. Hit(set, TagOf1(a)) => set[HitWay(set, TagOf1(a))].line = m[a.blk]
    BY <1>1, HitHolds DEF Good
  <1>4. r.word = line[a.word] /\ line \in {m[a.blk], s.mem[a.blk]}
    BY <1>2, <1>3 DEF ReadLine
  <1>5. /\ OneBlock(a, m, n) /\ Good(new, Index1(a), n)
        /\ new[HitWay(new, TagOf1(a))].line = line
    <2> HIDE DEF set
    <2> QED
      BY <1>1, FetchedSet, Zenon
  <1>6. OneSet(s, r, k, a, new)
    BY <1>2 DEF OneSet
  <1> HIDE DEF new, line, n
  <1>7. CacheGood(r.l1[k], n) /\ r.l1[k][Index1(a)] = new
    BY <1>5, <1>6, OtherSetsGood
  <1> QED
    BY <1>4, <1>5, <1>7 DEF n, Copies

\* cache_write, of a data L1 that is a copy of memory.
LEMMA WriteCall ==
  ASSUME NEW s \in State, L2Empty(s.l2), NEW a \in Addr, Aligned(a),
         NEW data \in Word, NEW g \in Entry1, NEW r, r = CacheWrite(s, a, data, g),
         CacheGood(s.l1["L1_DCACHE"], s.mem)
  PROVE  /\ CacheGood(r.l1["L1_DCACHE"], r.mem)
         /\ r.mem = [s.mem EXCEPT ![a.blk][a.word] = data]
  <1> DEFINE k == "L1_DCACHE"
             set == SetOf(s, k, a)
             line == WrittenLine(s, a, data)
             new == WriteSet(set, a, line)
  <1>1. /\ s.mem \in Memory /\ set \in Set1 /\ Index1(a) \in Line1 /\ a.blk \in Block
        /\ Good(set, Index1(a), s.mem) /\ k \in L1Kinds
    BY AlignedInMemory DEF State, Caches1, SetOf, CacheGood, L1Kinds
  <1>2. /\ line \in Line /\ r.mem = [s.mem EXCEPT ![a.blk] = line]
        /\ r.l1 = [s.l1 EXCEPT ![k][Index1(a)] = new]
    BY AlignedWrite
  <1>3. Hit(set, TagOf1(a)) => set[HitWay(set, TagOf1(a))].line = s.mem[a.blk]
    BY <1>1, HitHolds DEF Good
  <1>4. line = [s.mem[a.blk] EXCEPT ![a.word] = data]
    BY <1>3 DEF WrittenLine
  <1>5. Good(new, Index1(a), r.mem)
    BY <1>1, <1>2, WriteSetFacts
  <1>6. OneBlock(a, s.mem, r.mem) /\ OneSet(s, r, k, a, new)
    BY <1>1, <1>2 DEF Memory, OneBlock, OneSet
  <1>7. r.mem = [s.mem EXCEPT ![a.blk][a.word] = data]
    BY <1>1, <1>2, <1>4 DEF Memory
  <1> HIDE DEF new, set, line
  <1>8. CacheGood(r.l1[k], r.mem)
    BY <1>1, <1>5, <1>6, OtherSetsGood
  <1> QED
    BY <1>7, <1>8

-----------------------------------------------------------------------------
(* The calls as steps of the driver. *)

LEMMA AfterInv ==
  ASSUME NEW r \in State, L2Empty(r.l2), After(r)
  PROVE  IInv'
  BY DEF After, IInv, TypeOK, L2Empty, State, Caches1, Caches2, Set1, Set2

\* An L1 that a call leaves alone stays the copy it was.
LEMMA OtherCacheGood ==
  ASSUME NEW s, NEW r, NEW k, NEW a, CallLeaves(s, r, k, a), NEW j \in L1Kinds, j # k,
         NEW m, CacheGood(s.l1[j], m)
  PROVE  CacheGood(r.l1[j], m)
  BY DEF CallLeaves, CacheGood

\* A read through cache k, when its caller has seen m there.
LEMMA ReadStepGood ==
  ASSUME SysInv, NEW k \in L1Kinds, NEW a \in Addr, Aligned(a),
         NEW g \in Garbage, NEW word \in GarbageWords,
         NEW r, r = CacheRead(Before(word), k, a, g), After(r),
         NEW m \in Memory, CacheGood(l1[k], m)
  PROVE  /\ IInv' /\ mem' = mem
         /\ \A n : \A j \in L1Kinds : j # k /\ CacheGood(l1[j], n) => CacheGood(l1'[j], n)
         /\ Copies(l1'[k], m, mem, a, r.word)
  <1> DEFINE s == Before(word)
  <1>1. s \in State /\ L2Empty(s.l2) /\ s.l1 = l1 /\ s.mem = mem
    BY BeforeState DEF SysInv, Before
  <1>2. InMemory(a) /\ g \in Entry1
    BY AlignedInMemory, CallsAssumption
  <1> HIDE DEF s
  <1>3. CallLeaves(s, r, k, a) /\ r.mem = s.mem
    BY <1>1, <1>2, ReadFacts DEF s
  <1>4. IInv' /\ mem' = mem /\ l1' = r.l1
    BY <1>1, <1>3, AfterInv DEF CallLeaves, After
  <1>5. \A n : \A j \in L1Kinds : j # k /\ CacheGood(l1[j], n) => CacheGood(l1'[j], n)
    BY <1>1, <1>3, <1>4, OtherCacheGood
  <1>6. Copies(r.l1[k], m, s.mem, a, r.word)
    <2>1. r = CacheRead(s, k, a, g) /\ CacheGood(s.l1[k], m)
      BY <1>1 DEF s
    <2> QED
      BY <1>1, <1>2, <2>1, ReadCall
  <1> QED
    BY <1>1, <1>4, <1>5, <1>6

LEMMA DataRead ==
  ASSUME SysInv, phase = "run", NEW a \in Addr, Aligned(a), NEW size,
         Read([type |-> "DATA", addr |-> a, size |-> size]), seen' = seen, phase' = phase
  PROVE  /\ SysInv' /\ mem' = mem
         /\ ret' = [op |-> "READ", addr |-> a, cache |-> "L1_DCACHE",
                    data |-> [b \in Selected(size, a) |-> mem[a.blk][a.word][b]]]
  <1> DEFINE k == "L1_DCACHE"
  <1>1. PICK g \in Garbage, word \in GarbageWords :
          LET r == CacheRead(Before(word), k, a, g)
          IN /\ After(r)
             /\ ret' = [op |-> "READ", cache |-> k, addr |-> a,
                        data |-> [b \in Selected(size, a) |-> r.word[b]]]
    BY DEF Read, CacheOf
  <1> DEFINE r == CacheRead(Before(word), k, a, g)
  <1>2. k \in L1Kinds /\ "L1_ICACHE" \in L1Kinds /\ mem \in Memory
    BY DEF L1Kinds, SysInv, IInv, TypeOK
  <1>3. CacheGood(l1[k], mem) /\ CacheGood(l1["L1_ICACHE"], seen)
    BY DEF SysInv
  <1>4. After(r) /\ r = CacheRead(Before(word), k, a, g)
        /\ ret' = [op |-> "READ", addr |-> a, cache |-> k,
                   data |-> [b \in Selected(size, a) |-> r.word[b]]]
    BY <1>1
  <1>5. k # "L1_ICACHE"
    OBVIOUS
  <1> HIDE DEF r, k
  <1>6. /\ IInv' /\ mem' = mem
        /\ \A n : \A j \in L1Kinds : j # k /\ CacheGood(l1[j], n) => CacheGood(l1'[j], n)
        /\ Copies(l1'[k], mem, mem, a, r.word)
    BY <1>2, <1>3, <1>4, ReadStepGood
  <1>7. CacheGood(l1'[k], [mem EXCEPT ![a.blk] = mem[a.blk]]) /\ r.word = mem[a.blk][a.word]
    BY <1>6 DEF Copies
  <1>8. [mem EXCEPT ![a.blk] = mem[a.blk]] = mem
    BY <1>2 DEF Memory
  <1>9. CacheGood(l1'["L1_ICACHE"], seen)
    BY <1>2, <1>3, <1>5, <1>6
  <1>10. SysInv'
    BY <1>6, <1>7, <1>8, <1>9 DEF SysInv, k
  <1> QED
    BY <1>4, <1>6, <1>7, <1>10 DEF k

LEMMA InstructionRead ==
  ASSUME SysInv, phase = "run", NEW a \in Addr, Aligned(a), NEW size,
         Read([type |-> "INSTRUCTION", addr |-> a, size |-> size]),
         seen' = [seen EXCEPT ![a.blk] = Fetched(l1', a)], phase' = phase
  PROVE  /\ SysInv' /\ mem' = mem
         /\ \E line \in {mem[a.blk], seen[a.blk]} :
              /\ seen' = [seen EXCEPT ![a.blk] = line]
              /\ ret' = [op |-> "READ", addr |-> a, cache |-> "L1_ICACHE",
                         data |-> [b \in Selected(size, a) |-> line[a.word][b]]]
  <1> DEFINE k == "L1_ICACHE"
  <1>1. PICK g \in Garbage, word \in GarbageWords :
          LET r == CacheRead(Before(word), k, a, g)
          IN /\ After(r)
             /\ ret' = [op |-> "READ", cache |-> k, addr |-> a,
                        data |-> [b \in Selected(size, a) |-> r.word[b]]]
    BY DEF Read, CacheOf
  <1> DEFINE r == CacheRead(Before(word), k, a, g)
  <1>2. k \in L1Kinds /\ "L1_DCACHE" \in L1Kinds /\ mem \in Memory /\ seen \in Memory
    BY DEF L1Kinds, SysInv, IInv, TypeOK
  <1>3. CacheGood(l1[k], seen) /\ CacheGood(l1["L1_DCACHE"], mem)
    BY DEF SysInv
  <1>4. After(r) /\ r = CacheRead(Before(word), k, a, g)
        /\ ret' = [op |-> "READ", addr |-> a, cache |-> k,
                   data |-> [b \in Selected(size, a) |-> r.word[b]]]
    BY <1>1
  <1>5. k # "L1_DCACHE"
    OBVIOUS
  <1>6. Fetched(l1', a) = l1'[k][Index1(a)][HitWay(l1'[k][Index1(a)], TagOf1(a))].line
    BY DEF Fetched
  <1> HIDE DEF r, k
  <1>7. /\ IInv' /\ mem' = mem
        /\ \A n : \A j \in L1Kinds : j # k /\ CacheGood(l1[j], n) => CacheGood(l1'[j], n)
        /\ Copies(l1'[k], seen, mem, a, r.word)
    BY <1>2, <1>3, <1>4, ReadStepGood
  <1>8. PICK line \in {seen[a.blk], mem[a.blk]} :
          /\ CacheGood(l1'[k], [seen EXCEPT ![a.blk] = line])
          /\ r.word = line[a.word]
          /\ Fetched(l1', a) = line
    BY <1>6, <1>7 DEF Copies
  <1>9. CacheGood(l1'["L1_DCACHE"], mem)
    BY <1>2, <1>3, <1>5, <1>7
  <1>10. line \in Line /\ a.blk \in Block
    BY <1>2 DEF Memory, Addr
  <1>11. seen' = [seen EXCEPT ![a.blk] = line] /\ seen' \in Memory
    BY <1>2, <1>8, <1>10 DEF Memory
  <1>12. SysInv'
    BY <1>7, <1>8, <1>9, <1>11 DEF SysInv, k
  <1> QED
    BY <1>4, <1>7, <1>8, <1>11, <1>12 DEF k

\* What a call leaves behind is good when what it does to its set and to memory is.
LEMMA CallStepGood ==
  ASSUME SysInv, phase' = "run", seen' = seen, NEW a \in Addr, Aligned(a),
         NEW word \in GarbageWords, NEW r, After(r), CallLeaves(Before(word), r, "L1_DCACHE", a),
         CacheGood(r.l1["L1_DCACHE"], r.mem)
  PROVE  SysInv' /\ mem' = r.mem
  <1> DEFINE s == Before(word)
  <1>1. "L1_ICACHE" \in L1Kinds /\ "L1_ICACHE" # "L1_DCACHE"
    BY DEF L1Kinds
  <1>2. CacheGood(s.l1["L1_ICACHE"], seen)
    BY DEF SysInv, Before
  <1>3. CallLeaves(s, r, "L1_DCACHE", a)
    OBVIOUS
  <1> HIDE DEF s
  <1>4. CacheGood(r.l1["L1_ICACHE"], seen)
    BY <1>1, <1>2, <1>3, OtherCacheGood
  <1>5. IInv' /\ l1' = r.l1 /\ mem' = r.mem
    BY <1>3, AfterInv DEF CallLeaves, After
  <1> QED
    BY <1>4, <1>5 DEF SysInv

\* The state a call of the driver starts from.
LEMMA BeforeCall ==
  ASSUME SysInv, NEW word \in GarbageWords
  PROVE  LET s == Before(word)
         IN /\ s \in State /\ L2Empty(s.l2) /\ s.l1 = l1 /\ s.mem = mem
            /\ CacheGood(s.l1["L1_DCACHE"], s.mem)
  BY BeforeState DEF SysInv, Before

LEMMA WordWritten ==
  ASSUME SysInv, phase' = "run", seen' = seen, NEW a \in Addr, Aligned(a), NEW data \in Word,
         Write([addr |-> a, data |-> data])
  PROVE  /\ SysInv' /\ mem' = [mem EXCEPT ![a.blk][a.word] = data]
         /\ Wrote(a, data)
  <1>1. PICK g \in Garbage, word \in GarbageWords :
          After(CacheWrite(Before(word), a, data, g)) /\ Wrote(a, data)
    BY DEF Write
  <1> DEFINE s == Before(word)
             r == CacheWrite(s, a, data, g)
  <1>2. /\ s \in State /\ L2Empty(s.l2) /\ s.mem = mem /\ CacheGood(s.l1["L1_DCACHE"], s.mem)
        /\ g \in Entry1 /\ InMemory(a)
    BY BeforeCall, CallsAssumption, AlignedInMemory
  <1>3. After(r) /\ r = CacheWrite(s, a, data, g)
    BY <1>1
  <1> HIDE DEF r
  <1>4. CallLeaves(s, r, "L1_DCACHE", a) /\ CacheGood(r.l1["L1_DCACHE"], r.mem)
        /\ r.mem = [s.mem EXCEPT ![a.blk][a.word] = data]
    <2> HIDE DEF s
    <2> QED
      BY <1>2, <1>3, WriteFacts, WriteCall
  <1>5. SysInv' /\ mem' = r.mem
    BY <1>3, <1>4, CallStepGood
  <1> QED
    BY <1>1, <1>2, <1>4, <1>5

\* Written although its entry was not allocated: the word is in memory, and the set aged.
LEMMA WordUncached ==
  ASSUME SysInv, phase' = "run", seen' = seen, NEW a \in Addr, Aligned(a), NEW data \in Word,
         WriteUncached([addr |-> a, data |-> data])
  PROVE  /\ SysInv' /\ mem' = [mem EXCEPT ![a.blk][a.word] = data]
         /\ Wrote(a, data)
  <1>1. PICK word \in GarbageWords :
          /\ WriteMisses(Before(word), a) /\ After(WriteUnallocated(Before(word), a, data))
          /\ Wrote(a, data)
    BY DEF WriteUncached
  <1> DEFINE k == "L1_DCACHE"
             s == Before(word)
             r == WriteUnallocated(s, a, data)
             set == SetOf(s, k, a)
             new == AgedSet(set)
             line == [s.mem[a.blk] EXCEPT ![a.word] = data]
  <1>2. /\ s \in State /\ L2Empty(s.l2) /\ s.mem = mem /\ CacheGood(s.l1[k], s.mem)
        /\ InMemory(a) /\ k \in L1Kinds
    BY BeforeCall, AlignedInMemory DEF L1Kinds
  <1>3. After(r) /\ r = WriteUnallocated(s, a, data) /\ WriteMisses(s, a)
    BY <1>1
  <1> HIDE DEF r, s
  <1>4. CallLeaves(s, r, k, a)
    BY <1>2, <1>3, WriteUnallocatedFacts
  <1>5. r.mem = [s.mem EXCEPT ![a.blk] = line] /\ r.l1 = [s.l1 EXCEPT ![k][Index1(a)] = new]
    BY <1>2, <1>3, AlignedUnallocated
  <1>6. /\ s.mem \in Memory /\ set \in Set1 /\ a.blk \in Block
        /\ Good(set, Index1(a), s.mem) /\ ~ Hit(set, TagOf1(a))
    BY <1>2, <1>3, AlignedInMemory DEF State, Caches1, SetOf, CacheGood, WriteMisses
  <1>7. OneBlock(a, s.mem, r.mem) /\ OneSet(s, r, k, a, new)
    BY <1>5, <1>6 DEF Memory, OneBlock, OneSet
  <1>8. r.mem = [s.mem EXCEPT ![a.blk][a.word] = data]
    BY <1>5, <1>6 DEF Memory
  <1> HIDE DEF set, line
  <1>9. Good(new, Index1(a), r.mem)
    <2>1. Good(set, Index1(a), r.mem)
      BY <1>6, <1>7, AbsentBlock DEF OneBlock
    <2> QED
      BY <1>6, <2>1, AgedSetFacts, AgesDoNotMatter
  <1> HIDE DEF new
  <1>10. CacheGood(r.l1[k], r.mem)
    BY <1>2, <1>7, <1>9, OtherSetsGood
  <1>11. SysInv' /\ mem' = r.mem
    BY <1>3, <1>4, <1>10, CallStepGood DEF s
  <1> QED
    BY <1>1, <1>2, <1>8, <1>11

\* A write that fails has at most aged the set it hit.
LEMMA WordRefused ==
  ASSUME SysInv, phase' = "run", seen' = seen, NEW a \in Addr, Aligned(a), NEW data \in Word,
         WriteFails([addr |-> a, data |-> data])
  PROVE  SysInv' /\ mem' = mem /\ Fails("L1_DCACHE", a)
  <1>1. PICK word \in GarbageWords :
          /\ \E r \in WriteFailed(Before(word), a, data) : After(r)
          /\ Fails("L1_DCACHE", a)
    BY DEF WriteFails
  <1>2. PICK r \in WriteFailed(Before(word), a, data) : After(r)
    BY <1>1
  <1> DEFINE k == "L1_DCACHE"
             s == Before(word)
             set == SetOf(s, k, a)
             new == HitAged(set, a)
  <1>3. /\ s \in State /\ L2Empty(s.l2) /\ s.mem = mem /\ CacheGood(s.l1[k], s.mem)
        /\ InMemory(a) /\ k \in L1Kinds /\ r \in WriteFailed(s, a, data)
    BY <1>2, BeforeCall, AlignedInMemory DEF L1Kinds
  <1> HIDE DEF s
  <1>4. CallLeaves(s, r, k, a) /\ r.mem = s.mem
    BY <1>3, WriteFailedFacts
  <1>5. CacheGood(r.l1[k], r.mem)
    <2>1. CASE r = s
      BY <1>3, <2>1
    <2>2. CASE r # s
      <3>1. SameButAges(set, new) /\ r.l1 = [s.l1 EXCEPT ![k][Index1(a)] = new]
        BY <1>3, <2>2, WriteFailedAges
      <3>2. Good(set, Index1(a), s.mem)
        BY <1>3, AlignedInMemory DEF SetOf, CacheGood
      <3>3. OneBlock(a, s.mem, r.mem) /\ OneSet(s, r, k, a, new)
        BY <1>4, <3>1 DEF OneBlock, OneSet
      <3> HIDE DEF set, new
      <3>4. Good(new, Index1(a), r.mem)
        BY <1>4, <3>1, <3>2, AgesDoNotMatter
      <3> QED
        BY <1>3, <3>3, <3>4, OtherSetsGood
    <2> QED
      BY <2>1, <2>2
  <1>6. SysInv' /\ mem' = r.mem
    BY <1>2, <1>4, <1>5, CallStepGood DEF s
  <1> QED
    BY <1>1, <1>3, <1>4, <1>6

\* A call that does nothing.
LEMMA Nothing ==
  ASSUME SysInv, UNCHANGED <<l1, l2, mem, phase, seen>>
  PROVE  SysInv'
  BY DEF SysInv, IInv, TypeOK, L2Empty

\* A read that fails leaves everything as it was: L2 never hits.
LEMMA ReadRefused ==
  ASSUME SysInv, NEW a \in Addr, Aligned(a), NEW type, NEW size, phase' = phase, seen' = seen,
         ReadFails([type |-> type, addr |-> a, size |-> size])
  PROVE  SysInv' /\ mem' = mem /\ Fails(CacheOf(type), a)
  <1>1. PICK word \in GarbageWords :
          /\ \E r \in ReadFailed(Before(word), CacheOf(type), a) : After(r)
          /\ Fails(CacheOf(type), a)
    BY DEF ReadFails
  <1>2. ReadFailed(Before(word), CacheOf(type), a) = {Before(word)}
    BY BeforeCall, AlignedInMemory, ReadFailedFacts
  <1>3. UNCHANGED <<l1, l2, mem>>
    BY <1>1, <1>2 DEF After, Before
  <1> QED
    BY <1>1, <1>3, Nothing

-----------------------------------------------------------------------------
(* The driver's steps, as steps of a program over a translated memory. *)

\* Caches that hold nothing are copies of anything.
LEMMA EmptyIsGood ==
  ASSUME NEW k, \A i \in Line1, w \in Way1 : l1[k][i][w].v = INVALID, NEW m
  PROVE  CacheGood(l1[k], m)
  BY DEF CacheGood, Good, ValidFirst, Distinct, Holds, VALID, INVALID

LEMMA StartStep ==
  ASSUME SysInv, phase = "off", NEW m \in Memory, Start(m)
  PROVE  SysInv' /\ Translated!Load(m)
  <1>1. CacheGood(l1["L1_DCACHE"], m) /\ CacheGood(l1["L1_ICACHE"], m)
    BY EmptyIsGood DEF SysInv, L1Kinds
  <1>2. IInv'
    BY DEF Start, SysInv, IInv, TypeOK, L2Empty
  <1>3. SysInv'
    BY <1>1, <1>2 DEF Start, SysInv
  <1>4. Translated!Load(m)
    BY DEF Start, Translated!Load
  <1> QED
    BY <1>3, <1>4

LEMMA StopStep ==
  ASSUME SysInv, NEW p, p # "off", Stop(p)
  PROVE  SysInv' /\ Translated!End(p)
  <1>1. SysInv'
    BY DEF Stop, SysInv, IInv, TypeOK, L2Empty
  <1>2. Translated!End(p)
    BY DEF Stop, Translated!End
  <1> QED
    BY <1>1, <1>2

LEMMA LoadDumpStep ==
  ASSUME SysInv, LoadDump
  PROVE  SysInv' /\ Translated!Next
  <1>1. PICK n \in ReadLengths : IF n > 0 THEN Start(Loaded(n)) ELSE Stop("no dump")
    BY DEF LoadDump
  <1>2. phase = "off"
    BY DEF LoadDump
  <1>3. CASE n > 0
    <2>1. Loaded(n) \in Memory
      BY SystemAssumption DEF Loaded, Memory
    <2>2. SysInv' /\ Translated!Load(Loaded(n))
      BY <1>1, <1>2, <1>3, <2>1, StartStep
    <2>3. n \in ReadLengths \ {0}
      BY <1>3, SystemAssumption
    <2>4. Loaded(n) \in {Loaded(i) : i \in ReadLengths \ {0}}
      BY <2>3
    <2> QED
      BY <2>2, <2>4 DEF Translated!Next
  <1>4. CASE ~ (n > 0)
    <2>1. SysInv' /\ Translated!End("no dump")
      BY <1>1, <1>4, StopStep
    <2> QED
      BY <1>2, <2>1 DEF Translated!Next, Translated!NoMemory
  <1> QED
    BY <1>3, <1>4

LEMMA LoadMissingStep ==
  ASSUME SysInv, LoadMissing
  PROVE  SysInv' /\ Translated!Next
  <1>1. phase = "off" /\ SysInv' /\ Translated!End("crashed")
    BY StopStep DEF LoadMissing
  <1> QED
    BY <1>1 DEF Translated!Next, Translated!NoMemory

\* fseek never gives what page_file_read wants, so the first page file ends the loading.
LEMMA LineFails ==
  ASSUME NEW st, NEW l, NEW seek \in FSeek
  PROVE  DescriptionLine(st, l, seek).err
  <1>1. ~ (seek > 0)
    BY DEF FSeek
  <1>2. \A m, file, address : PageFileRead(m, file, address, seek) = [err |-> TRUE, mem |-> m]
    BY <1>1 DEF PageFileRead
  <1>3. ASSUME st.err PROVE DescriptionLine(st, l, seek) = st
    BY <1>3 DEF DescriptionLine
  <1>4. ASSUME ~ st.err PROVE DescriptionLine(st, l, seek) = [err |-> TRUE, mem |-> st.mem]
    BY <1>2, <1>4 DEF DescriptionLine
  <1> QED
    BY <1>3, <1>4

LEMMA DescriptionFails ==
  ASSUME NEW d \in Descriptions, NEW seek \in FSeek
  PROVE  FromDescription(d, seek).err
  <1> DEFINE n == Len(d)
             none == [err |-> FALSE, mem |-> [k \in Block |-> ZeroLine]]
             Step(f) == [i \in 0 .. n |-> IF i = 0 THEN none
                                          ELSE DescriptionLine(f[i - 1], d[i], seek)]
             after == CHOOSE f : f = Step(f)
             failed == [err |-> TRUE, mem |-> none.mem]
             g == [i \in 0 .. n |-> IF i = 0 THEN none ELSE failed]
  <1>1. n \in Nat \ {0} /\ \A i \in 1 .. n : i # 1 => i - 1 \in 1 .. n
    BY SystemAssumption
  <1>2. ASSUME NEW l PROVE DescriptionLine(failed, l, seek) = failed
    BY DEF DescriptionLine
  <1>3. ASSUME NEW l PROVE DescriptionLine(none, l, seek) = failed
    <2>1. ~ (seek > 0)
      BY DEF FSeek
    <2>2. \A m, file, address : PageFileRead(m, file, address, seek) = [err |-> TRUE, mem |-> m]
      BY <2>1 DEF PageFileRead
    <2> QED
      BY <2>2 DEF DescriptionLine
  <1> HIDE DEF none, failed
  <1>4. ASSUME NEW i \in 0 .. n
        PROVE  g[i] = IF i = 0 THEN none ELSE DescriptionLine(g[i - 1], d[i], seek)
    <2>1. CASE i = 0
      BY <1>1, <2>1
    <2>2. CASE i = 1
      BY <1>1, <1>3, <2>2
    <2>3. CASE i # 0 /\ i # 1
      <3>1. i - 1 \in 0 .. n /\ i - 1 # 0
        BY <1>1, <2>3
      <3> QED
        BY <1>2, <2>3, <3>1
    <2> QED
      BY <2>1, <2>2, <2>3
  <1>5. g = Step(g)
    BY <1>4
  <1>6. \A f : Step(f)[n] = DescriptionLine(f[n - 1], d[n], seek)
    BY <1>1
  <1>7. FromDescription(d, seek) = after[n]
    BY DEF FromDescription, none
  <1> HIDE DEF g, Step
  <1>8. after = Step(after)
    BY <1>5
  <1> HIDE DEF after
  <1>9. after[n] = DescriptionLine(after[n - 1], d[n], seek)
    BY <1>6, <1>8
  <1>10. after[n].err
    BY <1>9, LineFails
  <1> QED
    BY <1>7, <1>10

LEMMA LoadDescriptionStep ==
  ASSUME SysInv, NEW d \in Descriptions, LoadDescription(d)
  PROVE  SysInv' /\ Translated!Next
  <1>1. phase = "off" /\ Stop("failed")
    BY DescriptionFails DEF LoadDescription
  <1>2. SysInv' /\ Translated!End("failed")
    BY <1>1, StopStep
  <1> QED
    BY <1>1, <1>2 DEF Translated!Next, Translated!NoMemory

\* A command that fails, of which only the ages of a set may keep a trace.
LEMMA FailsIsFail ==
  ASSUME NEW c \in ProgramCommands, NEW a, Fails(CacheOf(c.type), a), UNCHANGED <<mem, seen, phase>>
  PROVE  Translated!Fail(c, a)
  BY DEF Fails, CacheOf, Translated!Fail

LEMMA ReadCommandStep ==
  ASSUME SysInv, phase = "run", phase' = phase, NEW c \in ProgramCommands,
         NEW a \in Addr, Aligned(a), ReadCommand(c, a), Observed(c, a)
  PROVE  SysInv' /\ (Translated!Read(c, a) \/ Translated!Fail(c, a))
  <1> DEFINE size == IF c.data_size = WordBytes THEN "word" ELSE "byte"
             call == [type |-> c.type, addr |-> a, size |-> size]
  <1>1. c.type \in {"INSTRUCTION", "DATA"} /\ c.order = "READ"
    BY SystemAssumption DEF ReadCommand
  <1>2. Selected(size, a) = Translated!Bytes(c, a)
    BY DEF Selected, Translated!Bytes, ByteIdx
  <1>3. Read(call) \/ ReadFails(call)
    BY DEF ReadCommand
  <1> HIDE DEF size
  <1>4. CASE ReadFails(call)
    <2>1. ret'.op = "FAILED"
      BY <1>4 DEF ReadFails, Fails
    <2>2. seen' = seen
      BY <2>1 DEF Observed
    <2>3. SysInv' /\ mem' = mem /\ Fails(CacheOf(c.type), a)
      BY <1>4, <2>2, ReadRefused
    <2> QED
      BY <2>2, <2>3, FailsIsFail
  <1>5. CASE Read(call)
    <2>1. ret'.op = "READ"
      BY <1>5 DEF Read
    <2>2. CASE c.type = "DATA"
      <3>1. Read([type |-> "DATA", addr |-> a, size |-> size]) /\ seen' = seen
        BY <1>5, <2>2 DEF Observed
      <3>2. /\ SysInv' /\ mem' = mem
            /\ ret' = [op |-> "READ", addr |-> a, cache |-> "L1_DCACHE",
                       data |-> [b \in Selected(size, a) |-> mem[a.blk][a.word][b]]]
        BY <3>1, DataRead
      <3> QED
        BY <1>1, <1>2, <2>2, <3>1, <3>2 DEF Translated!Read
    <2>3. CASE c.type = "INSTRUCTION"
      <3>1. /\ Read([type |-> "INSTRUCTION", addr |-> a, size |-> size])
            /\ seen' = [seen EXCEPT ![a.blk] = Fetched(l1', a)]
        BY <1>5, <2>1, <2>3 DEF Observed
      <3>2. SysInv' /\ mem' = mem
        BY <3>1, InstructionRead
      <3>3. PICK line \in {mem[a.blk], seen[a.blk]} :
              /\ seen' = [seen EXCEPT ![a.blk] = line]
              /\ ret' = [op |-> "READ", addr |-> a, cache |-> "L1_ICACHE",
                         data |-> [b \in Selected(size, a) |-> line[a.word][b]]]
        BY <3>1, InstructionRead
      <3> QED
        BY <1>1, <1>2, <2>3, <3>2, <3>3 DEF Translated!Read
    <2> QED
      BY <1>1, <2>2, <2>3
  <1> QED
    BY <1>3, <1>4, <1>5

LEMMA WordWriteCommandStep ==
  ASSUME SysInv, phase = "run", phase' = phase, NEW c \in ProgramCommands,
         NEW a \in Addr, Aligned(a), WordWriteCommand(c, a), Observed(c, a)
  PROVE  SysInv' /\ (Translated!Write(c, a) \/ Translated!Fail(c, a))
  <1> DEFINE call == [addr |-> a, data |-> c.write_data]
  <1>1. /\ c.order = "WRITE" /\ c.data_size = WordBytes /\ c.type = "DATA"
        /\ c.write_data \in Word
    BY SystemAssumption DEF WordWriteCommand, WordWrite
  <1>2. seen' = seen
    BY <1>1 DEF Observed
  <1>3. Write(call) \/ WriteUncached(call) \/ WriteFails(call)
    BY DEF WordWriteCommand
  <1>4. CASE Write(call) \/ WriteUncached(call)
    <2>1. /\ SysInv' /\ mem' = [mem EXCEPT ![a.blk][a.word] = c.write_data]
          /\ Wrote(a, c.write_data)
      BY <1>1, <1>2, <1>4, WordWritten, WordUncached
    <2> QED
      BY <1>1, <1>2, <2>1 DEF Wrote, Translated!Write
  <1>5. CASE WriteFails(call)
    <2>1. SysInv' /\ mem' = mem /\ Fails("L1_DCACHE", a)
      BY <1>1, <1>2, <1>5, WordRefused
    <2>2. Fails(CacheOf(c.type), a)
      BY <1>1, <2>1 DEF CacheOf
    <2> QED
      BY <1>2, <2>1, <2>2, FailsIsFail
  <1> QED
    BY <1>3, <1>4, <1>5

\* A call at an aligned address of memory.
LEMMA AccessStep ==
  ASSUME SysInv, phase = "run", phase' = phase, NEW c \in ProgramCommands,
         NEW a \in Addr, Aligned(a), CacheCall(c, a), Observed(c, a)
  PROVE  SysInv' /\ (Translated!Read(c, a) \/ Translated!Write(c, a) \/ Translated!Fail(c, a))
  <1>1. CASE ReadCommand(c, a)
    BY <1>1, ReadCommandStep
  <1>2. CASE WordWriteCommand(c, a)
    BY <1>2, WordWriteCommandStep
  <1>3. CASE ByteWriteCommand(c, a)
    <2>1. c.type = "DATA" /\ ReadFails([type |-> "DATA", addr |-> a, size |-> "byte"])
      BY <1>3, SystemAssumption DEF ByteWriteCommand, ByteWrite
    <2>2. seen' = seen
      BY <2>1 DEF Observed
    <2>3. SysInv' /\ mem' = mem /\ Fails(CacheOf(c.type), a)
      BY <2>1, <2>2, ReadRefused
    <2> QED
      BY <2>2, <2>3, FailsIsFail
  <1> QED
    BY <1>1, <1>2, <1>3 DEF CacheCall

LEMMA RefusedStep ==
  ASSUME SysInv, NEW c \in ProgramCommands, NEW a, Refused(c, a)
  PROVE  SysInv' /\ Translated!Fail(c, a)
  BY Nothing, FailsIsFail DEF Refused

LEMMA ExecuteStep ==
  ASSUME AlignedProgram, SysInv, NEW c \in ProgramCommands, Execute(c)
  PROVE  SysInv' /\ Translated!Command(c)
  <1> DEFINE page == PageWalk(mem, c.vaddr)
             off == c.vaddr.page_offset
             a == AddrOf(PhyByte(InitPhyAddr(page, off)))
             x == Translated!Place(page + off)
  <1>1. c.vaddr \in VirtAddr /\ mem \in Memory /\ off \in Nat /\ off % BlockBytes = 0
    BY SystemAssumption, PageAssumption DEF SysInv, IInv, TypeOK, AlignedProgram, VirtAddr, PageOffset
  <1>2. page = Translated!PageOf(mem, c.vaddr) /\ page \in Starts
    BY <1>1, WalkIsPageOf
  <1>3. /\ phase = "run"
        /\ IF page = NoEntry THEN Stop("lost")
           ELSE IF ~IsPageBegin(page) THEN Stop("aborted")
           ELSE IF NullByte(c) THEN Refused(c, a)
           ELSE IF ~InMemory(a) THEN Stop("lost") \/ Refused(c, a)
           ELSE \/ ByteWrite(c) /\ Stop("crashed")
                \/ CacheCall(c, a) /\ Observed(c, a) /\ UNCHANGED phase
    BY DEF Execute
  <1>4. page \in Nat /\ IsPageBegin(page) =>
          /\ a = x /\ Aligned(a) /\ a.blk \in Nat
          /\ InMemory(a) <=> a.blk <= MaxBlock
    <2> HIDE DEF page, off
    <2> QED
      BY <1>1, DatumPlace
  <1>5. Translated!Command(c) <=>
          /\ phase = "run"
          /\ \/ Translated!Misses(page, x)
             \/ /\ page >= 0 /\ IsPageBegin(page)
                /\ \/ Translated!Fail(c, x)
                   \/ /\ x.blk <= MaxBlock
                      /\ Translated!Read(c, x) \/ Translated!Write(c, x) \/ Translated!Crash(c)
    BY <1>2 DEF Translated!Command, IsPageBegin, Translated!IsPageBegin
  <1>6. page = NoEntry \/ (page # NoEntry /\ page \in Nat /\ page >= 0)
    BY <1>2 DEF Starts, NoEntry
  <1> HIDE DEF page, a, x
  <1>7. CASE page = NoEntry
    <2>1. SysInv' /\ Translated!End("lost")
      BY <1>3, <1>7, StopStep
    <2>2. page < 0
      BY <1>7 DEF NoEntry
    <2> QED
      BY <1>3, <1>5, <2>1, <2>2 DEF Translated!Misses
  <1>8. CASE page # NoEntry /\ ~IsPageBegin(page)
    <2>1. SysInv' /\ Translated!End("aborted")
      BY <1>3, <1>8, StopStep
    <2> QED
      BY <1>3, <1>5, <1>6, <1>8, <2>1 DEF Translated!Misses, IsPageBegin, Translated!IsPageBegin
  <1>9. CASE page # NoEntry /\ IsPageBegin(page)
    <2>1. a = x /\ Aligned(a) /\ page >= 0 /\ Translated!IsPageBegin(page)
      BY <1>4, <1>6, <1>9 DEF IsPageBegin, Translated!IsPageBegin
    <2>2. CASE Refused(c, a)
      <3>1. SysInv' /\ Translated!Fail(c, x)
        BY <2>1, <2>2, RefusedStep
      <3> QED
        BY <1>3, <1>5, <1>9, <2>1, <3>1
    <2>3. CASE ~InMemory(a) /\ Stop("lost")
      <3>1. SysInv' /\ Translated!End("lost")
        BY <2>3, StopStep
      <3>2. x.blk > MaxBlock
        BY <1>4, <1>6, <1>9, <2>3, Sizes
      <3> QED
        BY <1>3, <1>5, <1>9, <2>1, <3>1, <3>2 DEF Translated!Misses, IsPageBegin, Translated!IsPageBegin
    <2>4. CASE InMemory(a) /\ ~NullByte(c) /\ ByteWrite(c) /\ Stop("crashed")
      <3>1. SysInv' /\ Translated!End("crashed") /\ x.blk <= MaxBlock
        BY <1>4, <1>6, <1>9, <2>4, StopStep
      <3>2. Translated!Crash(c)
        BY <2>4, <3>1 DEF Translated!Crash, NullByte, ByteWrite
      <3> QED
        BY <1>3, <1>5, <1>9, <2>1, <3>1, <3>2
    <2>5. CASE InMemory(a) /\ CacheCall(c, a) /\ Observed(c, a) /\ UNCHANGED phase
      <3>1. a \in Addr /\ x.blk <= MaxBlock
        BY <1>4, <1>6, <1>9, <2>5 DEF InMemory
      <3>2. SysInv' /\ (Translated!Read(c, a) \/ Translated!Write(c, a) \/ Translated!Fail(c, a))
        BY <1>3, <2>1, <2>5, <3>1, AccessStep
      <3> QED
        BY <1>3, <1>5, <1>9, <2>1, <3>1, <3>2
    <2> QED
      BY <1>3, <1>9, <2>2, <2>3, <2>4, <2>5
  <1> QED
    BY <1>7, <1>8, <1>9

LEMMA SystemInit == SysInit => SysInv /\ Translated!Init
  <1> SUFFICES ASSUME SysInit PROVE SysInv /\ Translated!Init
    OBVIOUS
  <1>1. IInv /\ seen = mem /\ phase = "off"
    BY InitIInv DEF SysInit
  <1>2. \A k \in L1Kinds, i \in Line1, w \in Way1 : l1[k][i][w].v = INVALID
    BY DEF SysInit, Init, ZeroEntry
  <1>3. CacheGood(l1["L1_DCACHE"], mem) /\ CacheGood(l1["L1_ICACHE"], seen)
    BY <1>2, EmptyIsGood DEF L1Kinds
  <1>4. SysInv
    BY <1>1, <1>2, <1>3 DEF SysInv, IInv, TypeOK
  <1>5. Translated!Init
    BY <1>1 DEF SysInit, Init, Translated!Init
  <1> QED
    BY <1>4, <1>5

LEMMA SystemStep ==
  ASSUME AlignedProgram, SysInv, [SysNext]_sysVars
  PROVE  SysInv' /\ [Translated!Next]_(Translated!vars)
  <1>1. CASE LoadDump
    BY <1>1, LoadDumpStep
  <1>2. CASE LoadMissing
    BY <1>2, LoadMissingStep
  <1>3. ASSUME NEW d \in Descriptions, LoadDescription(d)
        PROVE  SysInv' /\ Translated!Next
    BY <1>3, LoadDescriptionStep
  <1>4. ASSUME NEW c \in ProgramCommands, Execute(c)
        PROVE  SysInv' /\ Translated!Next
    BY <1>4, ExecuteStep DEF Translated!Next
  <1>5. ASSUME Finish PROVE SysInv' /\ Translated!Next
    <2>1. phase = "run" /\ SysInv' /\ Translated!End("done")
      BY <1>5, StopStep DEF Finish
    <2> QED
      BY <2>1 DEF Translated!Next, Translated!Done
  <1>6. CASE UNCHANGED sysVars
    <2>1. SysInv'
      BY <1>6 DEF sysVars, SysInv, IInv, TypeOK, L2Empty
    <2> QED
      BY <1>6, <2>1 DEF sysVars, Translated!vars
  <1> QED
    BY <1>1, <1>2, <1>3, <1>4, <1>5, <1>6 DEF SysNext

-----------------------------------------------------------------------------
(* Walks. *)

\* The data L1, where it holds a block, holds what memory does.
LEMMA CacheShowsMemory == SysInv => ThroughCache = mem
  <1> SUFFICES ASSUME SysInv PROVE ThroughCache = mem
    OBVIOUS
  <1>1. mem \in Memory /\ l1["L1_DCACHE"] \in [Line1 -> Set1]
    BY DEF SysInv, IInv, TypeOK, Set1, L1Kinds
  <1>2. ASSUME NEW k \in Block PROVE ThroughCache[k] = mem[k]
    <2> DEFINE a == [blk |-> k, word |-> 0, byte |-> 0]
               set == l1["L1_DCACHE"][k % L1Lines]
    <2>1. a \in Addr /\ Index1(a) = k % L1Lines /\ TagOf1(a) = k \div L1Lines /\ a.blk = k
      BY Sizes DEF Addr, WordIdx, ByteIdx, Index1, TagOf1
    <2>2. Index1(a) \in Line1
      BY <2>1, IndexFacts DEF Addr
    <2>3. set \in Set1 /\ Holds(set, Index1(a), mem)
      BY <1>1, <2>1, <2>2 DEF SysInv, CacheGood, Good
    <2>4. ThroughCache[k] = IF Hit(set, k \div L1Lines)
                            THEN set[HitWay(set, k \div L1Lines)].line ELSE mem[k]
      BY DEF ThroughCache
    <2> HIDE DEF a, set
    <2> QED
      BY <2>1, <2>3, <2>4, HitHolds
  <1>3. ThroughCache = [k \in Block |-> ThroughCache[k]]
    BY DEF ThroughCache
  <1> QED
    BY <1>1, <1>2, <1>3 DEF Memory

\* An entry differs in two memories only when its word does.
LEMMA EntryDecides ==
  ASSUME NEW m \in Memory, NEW n \in Memory, NEW t \in Starts, NEW i \in Nat,
         ReadPageEntry(n, t, i) # ReadPageEntry(m, t, i)
  PROVE  LET x == AddrOf(t + i * WordBytes)
         IN x.blk \in Block /\ x.word \in WordIdx /\ n[x.blk][x.word] # m[x.blk][x.word]
  <1>1. t \in Nat
    BY DEF ReadPageEntry, Starts, NoEntry
  <1> DEFINE q == t \div WordBytes
             o == t % WordBytes
             j == q + i
             p == t + i * WordBytes
             x == AddrOf(p)
             y == AddrOf(j * WordBytes)
  <1>2. q \in Nat /\ o \in 0 .. (WordBytes - 1) /\ t = q * WordBytes + o
    BY <1>1, Sizes, Mod, Div, Euclid
  <1>3. j \in Nat /\ p \in Nat
    BY <1>1, <1>2, Sizes
  <1>4. p \div WordBytes = j
    <2>1. p = j * WordBytes + o
      BY <1>2, Sizes
    <2> HIDE DEF p, j, o
    <2> QED
      BY <1>2, <1>3, <2>1, Sizes, Unique
  <1>5. y = [blk |-> j \div LineWords, word |-> j % LineWords, byte |-> 0]
    <2> HIDE DEF j
    <2> QED
      BY <1>3, WordPlace
  <1>6. x.blk = j \div LineWords /\ x.word = j % LineWords
    <2> HIDE DEF p, j
    <2> QED
      BY <1>3, <1>4, PlaceOf
  <1>7. j % LineWords \in WordIdx
    <2> HIDE DEF j
    <2> QED
      BY <1>3, WordInMemory
  <1>8. /\ ReadPageEntry(m, t, i) = IF t # NoEntry /\ y.blk \in Block
                                    THEN WordValue[m[y.blk][y.word]] ELSE NoEntry
        /\ ReadPageEntry(n, t, i) = IF t # NoEntry /\ y.blk \in Block
                                    THEN WordValue[n[y.blk][y.word]] ELSE NoEntry
    BY DEF ReadPageEntry
  <1> HIDE DEF x, y, j
  <1>9. y.blk \in Block /\ n[y.blk][y.word] # m[y.blk][y.word]
    BY <1>8
  <1>10. x.blk = y.blk /\ x.word = y.word
    BY <1>5, <1>6
  <1> QED
    BY <1>6, <1>7, <1>9, <1>10 DEF x, p

\* A walk differs in two memories only when a word on its path does.
LEMMA PathDecides ==
  ASSUME NEW m \in Memory, NEW n \in Memory, NEW v \in VirtAddr,
         PageWalk(n, v) # PageWalk(m, v)
  PROVE  \E x \in Path(m, v) :
           x.blk \in Block /\ x.word \in WordIdx /\ n[x.blk][x.word] # m[x.blk][x.word]
  <1>1. {v.pgd, v.pud, v.pmd, v.pte} \subseteq Nat /\ 0 \in Starts
    BY PageAssumption DEF VirtAddr, Index, Starts
  <1> DEFINE t1 == ReadPageEntry(m, 0, v.pgd)
             t2 == ReadPageEntry(m, t1, v.pud)
             t3 == ReadPageEntry(m, t2, v.pmd)
             t4 == ReadPageEntry(m, t3, v.pte)
             u1 == ReadPageEntry(n, 0, v.pgd)
             u2 == ReadPageEntry(n, u1, v.pud)
             u3 == ReadPageEntry(n, u2, v.pmd)
             u4 == ReadPageEntry(n, u3, v.pte)
  <1>2. t1 \in Starts
    BY <1>1, EntryIsLookup
  <1>3. t2 \in Starts
    BY <1>1, <1>2, EntryIsLookup
  <1>4. t3 \in Starts
    BY <1>1, <1>3, EntryIsLookup
  <1>5. /\ u1 = ReadPageEntry(n, 0, v.pgd)
        /\ u1 = t1 => u2 = ReadPageEntry(n, t1, v.pud)
        /\ u2 = t2 => u3 = ReadPageEntry(n, t2, v.pmd)
        /\ u3 = t3 => u4 = ReadPageEntry(n, t3, v.pte)
    OBVIOUS
  <1>6. Path(m, v) = {AddrOf(v.pgd * WordBytes), AddrOf(t1 + v.pud * WordBytes),
                      AddrOf(t2 + v.pmd * WordBytes), AddrOf(t3 + v.pte * WordBytes)}
    BY DEF Path
  <1>7. u4 # t4
    BY DEF PageWalk
  <1>8. /\ t1 = ReadPageEntry(m, 0, v.pgd) /\ t2 = ReadPageEntry(m, t1, v.pud)
        /\ t3 = ReadPageEntry(m, t2, v.pmd) /\ t4 = ReadPageEntry(m, t3, v.pte)
    OBVIOUS
  <1> HIDE DEF t1, t2, t3, t4, u1, u2, u3, u4
  <1>9. CASE u1 # t1
    <2>1. 0 + v.pgd * WordBytes = v.pgd * WordBytes
      BY <1>1, Sizes
    <2> QED
      BY <1>1, <1>5, <1>6, <1>8, <1>9, <2>1, EntryDecides
  <1>10. CASE u1 = t1 /\ u2 # t2
    BY <1>1, <1>2, <1>5, <1>6, <1>8, <1>10, EntryDecides
  <1>11. CASE u2 = t2 /\ u3 # t3
    BY <1>1, <1>3, <1>5, <1>6, <1>8, <1>11, EntryDecides
  <1>12. CASE u3 = t3
    BY <1>1, <1>4, <1>5, <1>6, <1>7, <1>8, <1>12, EntryDecides
  <1> QED
    BY <1>9, <1>10, <1>11, <1>12

\* While a program runs, a word of memory changes only when it is written.
LEMMA OnlyWrittenWords ==
  ASSUME SysInv, phase = "run", [Translated!Next]_(Translated!vars),
         NEW k \in Block, NEW w \in WordIdx, mem'[k][w] # mem[k][w]
  PROVE  ret'.op = "WRITE" /\ ret'.addr.blk = k /\ ret'.addr.word = w
  <1>1. mem \in Memory
    BY DEF SysInv, IInv, TypeOK
  <1>2. mem' # mem
    OBVIOUS
  <1>3. Translated!Next
    BY <1>2 DEF Translated!vars
  <1>4. PICK c \in ProgramCommands : Translated!Command(c)
    BY <1>2, <1>3 DEF Translated!Next, Translated!Load, Translated!NoMemory, Translated!Done,
                      Translated!End
  <1>5. PICK x : Translated!Write(c, x)
    BY <1>2, <1>4 DEF Translated!Command, Translated!Misses, Translated!End, Translated!Read,
                      Translated!Fail, Translated!Crash
  <1>6. ret'.op = "WRITE" /\ ret'.addr = x
    BY <1>5 DEF Translated!Write
  <1>7. PICK new : mem' = [mem EXCEPT ![x.blk][x.word] = new]
    BY <1>5 DEF Translated!Write
  <1>8. x.blk = k /\ x.word = w
    BY <1>1, <1>7 DEF Memory, Line
  <1> QED
    BY <1>6, <1>8

-----------------------------------------------------------------------------
(***************************************************************************)
(* The driver, its caches and the tables in memory are a program over a    *)
(* translated memory: a datum read is memory's, an instruction is what its *)
(* block is or was at the last fetch, a write changes its bytes at once,   *)
(* and every address goes through the tables as they are then, although    *)
(* page_walk reads them past the caches that write them.                   *)
(***************************************************************************)
THEOREM ActsAsTranslated == AlignedProgram => (SysSpec => TranslatedSpec)
  <1> SUFFICES ASSUME AlignedProgram PROVE SysSpec => TranslatedSpec
    OBVIOUS
  <1>1. SysInv /\ [SysNext]_sysVars => SysInv'
    BY SystemStep
  <1>2. SysInv /\ [SysNext]_sysVars => [Translated!Next]_(Translated!vars)
    BY SystemStep
  <1> QED
    BY <1>1, <1>2, SystemInit, PTL DEF SysSpec, TranslatedSpec, Translated!Spec

(***************************************************************************)
(* The data L1 never hides a table from page_walk, whichever blocks of the *)
(* tables it holds and whatever has been written to them.                  *)
(***************************************************************************)
THEOREM WalksAreCoherent == AlignedProgram => (SysSpec => []WalksSeeCachedTables)
  <1> SUFFICES ASSUME AlignedProgram PROVE SysSpec => []WalksSeeCachedTables
    OBVIOUS
  <1>1. SysInv /\ [SysNext]_sysVars => SysInv'
    BY SystemStep
  <1>2. SysInv => WalksSeeCachedTables
    BY CacheShowsMemory DEF WalksSeeCachedTables
  <1> QED
    BY <1>1, <1>2, SystemInit, PTL DEF SysSpec

(***************************************************************************)
(* A page moves only in a step that writes one of the four words its       *)
(* translation is read from.                                               *)
(***************************************************************************)
THEOREM PagesMoveByWrites == AlignedProgram => (SysSpec => RemapsOnlyWrittenEntries)
  <1> SUFFICES ASSUME AlignedProgram PROVE SysSpec => RemapsOnlyWrittenEntries
    OBVIOUS
  <1> DEFINE A == phase = "run" =>
                    \A v \in VirtPages :
                      PageWalk(mem', v) # PageWalk(mem, v) =>
                        /\ ret'.op = "WRITE"
                        /\ \E x \in Path(mem, v) :
                             x.blk = ret'.addr.blk /\ x.word = ret'.addr.word
  <1>1. SysInv /\ [SysNext]_sysVars => SysInv'
    BY SystemStep
  <1>2. SysInv /\ [SysNext]_sysVars => A
    <2> SUFFICES ASSUME SysInv, [SysNext]_sysVars, phase = "run", NEW v \in VirtPages,
                        PageWalk(mem', v) # PageWalk(mem, v)
                 PROVE  /\ ret'.op = "WRITE"
                        /\ \E x \in Path(mem, v) :
                             x.blk = ret'.addr.blk /\ x.word = ret'.addr.word
      OBVIOUS
    <2>1. mem \in Memory /\ mem' \in Memory /\ v \in VirtAddr
      BY <1>1 DEF SysInv, IInv, TypeOK, VirtPages
    <2>2. PICK x \in Path(mem, v) :
            x.blk \in Block /\ x.word \in WordIdx /\ mem'[x.blk][x.word] # mem[x.blk][x.word]
      BY <2>1, PathDecides
    <2>3. [Translated!Next]_(Translated!vars)
      BY SystemStep
    <2> QED
      BY <2>2, <2>3, OnlyWrittenWords
  <1>3. SysInv /\ [SysNext]_sysVars => [A]_mem
    BY <1>2
  <1> QED
    BY <1>1, <1>3, SystemInit, PTL DEF SysSpec, RemapsOnlyWrittenEntries

=============================================================================
