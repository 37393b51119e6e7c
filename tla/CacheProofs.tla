---------------------------- MODULE CacheProofs ----------------------------
(***************************************************************************)
(* Theorems about Cache for every geometry, every memory and every set of  *)
(* calls, as long as no caller inserts entries in L2 itself (NoPreload):   *)
(* the situation of the program, whose L2 starts empty.  The last two hold *)
(* with inserted entries too, when L2 has twice the ways of L1.            *)
(***************************************************************************)
EXTENDS Cache, CacheSetProofs

NoPreload == Preloads = {}

Set1 == [Way1 -> Entry1]
Set2 == [Way2 -> Entry2]
Caches1 == [L1Kinds -> [Line1 -> Set1]]
Caches2 == [Line2 -> Set2]

\* The records the calls work on, with nothing valid in L2.
State == [l1 : Caches1, l2 : Caches2, mem : Memory, word : Word]
L2Empty(cache) == \A i \in Line2, w \in Way2 : cache[i][w].v = INVALID

-----------------------------------------------------------------------------
(* Addresses and lines. *)

\* Indices and tags of a block of memory are in range, in both caches.
LEMMA IndexFacts ==
  ASSUME NEW a, a.blk \in Block
  PROVE  /\ Index1(a) \in Line1 /\ TagOf1(a) \in Tag1
         /\ Index2(a) \in Line2 /\ TagOf2(a) \in Tag2
  <1>1. L1Lines \in Nat /\ L1Lines > 0 /\ L2Lines \in Nat /\ L2Lines > 0 /\ MaxBlock \in Nat
    BY GeometryAssumption
  <1>2. a.blk \in Nat /\ a.blk <= MaxBlock
    BY <1>1 DEF Block
  <1> QED
    BY <1>1, <1>2 DEF Index1, TagOf1, Index2, TagOf2, Line1, Line2, Tag1, Tag2

\* A line's length from an address inside memory stays inside memory.
LEMMA PlusInMemory ==
  ASSUME NEW a, InMemory(a), NEW w \in WordIdx, NEW b \in ByteIdx
  PROVE  Plus(a, w, b) \in Addr
  <1>1. /\ a.blk \in Nat /\ a.blk <= MaxBlock /\ a.word \in 0 .. (LineWords - 1)
        /\ a.byte \in 0 .. (WordBytes - 1)
        /\ (a.word = 0 /\ a.byte = 0) \/ a.blk < MaxBlock
    BY GeometryAssumption DEF InMemory, Addr, Block, WordIdx, ByteIdx, Aligned
  <1>2. w \in 0 .. (LineWords - 1) /\ b \in 0 .. (WordBytes - 1)
    BY DEF WordIdx, ByteIdx
  <1> QED
    BY <1>1, <1>2, GeometryAssumption DEF Plus, Addr, Block, WordIdx, ByteIdx

LEMMA MemLineInLine ==
  ASSUME NEW m \in Memory, NEW a, InMemory(a)
  PROVE  MemLine(m, a) \in Line
  <1>1. ASSUME NEW w \in WordIdx, NEW b \in ByteIdx
        PROVE  m[Plus(a, w, b).blk][Plus(a, w, b).word][Plus(a, w, b).byte] \in Byte
    <2>1. Plus(a, w, b) \in Addr
      BY PlusInMemory
    <2> QED
      BY <2>1 DEF Addr, Memory, Line, Word
  <1> QED
    BY <1>1 DEF MemLine, Line, Word

LEMMA MemPutInMemory ==
  ASSUME NEW m \in Memory, NEW a, NEW line \in Line
  PROVE  MemPut(m, a, line) \in Memory
  <1>1. ASSUME NEW k \in Block, NEW w \in WordIdx, NEW b \in ByteIdx
        PROVE  MemPut(m, a, line)[k][w][b] \in Byte
    <2> DEFINE ps == Offsets(a, [blk |-> k, word |-> w, byte |-> b])
    <2>1. CASE ps = {}
      BY <2>1 DEF MemPut, Memory, Line, Word
    <2>2. CASE ps # {}
      <3>1. \A p \in ps : line[p[1]][p[2]] \in Byte
        BY DEF Offsets, Line, Word
      <3> QED
        BY <2>2, <3>1 DEF MemPut
    <2> QED
      BY <2>1, <2>2
  <1> QED
    BY <1>1 DEF MemPut, Memory, Line, Word

\* A byte out of reach of the address keeps its value.
LEMMA MemPutFootprint ==
  ASSUME NEW m, NEW a, NEW line, NEW k \in Block, NEW w \in WordIdx, NEW b \in ByteIdx,
         [blk |-> k, word |-> w, byte |-> b] \notin Reach(a)
  PROVE  MemPut(m, a, line)[k][w][b] = m[k][w][b]
  <1>1. Offsets(a, [blk |-> k, word |-> w, byte |-> b]) = {}
    BY DEF Offsets, Reach
  <1> QED
    BY <1>1 DEF MemPut

LEMMA EntryInitInEntry1 ==
  ASSUME NEW m \in Memory, NEW a, InMemory(a), NEW g \in Entry1
  PROVE  EntryInit(m, a, TagOf1(a), g) \in Entry1
  <1>1. TagOf1(a) \in Tag1
    BY IndexFacts DEF InMemory, Addr
  <1>2. MemLine(m, a) \in Line
    BY MemLineInLine
  <1>3. 0 \in Way1
    BY GeometryAssumption DEF Way1
  <1> QED
    BY <1>1, <1>2, <1>3 DEF EntryInit, Entry1

-----------------------------------------------------------------------------
(* Sets. *)

LEMMA WaysFacts ==
  /\ L1Ways \in Nat \ {0} /\ L2Ways \in Nat \ {0}
  /\ Way1 = 0 .. (L1Ways - 1) /\ Way2 = 0 .. (L2Ways - 1)
  /\ Entry1 = Entries(L1Ways, Tag1, Line) /\ Entry2 = Entries(L2Ways, Tag2, Line)
  /\ 0 \in Way1 /\ 0 \in Way2
  BY GeometryAssumption DEF Way1, Way2, Entry1, Entry2, Entries

\* The two ageing macros keep a set of L1 a set of L1, and its valid bits.
LEMMA Ages1 ==
  ASSUME NEW set \in Set1, NEW way \in Way1
  PROVE  /\ AgeUpdate(set, way) \in Set1
         /\ AgeIncrease(set, L1Ways, way) \in Set1
         /\ \A w \in Way1 : AgeUpdate(set, way)[w].v = set[w].v
         /\ \A w \in Way1 : AgeIncrease(set, L1Ways, way)[w].v = set[w].v
  <1>1. AgeUpdate(set, way) \in Set1
    BY AgeUpdateFacts, WaysFacts DEF Set1
  <1>2. AgeIncrease(set, L1Ways, way) \in Set1
    BY AgeIncreaseFacts, WaysFacts DEF Set1
  <1>3. \A w \in Way1 : AgeUpdate(set, way)[w].v = set[w].v
    BY AgeUpdateFacts, WaysFacts DEF Set1
  <1>4. \A w \in Way1 : AgeIncrease(set, L1Ways, way)[w].v = set[w].v
    BY AgeIncreaseFacts, WaysFacts DEF Set1
  <1> QED
    BY <1>1, <1>2, <1>3, <1>4

\* And a set of L2 a set of L2.
LEMMA Ages2 ==
  ASSUME NEW set \in Set2, NEW way \in Way2
  PROVE  /\ AgeUpdate(set, way) \in Set2
         /\ AgeIncrease(set, L2Ways, way) \in Set2
         /\ \A w \in Way2 : AgeUpdate(set, way)[w].v = set[w].v
         /\ \A w \in Way2 : AgeIncrease(set, L2Ways, way)[w].v = set[w].v
  <1>1. AgeUpdate(set, way) \in Set2
    BY AgeUpdateFacts, WaysFacts DEF Set2
  <1>2. AgeIncrease(set, L2Ways, way) \in Set2
    BY AgeIncreaseFacts, WaysFacts DEF Set2
  <1>3. \A w \in Way2 : AgeUpdate(set, way)[w].v = set[w].v
    BY AgeUpdateFacts, WaysFacts DEF Set2
  <1>4. \A w \in Way2 : AgeIncrease(set, L2Ways, way)[w].v = set[w].v
    BY AgeIncreaseFacts, WaysFacts DEF Set2
  <1> QED
    BY <1>1, <1>2, <1>3, <1>4

\* The way a new entry goes to is a way of the set.
LEMMA VictimWayFacts ==
  ASSUME NEW set \in Set1
  PROVE  VictimWay(set) \in Way1
  <1>1. DOMAIN set = 0 .. (L1Ways - 1) /\ \A w \in 0 .. (L1Ways - 1) : set[w].age \in 0 .. (L1Ways - 1)
    BY WaysFacts DEF Set1, Entry1
  <1>2. ApplyLru(set) \in Way1
    <2>1. L1Ways - 1 \in Nat
      BY WaysFacts
    <2> QED
      BY <1>1, <2>1, ApplyLruFacts, WaysFacts
  <1>3. HasPlace(set) => FindPlace(set) \in Way1
    BY <1>1, FindPlaceFacts, WaysFacts
  <1> QED
    BY <1>2, <1>3 DEF VictimWay

\* An invalid entry stored in a set of L2 leaves the set without a valid one.
LEMMA PutVictimFacts ==
  ASSUME NEW set \in Set2, \A w \in Way2 : set[w].v = INVALID,
         NEW e \in Entry2, e.v = INVALID
  PROVE  PutVictim(set, e) \in Set2 /\ \A w \in Way2 : PutVictim(set, e)[w].v = INVALID
  <1>1. DOMAIN set = 0 .. (L2Ways - 1) /\ \A w \in 0 .. (L2Ways - 1) : set[w].age \in 0 .. (L2Ways - 1)
    BY WaysFacts DEF Set2, Entry2
  <1>2. ApplyLru(set) \in Way2
    <2>1. L2Ways - 1 \in Nat
      BY WaysFacts
    <2> QED
      BY <1>1, <2>1, ApplyLruFacts, WaysFacts
  <1>3. HasPlace(set) => FindPlace(set) \in Way2
    BY <1>1, FindPlaceFacts, WaysFacts
  <1>4. ASSUME NEW way \in Way2
        PROVE  /\ AgeUpdate(Insert(set, way, e), way) \in Set2
               /\ \A w \in Way2 : AgeUpdate(Insert(set, way, e), way)[w].v = INVALID
               /\ AgeIncrease(Insert(set, way, e), L2Ways, way) \in Set2
               /\ \A w \in Way2 : AgeIncrease(Insert(set, way, e), L2Ways, way)[w].v = INVALID
    <2>1. Insert(set, way, e) \in Set2 /\ \A w \in Way2 : Insert(set, way, e)[w].v = INVALID
      BY DEF Insert, Set2
    <2> QED
      BY <2>1, Ages2
  <1> QED
    BY <1>2, <1>3, <1>4 DEF PutVictim

\* With nothing valid in L2, neither lookup of L2 can hit.
LEMMA NoL2Hit ==
  ASSUME NEW s \in State, L2Empty(s.l2), NEW a, InMemory(a)
  PROVE  /\ ~Hit(s.l2[Index2(a)], TagOf2(a))
         /\ ~Hit(L2AsL1(s, Index1(a)), TagOf1(a))
  <1> DEFINE i == Index1(a)
  <1>1. Index1(a) \in Line1 /\ Index2(a) \in Line2
    BY IndexFacts DEF InMemory, Addr
  <1>2. ~Hit(s.l2[Index2(a)], TagOf2(a))
    <2>1. DOMAIN s.l2[Index2(a)] = Way2
      BY <1>1 DEF State, Caches2, Set2
    <2> QED
      BY <1>1, <2>1, HitWayFacts DEF L2Empty, VALID, INVALID
  <1>3. ~Hit(L2AsL1(s, i), TagOf1(a))
    <2>1. SUFFICES ASSUME NEW w \in Way1 PROVE L2AsL1(s, i)[w].v # VALID
      <3>1. DOMAIN L2AsL1(s, i) = Way1
        BY DEF L2AsL1
      <3> QED
        BY <2>1, <3>1, HitWayFacts
    <2> DEFINE n == i * L1Ways + w
    <2>2. n \in Nat /\ n < L2Lines * L2Ways
      <3>1. i \in 0 .. (L1Lines - 1) /\ w \in 0 .. (L1Ways - 1)
        BY <1>1 DEF Line1, Way1
      <3>2. L1Lines \in Nat /\ L1Ways \in Nat /\ L2Lines \in Nat /\ L2Ways \in Nat
            /\ L1Lines <= L2Lines /\ L1Ways <= L2Ways
        BY GeometryAssumption
      <3>3. i * L1Ways + w < L1Lines * L1Ways
        BY <3>1, <3>2
      <3>4. L1Lines * L1Ways <= L2Lines * L2Ways
        BY <3>2
      <3>5. i * L1Ways + w \in Nat
        BY <3>1, <3>2
      <3> QED
        BY <3>2, <3>3, <3>4, <3>5
    <2>3. n \div L2Ways \in Line2 /\ n % L2Ways \in Way2
      <3>1. L2Lines \in Nat /\ L2Ways \in Nat /\ L2Ways > 0
        BY GeometryAssumption
      <3> HIDE DEF n
      <3> QED
        BY <2>2, <3>1 DEF Line2, Way2
    <2>4. s.l2[n \div L2Ways][n % L2Ways] \in Entry2 /\ s.l2[n \div L2Ways][n % L2Ways].v = INVALID
      BY <2>3 DEF State, Caches2, Set2, L2Empty
    <2>5. L2AsL1(s, i)[w] = AsL1(s.l2[n \div L2Ways][n % L2Ways])
      BY DEF L2AsL1
    <2> QED
      BY <2>4, <2>5 DEF AsL1, Entry2, VALID, INVALID
  <1> QED
    BY <1>2, <1>3

-----------------------------------------------------------------------------
(* The calls. *)

\* A set of L1 with a new entry in it, aged either way, is a set of L1.
LEMMA InsertFacts ==
  ASSUME NEW set \in Set1, NEW e \in Entry1, NEW way \in Way1
  PROVE  /\ AgeUpdate(Insert(set, way, e), way) \in Set1
         /\ AgeIncrease(Insert(set, way, e), L1Ways, way) \in Set1
  <1>1. Insert(set, way, e) \in Set1
    BY DEF Insert, Set1
  <1> QED
    BY <1>1, Ages1

\* What a call may do: change the addressed set of its L1, keep L2 empty.
CallLeaves(s, r, k, a) ==
  /\ r \in State
  /\ L2Empty(r.l2)
  /\ \A j \in L1Kinds, i \in Line1 : j # k \/ i # Index1(a) => r.l1[j][i] = s.l1[j][i]

\* A call that replaces one set of one L1, and keeps L2 empty, leaves what it may.
LEMMA CallShape ==
  ASSUME NEW s \in State, NEW k \in L1Kinds, NEW a, InMemory(a),
         NEW new \in Set1, NEW c2 \in Caches2, L2Empty(c2),
         NEW m \in Memory, NEW word \in Word, NEW r,
         r = [l1 |-> [s.l1 EXCEPT ![k][Index1(a)] = new], l2 |-> c2, mem |-> m, word |-> word]
  PROVE  CallLeaves(s, r, k, a) /\ r.l2 = c2 /\ r.mem = m /\ r.word = word
  <1> DEFINE i == Index1(a)
  <1>1. i \in Line1 /\ s.l1 \in Caches1
    BY IndexFacts DEF InMemory, Addr, State
  <1>2. [s.l1 EXCEPT ![k][i] = new] \in Caches1
    BY <1>1 DEF Caches1
  <1>3. r \in State
    BY <1>2 DEF State
  <1>4. \A j \in L1Kinds, n \in Line1 : j # k \/ n # i => r.l1[j][n] = s.l1[j][n]
    BY <1>1 DEF Caches1
  <1> QED
    BY <1>3, <1>4 DEF CallLeaves

\* cache_read, on a hit and on a miss; memory and L2 stay as they are.
LEMMA ReadFacts ==
  ASSUME NEW s \in State, L2Empty(s.l2), NEW k \in L1Kinds, NEW a, InMemory(a),
         NEW g \in Entry1
  PROVE  /\ CallLeaves(s, CacheRead(s, k, a, g), k, a)
         /\ CacheRead(s, k, a, g).mem = s.mem
         /\ CacheRead(s, k, a, g).l2 = s.l2
  <1> DEFINE i == Index1(a)
             set == s.l1[k][i]
             r == CacheRead(s, k, a, g)
  <1>1. i \in Line1 /\ a.word \in WordIdx
    BY IndexFacts DEF InMemory, Addr
  <1>2. set \in Set1 /\ s.l2 \in Caches2 /\ s.mem \in Memory
    BY <1>1 DEF State, Caches1
  <1>3. CASE Hit(set, TagOf1(a))
    <2> DEFINE way == HitWay(set, TagOf1(a))
               new == AgeUpdate(set, way)
               word == set[way].line[a.word]
    <2>1. way \in Way1
      BY <1>2, <1>3, HitWayFacts DEF Set1
    <2>2. new \in Set1 /\ word \in Word
      BY <1>1, <1>2, <2>1, Ages1 DEF Set1, Entry1, Line
    <2>3. r = [l1 |-> [s.l1 EXCEPT ![k][i] = new], l2 |-> s.l2, mem |-> s.mem, word |-> word]
      BY <1>3 DEF CacheRead, ReadL1Hit, State
    <2> QED
      BY <1>2, <2>2, <2>3, CallShape
  <1>4. CASE ~Hit(set, TagOf1(a))
    <2> DEFINE way == VictimWay(set)
               e == EntryInit(s.mem, a, TagOf1(a), g)
               new == AgeUpdate(Insert(set, way, e), way)
               word == e.line[a.word]
    <2>1. way \in Way1 /\ e \in Entry1
      BY <1>2, VictimWayFacts, EntryInitInEntry1
    <2>2. new \in Set1 /\ word \in Word
      BY <1>1, <1>2, <2>1, InsertFacts DEF Entry1, Line
    <2>3. r = [l1 |-> [s.l1 EXCEPT ![k][i] = new], l2 |-> s.l2, mem |-> s.mem, word |-> word]
      BY <1>4, NoL2Hit DEF CacheRead, ReadMiss, State
    <2> QED
      BY <1>2, <2>2, <2>3, CallShape
  <1> QED
    BY <1>3, <1>4

\* The bytes of memory a call changed lie within its reach.
Reaches(s, r, a) ==
  \A k \in Block, w \in WordIdx, b \in ByteIdx :
    [blk |-> k, word |-> w, byte |-> b] \notin Reach(a) => r.mem[k][w][b] = s.mem[k][w][b]

\* The tag of an entry evicted from L1, as the tag of an L2 entry.
LEMMA VictimTag ==
  ASSUME NEW t \in Tag1
  PROVE  t \div (L2Lines \div L1Lines) \in Tag2
  <1> DEFINE r == L2Lines \div L1Lines
  <1>1. /\ L1Lines \in Nat /\ L1Lines > 0 /\ L2Lines \in Nat /\ L2Lines >= L1Lines
        /\ L2Lines % L1Lines = 0 /\ MaxBlock \in Nat
    BY GeometryAssumption
  <1>2. r \in Nat /\ r > 0 /\ L2Lines = L1Lines * r
    BY <1>1
  <1>3. t \in Nat /\ t <= MaxBlock \div L1Lines /\ MaxBlock \div L1Lines \in Nat
    BY <1>1 DEF Tag1
  <1>4. (MaxBlock \div L1Lines) \div r = MaxBlock \div L2Lines
    <2> HIDE DEF r
    <2> QED
      BY <1>1, <1>2
  <1>5. t \div r \in Nat /\ t \div r <= (MaxBlock \div L1Lines) \div r
    <2> HIDE DEF r
    <2> QED
      BY <1>2, <1>3
  <1> QED
    BY <1>4, <1>5, <1>1 DEF Tag2

\* cache_write, on an L1 hit and without a hit.
LEMMA WriteFacts ==
  ASSUME NEW s \in State, L2Empty(s.l2), NEW a, InMemory(a),
         NEW data \in Word, NEW g \in Entry1
  PROVE  /\ CallLeaves(s, CacheWrite(s, a, data, g), "L1_DCACHE", a)
         /\ Reaches(s, CacheWrite(s, a, data, g), a)
  <1> DEFINE k == "L1_DCACHE"
             i == Index1(a)
             set == s.l1[k][i]
             r == CacheWrite(s, a, data, g)
  <1>1. i \in Line1 /\ Index2(a) \in Line2 /\ a.word \in WordIdx /\ k \in L1Kinds
    BY IndexFacts DEF InMemory, Addr, L1Kinds
  <1>2. set \in Set1 /\ s.l2 \in Caches2 /\ s.mem \in Memory /\ s.word \in Word
    BY <1>1 DEF State, Caches1
  <1>3. CASE Hit(set, TagOf1(a))
    <2> DEFINE way == HitWay(set, TagOf1(a))
               line == [set[way].line EXCEPT ![a.word] = data]
               new == [AgeUpdate(set, way) EXCEPT ![way].line = line]
               m == MemPut(s.mem, a, line)
    <2>1. way \in Way1
      BY <1>2, <1>3, HitWayFacts DEF Set1
    <2>2. line \in Line
      BY <1>1, <1>2, <2>1 DEF Set1, Entry1, Line
    <2>3. new \in Set1
      <3>1. AgeUpdate(set, way) \in Set1
        BY <1>2, <2>1, Ages1
      <3> QED
        BY <2>1, <2>2, <3>1 DEF Set1, Entry1
    <2>4. m \in Memory
      BY <1>2, <2>2, MemPutInMemory
    <2>5. r = [l1 |-> [s.l1 EXCEPT ![k][i] = new], l2 |-> s.l2, mem |-> m, word |-> s.word]
      BY <1>3 DEF CacheWrite, WriteL1Hit, State
    <2>6. CallLeaves(s, r, k, a) /\ r.mem = m
      <3> HIDE DEF new, m, r, k
      <3> QED
        BY <1>1, <1>2, <2>3, <2>4, <2>5, CallShape
    <2> QED
      BY <2>6, MemPutFootprint DEF Reaches
  <1>4. CASE ~Hit(set, TagOf1(a))
    <2> DEFINE m == MemPut(s.mem, a, [MemLine(s.mem, a) EXCEPT ![a.word] = data])
               way == VictimWay(set)
               e == EntryInit(m, a, TagOf1(a), g)
               ins == Insert(set, way, e)
               old == VictimOf1(set[way])
    <2>1. m \in Memory
      <3>1. [MemLine(s.mem, a) EXCEPT ![a.word] = data] \in Line
        BY <1>1, <1>2, MemLineInLine DEF Line
      <3> QED
        BY <1>2, <3>1, MemPutInMemory
    <2>2. way \in Way1 /\ e \in Entry1
      BY <1>2, <2>1, VictimWayFacts, EntryInitInEntry1
    <2>3. AgeIncrease(ins, L1Ways, way) \in Set1 /\ AgeUpdate(ins, way) \in Set1
      BY <1>2, <2>2, InsertFacts
    <2>4. CASE HasPlace(set)
      <3> DEFINE new == AgeIncrease(ins, L1Ways, way)
      <3>1. r = [l1 |-> [s.l1 EXCEPT ![k][i] = new], l2 |-> s.l2, mem |-> m, word |-> s.word]
        BY <1>4, <2>4, NoL2Hit DEF CacheWrite, WriteMiss, State
      <3>2. CallLeaves(s, r, k, a) /\ r.mem = m
        BY <1>1, <1>2, <2>1, <2>3, <3>1, CallShape
      <3> QED
        BY <3>2, MemPutFootprint DEF Reaches
    <2>5. CASE ~HasPlace(set)
      <3> DEFINE new == AgeUpdate(ins, way)
                 new2 == PutVictim(s.l2[Index2(a)], old)
                 c2 == [s.l2 EXCEPT ![Index2(a)] = new2]
      <3>1. old \in Entry2 /\ old.v = INVALID
        <4>1. set[way] \in Entry1
          BY <1>2, <2>2 DEF Set1
        <4>2. set[way].tag \in Tag1 /\ set[way].line \in Line
          BY <4>1 DEF Entry1
        <4> QED
          BY <4>2, VictimTag, WaysFacts DEF VictimOf1, Entry2
      <3>2. new2 \in Set2 /\ \A w \in Way2 : new2[w].v = INVALID
        <4>1. s.l2[Index2(a)] \in Set2 /\ \A w \in Way2 : s.l2[Index2(a)][w].v = INVALID
          BY <1>1, <1>2 DEF Caches2, L2Empty
        <4> QED
          BY <3>1, <4>1, PutVictimFacts
      <3>3. c2 \in Caches2 /\ L2Empty(c2)
        BY <1>1, <1>2, <3>2 DEF Caches2, L2Empty
      <3>4. r = [l1 |-> [s.l1 EXCEPT ![k][i] = new], l2 |-> c2, mem |-> m, word |-> s.word]
        BY <1>4, <2>5, NoL2Hit DEF CacheWrite, WriteMiss, State
      <3>5. CallLeaves(s, r, k, a) /\ r.mem = m
        BY <1>1, <1>2, <2>1, <2>3, <3>3, <3>4, CallShape
      <3> QED
        BY <3>5, MemPutFootprint DEF Reaches
    <2> QED
      BY <2>4, <2>5
  <1> QED
    BY <1>3, <1>4

\* The byte a byte write or's in leaves a word a word.
LEMMA OrByteInWord ==
  ASSUME NEW word \in Word, NEW a, InMemory(a), NEW data \in Byte
  PROVE  OrByte(word, a, data) \in Word
  <1>1. a.byte \in ByteIdx
    BY DEF InMemory, Addr
  <1> QED
    BY <1>1 DEF OrByte, Word, Byte

\* cache_write_byte is the two one after the other.
LEMMA WriteByteFacts ==
  ASSUME NEW s \in State, L2Empty(s.l2), NEW a, InMemory(a),
         NEW data \in Byte, NEW g1 \in Entry1, NEW g2 \in Entry1
  PROVE  /\ CallLeaves(s, CacheWriteByte(s, a, data, g1, g2), "L1_DCACHE", a)
         /\ Reaches(s, CacheWriteByte(s, a, data, g1, g2), a)
  <1> DEFINE r == CacheRead(s, "L1_DCACHE", a, g1)
             word == OrByte(r.word, a, data)
             t == CacheWrite(r, a, word, g2)
  <1>1. CallLeaves(s, r, "L1_DCACHE", a) /\ r.mem = s.mem
    BY ReadFacts DEF L1Kinds
  <1>2. word \in Word
    BY <1>1, OrByteInWord DEF CallLeaves, State
  <1>3. CallLeaves(r, t, "L1_DCACHE", a) /\ Reaches(r, t, a)
    BY <1>1, <1>2, WriteFacts DEF CallLeaves
  <1>4. CacheWriteByte(s, a, data, g1, g2) = t
    BY DEF CacheWriteByte
  <1> HIDE DEF t, r
  <1> QED
    BY <1>1, <1>3, <1>4 DEF CallLeaves, Reaches

(***************************************************************************)
(* The calls that run out of memory.  With L2 dead a read then changes     *)
(* nothing, and a write at most the ages of the set it hit.                *)
(***************************************************************************)
LEMMA ReadFailedFacts ==
  ASSUME NEW s \in State, L2Empty(s.l2), NEW k, NEW a, InMemory(a)
  PROVE  ReadFailed(s, k, a) = {s}
  BY NoL2Hit DEF ReadFailed

LEMMA WriteFailedFacts ==
  ASSUME NEW s \in State, L2Empty(s.l2), NEW a, InMemory(a),
         NEW data, NEW r \in WriteFailed(s, a, data)
  PROVE  CallLeaves(s, r, "L1_DCACHE", a) /\ r.mem = s.mem
  <1> DEFINE k == "L1_DCACHE"
             i == Index1(a)
             set == s.l1[k][i]
             way == HitWay(set, TagOf1(a))
             new == AgeUpdate(set, way)
  <1>1. i \in Line1 /\ k \in L1Kinds
    BY IndexFacts DEF InMemory, Addr, L1Kinds
  <1>2. set \in Set1 /\ s.l2 \in Caches2 /\ s.mem \in Memory /\ s.word \in Word
    BY <1>1 DEF State, Caches1
  <1>3. CASE r = s
    BY <1>3 DEF CallLeaves
  <1>4. CASE r # s
    <2>1. Hit(set, TagOf1(a)) /\ r = [s EXCEPT !.l1[k][i] = new]
      BY <1>4, NoL2Hit DEF WriteFailed
    <2>2. new \in Set1
      <3>1. way \in Way1
        BY <1>2, <2>1, HitWayFacts DEF Set1
      <3> QED
        BY <1>2, <3>1, Ages1
    <2>3. r = [l1 |-> [s.l1 EXCEPT ![k][i] = new], l2 |-> s.l2, mem |-> s.mem, word |-> s.word]
      BY <2>1 DEF State
    <2> HIDE DEF new, k
    <2> QED
      BY <1>1, <1>2, <2>2, <2>3, CallShape DEF k
  <1> QED
    BY <1>3, <1>4

LEMMA WriteByteFailedFacts ==
  ASSUME NEW s \in State, L2Empty(s.l2), NEW a, InMemory(a),
         NEW data, NEW g \in Entry1, NEW t \in WriteByteFailed(s, a, data, g)
  PROVE  CallLeaves(s, t, "L1_DCACHE", a) /\ t.mem = s.mem
  <1> DEFINE r == CacheRead(s, "L1_DCACHE", a, g)
             word == OrByte(r.word, a, data)
  <1>1. CallLeaves(s, r, "L1_DCACHE", a) /\ r.mem = s.mem
    BY ReadFacts DEF L1Kinds
  <1>2. t \in ReadFailed(s, "L1_DCACHE", a) \/ t \in WriteFailed(r, a, word)
    BY DEF WriteByteFailed
  <1> HIDE DEF r, word
  <1>3. CASE t \in ReadFailed(s, "L1_DCACHE", a)
    BY <1>3, ReadFailedFacts DEF CallLeaves
  <1>4. CASE t \in WriteFailed(r, a, word)
    <2>1. CallLeaves(r, t, "L1_DCACHE", a) /\ t.mem = r.mem
      BY <1>1, <1>4, WriteFailedFacts DEF CallLeaves
    <2> QED
      BY <1>1, <2>1 DEF CallLeaves
  <1> QED
    BY <1>2, <1>3, <1>4

\* And a write that goes on without its new entry stays within its reach.
LEMMA WriteUnallocatedFacts ==
  ASSUME NEW s \in State, L2Empty(s.l2), NEW a, InMemory(a), NEW data \in Word
  PROVE  /\ CallLeaves(s, WriteUnallocated(s, a, data), "L1_DCACHE", a)
         /\ Reaches(s, WriteUnallocated(s, a, data), a)
  <1> DEFINE k == "L1_DCACHE"
             i == Index1(a)
             set == s.l1[k][i]
             m == MemPut(s.mem, a, [MemLine(s.mem, a) EXCEPT ![a.word] = data])
             way == VictimWay(set)
             old == VictimOf1(set[way])
             r == WriteUnallocated(s, a, data)
  <1>1. i \in Line1 /\ Index2(a) \in Line2 /\ a.word \in WordIdx /\ k \in L1Kinds
    BY IndexFacts DEF InMemory, Addr, L1Kinds
  <1>2. set \in Set1 /\ s.l2 \in Caches2 /\ s.mem \in Memory /\ s.word \in Word
    BY <1>1 DEF State, Caches1
  <1>3. m \in Memory
    <2>1. [MemLine(s.mem, a) EXCEPT ![a.word] = data] \in Line
      BY <1>1, <1>2, MemLineInLine DEF Line
    <2> QED
      BY <1>2, <2>1, MemPutInMemory
  <1>4. way \in Way1
    BY <1>2, VictimWayFacts
  <1>5. AgeIncrease(set, L1Ways, way) \in Set1 /\ AgeUpdate(set, way) \in Set1
    BY <1>2, <1>4, Ages1
  <1>6. CASE HasPlace(set)
    <2> DEFINE new == AgeIncrease(set, L1Ways, way)
    <2>1. r = [l1 |-> [s.l1 EXCEPT ![k][i] = new], l2 |-> s.l2, mem |-> m, word |-> s.word]
      BY <1>6 DEF WriteUnallocated, State
    <2>2. CallLeaves(s, r, k, a) /\ r.mem = m
      BY <1>1, <1>2, <1>3, <1>5, <2>1, CallShape
    <2> QED
      BY <2>2, MemPutFootprint DEF Reaches
  <1>7. CASE ~HasPlace(set)
    <2> DEFINE new == AgeUpdate(set, way)
               new2 == PutVictim(s.l2[Index2(a)], old)
               c2 == [s.l2 EXCEPT ![Index2(a)] = new2]
    <2>1. old \in Entry2 /\ old.v = INVALID
      <3>1. set[way].tag \in Tag1 /\ set[way].line \in Line
        BY <1>2, <1>4 DEF Set1, Entry1
      <3> QED
        BY <3>1, VictimTag, WaysFacts DEF VictimOf1, Entry2
    <2>2. new2 \in Set2 /\ \A w \in Way2 : new2[w].v = INVALID
      <3>1. s.l2[Index2(a)] \in Set2 /\ \A w \in Way2 : s.l2[Index2(a)][w].v = INVALID
        BY <1>1, <1>2 DEF Caches2, L2Empty
      <3> QED
        BY <2>1, <3>1, PutVictimFacts
    <2>3. c2 \in Caches2 /\ L2Empty(c2)
      BY <1>1, <1>2, <2>2 DEF Caches2, L2Empty
    <2>4. r = [l1 |-> [s.l1 EXCEPT ![k][i] = new], l2 |-> c2, mem |-> m, word |-> s.word]
      BY <1>7 DEF WriteUnallocated, State
    <2>5. CallLeaves(s, r, k, a) /\ r.mem = m
      BY <1>1, <1>2, <1>3, <1>5, <2>3, <2>4, CallShape
    <2> QED
      BY <2>5, MemPutFootprint DEF Reaches
  <1> QED
    BY <1>6, <1>7

-----------------------------------------------------------------------------
(* The invariant, and the theorems for calls at any address. *)

IInv == TypeOK /\ L2Empty(l2)

\* What one step may change, besides keeping the invariant.
StepLeaves ==
  /\ \A k \in Block, w \in WordIdx, b \in ByteIdx :
       mem'[k][w][b] # mem[k][w][b] =>
         ret'.op = "WRITE" /\ [blk |-> k, word |-> w, byte |-> b] \in Reach(ret'.addr)
  /\ ret'.op \in {"READ", "WRITE", "FAILED"} =>
       \A k \in L1Kinds, i \in Line1 :
         k # ret'.cache \/ i # Index1(ret'.addr) => l1'[k][i] = l1[k][i]

LEMMA InitIInv == Init => IInv
  <1> SUFFICES ASSUME Init PROVE IInv
    OBVIOUS
  <1>1. ZeroEntry \in Entry1 /\ ZeroEntry \in Entry2 /\ ZeroEntry.v = INVALID
    <2>1. 0 \in Tag1 /\ 0 \in Tag2 /\ 0 \in Way1 /\ 0 \in Way2
      BY GeometryAssumption DEF Tag1, Tag2, Way1, Way2
    <2>2. ZeroLine \in Line
      BY DEF ZeroLine, Line, Word, Byte
    <2> QED
      BY <2>1, <2>2 DEF ZeroEntry, Entry1, Entry2
  <1>2. mem \in Memory
    BY CallsAssumption DEF Init
  <1> QED
    BY <1>1, <1>2 DEF Init, IInv, TypeOK, L2Empty

LEMMA BeforeState ==
  ASSUME IInv, NEW word \in GarbageWords
  PROVE  Before(word) \in State /\ L2Empty(Before(word).l2)
  BY CallsAssumption DEF IInv, TypeOK, Before, State, Caches1, Caches2, Set1, Set2

\* A call whose result keeps to CallLeaves and Reaches is a step that does.
LEMMA CallStep ==
  ASSUME IInv, NEW word, NEW r, NEW k \in L1Kinds, NEW a,
         CallLeaves(Before(word), r, k, a), After(r),
         ret'.op \in {"READ", "WRITE", "FAILED"}, ret'.cache = k, ret'.addr = a,
         r.mem = mem \/ (ret'.op = "WRITE" /\ Reaches(Before(word), r, a))
  PROVE  IInv' /\ StepLeaves
  <1>1. IInv'
    BY DEF CallLeaves, After, State, Caches1, Caches2, Set1, Set2, IInv, TypeOK, L2Empty
  <1>2. mem' = r.mem /\ l1' = r.l1
    BY DEF After
  <1>3. \A j \in L1Kinds, i \in Line1 : j # k \/ i # Index1(a) => l1'[j][i] = l1[j][i]
    BY <1>2 DEF CallLeaves, Before
  <1>4. \A b \in Block, w \in WordIdx, c \in ByteIdx :
          mem'[b][w][c] # mem[b][w][c] =>
            ret'.op = "WRITE" /\ [blk |-> b, word |-> w, byte |-> c] \in Reach(a)
    BY <1>2 DEF Reaches, Before
  <1> QED
    BY <1>1, <1>3, <1>4 DEF StepLeaves

LEMMA ReadStep ==
  ASSUME IInv, NEW c \in Reads, Read(c)
  PROVE  IInv' /\ StepLeaves
  <1> DEFINE k == CacheOf(c.type)
  <1>1. PICK g \in Garbage, word \in GarbageWords :
          LET s == CacheRead(Before(word), k, c.addr, g)
          IN /\ After(s)
             /\ ret' = [op |-> "READ", cache |-> k, addr |-> c.addr,
                        data |-> [b \in Selected(c.size, c.addr) |-> s.word[b]]]
    BY DEF Read
  <1> DEFINE r == CacheRead(Before(word), k, c.addr, g)
  <1>2. k \in L1Kinds /\ InMemory(c.addr) /\ g \in Entry1
    BY CallsAssumption DEF CacheOf, L1Kinds
  <1>3. CallLeaves(Before(word), r, k, c.addr) /\ r.mem = mem
    <2>1. Before(word).mem = mem
      BY DEF Before
    <2> QED
      BY <1>2, <2>1, BeforeState, ReadFacts
  <1>4. After(r) /\ ret'.op = "READ" /\ ret'.cache = k /\ ret'.addr = c.addr
    BY <1>1
  <1> HIDE DEF r, k
  <1> QED
    BY <1>2, <1>3, <1>4, CallStep

LEMMA WriteStep ==
  ASSUME IInv, NEW c \in Writes, Write(c)
  PROVE  IInv' /\ StepLeaves
  <1>1. PICK g \in Garbage, word \in GarbageWords :
          /\ After(CacheWrite(Before(word), c.addr, c.data, g))
          /\ ret' = [op |-> "WRITE", cache |-> "L1_DCACHE", addr |-> c.addr, data |-> c.data]
    BY DEF Write, Wrote
  <1> DEFINE r == CacheWrite(Before(word), c.addr, c.data, g)
  <1>2. InMemory(c.addr) /\ c.data \in Word /\ g \in Entry1 /\ "L1_DCACHE" \in L1Kinds
    BY CallsAssumption DEF L1Kinds
  <1>3. CallLeaves(Before(word), r, "L1_DCACHE", c.addr) /\ Reaches(Before(word), r, c.addr)
    BY <1>2, BeforeState, WriteFacts
  <1>4. After(r) /\ ret'.op = "WRITE" /\ ret'.cache = "L1_DCACHE" /\ ret'.addr = c.addr
    BY <1>1
  <1> HIDE DEF r
  <1> QED
    BY <1>2, <1>3, <1>4, CallStep

LEMMA WriteByteStep ==
  ASSUME IInv, NEW c \in ByteWrites, WriteByte(c)
  PROVE  IInv' /\ StepLeaves
  <1>1. PICK g1 \in Garbage, g2 \in Garbage, word \in GarbageWords :
          /\ After(CacheWriteByte(Before(word), c.addr, c.data, g1, g2))
          /\ ret' = [op |-> "WRITE", cache |-> "L1_DCACHE", addr |-> c.addr,
                     data |-> [b \in {c.addr.byte} |-> c.data]]
    BY DEF WriteByte, Wrote
  <1> DEFINE r == CacheWriteByte(Before(word), c.addr, c.data, g1, g2)
  <1>2. InMemory(c.addr) /\ c.data \in Byte /\ g1 \in Entry1 /\ g2 \in Entry1
        /\ "L1_DCACHE" \in L1Kinds
    BY CallsAssumption DEF L1Kinds
  <1>3. CallLeaves(Before(word), r, "L1_DCACHE", c.addr) /\ Reaches(Before(word), r, c.addr)
    BY <1>2, BeforeState, WriteByteFacts
  <1>4. After(r) /\ ret'.op = "WRITE" /\ ret'.cache = "L1_DCACHE" /\ ret'.addr = c.addr
    BY <1>1
  <1> HIDE DEF r
  <1> QED
    BY <1>2, <1>3, <1>4, CallStep

\* The calls an allocation of which fails.
LEMMA FailStep ==
  ASSUME IInv, NEW word \in GarbageWords, NEW k \in L1Kinds, NEW a, NEW r,
         CallLeaves(Before(word), r, k, a), r.mem = Before(word).mem, After(r), Fails(k, a)
  PROVE  IInv' /\ StepLeaves
  BY CallStep DEF Fails, Before

LEMMA ReadFailsStep ==
  ASSUME IInv, NEW c \in Reads, ReadFails(c)
  PROVE  IInv' /\ StepLeaves
  <1> DEFINE k == CacheOf(c.type)
  <1>1. PICK word \in GarbageWords : /\ \E s \in ReadFailed(Before(word), k, c.addr) : After(s)
                                     /\ Fails(k, c.addr)
    BY DEF ReadFails
  <1>2. k \in L1Kinds /\ InMemory(c.addr)
    BY CallsAssumption DEF CacheOf, L1Kinds
  <1>3. Before(word) \in State /\ L2Empty(Before(word).l2)
    BY BeforeState
  <1>4. After(Before(word))
    BY <1>1, <1>2, <1>3, ReadFailedFacts
  <1>5. CallLeaves(Before(word), Before(word), k, c.addr)
    BY <1>3 DEF CallLeaves
  <1> HIDE DEF k
  <1> QED
    BY <1>1, <1>2, <1>4, <1>5, FailStep

LEMMA WriteFailsStep ==
  ASSUME IInv, NEW c \in Writes, WriteFails(c)
  PROVE  IInv' /\ StepLeaves
  <1>1. PICK word \in GarbageWords :
          /\ \E s \in WriteFailed(Before(word), c.addr, c.data) : After(s)
          /\ Fails("L1_DCACHE", c.addr)
    BY DEF WriteFails
  <1>2. InMemory(c.addr) /\ "L1_DCACHE" \in L1Kinds
    BY CallsAssumption DEF L1Kinds
  <1>3. Before(word) \in State /\ L2Empty(Before(word).l2)
    BY BeforeState
  <1>4. PICK s \in WriteFailed(Before(word), c.addr, c.data) : After(s)
    BY <1>1
  <1>5. CallLeaves(Before(word), s, "L1_DCACHE", c.addr) /\ s.mem = Before(word).mem
    BY <1>2, <1>3, WriteFailedFacts
  <1> QED
    BY <1>1, <1>2, <1>4, <1>5, FailStep

LEMMA WriteByteFailsStep ==
  ASSUME IInv, NEW c \in ByteWrites, WriteByteFails(c)
  PROVE  IInv' /\ StepLeaves
  <1>1. PICK g \in Garbage, word \in GarbageWords :
          /\ \E s \in WriteByteFailed(Before(word), c.addr, c.data, g) : After(s)
          /\ Fails("L1_DCACHE", c.addr)
    BY DEF WriteByteFails
  <1>2. InMemory(c.addr) /\ "L1_DCACHE" \in L1Kinds /\ g \in Entry1
    BY CallsAssumption DEF L1Kinds
  <1>3. Before(word) \in State /\ L2Empty(Before(word).l2)
    BY BeforeState
  <1>4. PICK s \in WriteByteFailed(Before(word), c.addr, c.data, g) : After(s)
    BY <1>1
  <1>5. CallLeaves(Before(word), s, "L1_DCACHE", c.addr) /\ s.mem = Before(word).mem
    BY <1>2, <1>3, WriteByteFailedFacts
  <1> QED
    BY <1>1, <1>2, <1>4, <1>5, FailStep

LEMMA WriteUncachedStep ==
  ASSUME IInv, NEW c \in Writes, WriteUncached(c)
  PROVE  IInv' /\ StepLeaves
  <1>1. PICK word \in GarbageWords :
          /\ After(WriteUnallocated(Before(word), c.addr, c.data))
          /\ Wrote(c.addr, c.data)
    BY DEF WriteUncached
  <1> DEFINE r == WriteUnallocated(Before(word), c.addr, c.data)
  <1>2. InMemory(c.addr) /\ c.data \in Word /\ "L1_DCACHE" \in L1Kinds
    BY CallsAssumption DEF L1Kinds
  <1>3. CallLeaves(Before(word), r, "L1_DCACHE", c.addr) /\ Reaches(Before(word), r, c.addr)
    BY <1>2, BeforeState, WriteUnallocatedFacts
  <1>4. After(r) /\ ret'.op = "WRITE" /\ ret'.cache = "L1_DCACHE" /\ ret'.addr = c.addr
    BY <1>1 DEF Wrote
  <1> HIDE DEF r
  <1> QED
    BY <1>2, <1>3, <1>4, CallStep

LEMMA WriteByteUncachedStep ==
  ASSUME IInv, NEW c \in ByteWrites, WriteByteUncached(c)
  PROVE  IInv' /\ StepLeaves
  <1>1. PICK g \in Garbage, word \in GarbageWords :
          LET s == CacheRead(Before(word), "L1_DCACHE", c.addr, g)
          IN /\ After(WriteUnallocated(s, c.addr, OrByte(s.word, c.addr, c.data)))
             /\ Wrote(c.addr, [b \in {c.addr.byte} |-> c.data])
    BY DEF WriteByteUncached
  <1> DEFINE s == CacheRead(Before(word), "L1_DCACHE", c.addr, g)
             data == OrByte(s.word, c.addr, c.data)
             r == WriteUnallocated(s, c.addr, data)
  <1>2. InMemory(c.addr) /\ c.data \in Byte /\ g \in Entry1 /\ "L1_DCACHE" \in L1Kinds
    BY CallsAssumption DEF L1Kinds
  <1>3. CallLeaves(Before(word), s, "L1_DCACHE", c.addr) /\ s.mem = Before(word).mem
    BY <1>2, BeforeState, ReadFacts
  <1>4. After(r) /\ ret'.op = "WRITE" /\ ret'.cache = "L1_DCACHE" /\ ret'.addr = c.addr
    BY <1>1 DEF Wrote
  <1> HIDE DEF s
  <1>5. data \in Word
    BY <1>2, <1>3, OrByteInWord DEF CallLeaves, State
  <1>6. CallLeaves(s, r, "L1_DCACHE", c.addr) /\ Reaches(s, r, c.addr)
    <2> HIDE DEF data
    <2> QED
      BY <1>2, <1>3, <1>5, WriteUnallocatedFacts DEF CallLeaves
  <1> HIDE DEF r
  <1>7. CallLeaves(Before(word), r, "L1_DCACHE", c.addr) /\ Reaches(Before(word), r, c.addr)
    BY <1>3, <1>6 DEF CallLeaves, Reaches
  <1> QED
    BY <1>2, <1>4, <1>7, CallStep

\* A flush, its overrun included, leaves entries with their fields in range.
LEMMA FlushType ==
  ASSUME TypeOK, NEW k \in Flushes, Flush(k)
  PROVE  /\ TypeOK' /\ mem' = mem /\ ret'.op = "FLUSH"
         /\ L2Empty(l2) => L2Empty(l2)'
  <1>1. l1 \in Caches1 /\ l2 \in Caches2 /\ mem \in Memory
    BY DEF TypeOK, Caches1, Caches2, Set1, Set2
  <1>2. 0 \in Line1 /\ 0 \in Line2 /\ 0 \in Tag1 /\ 0 \in Tag2 /\ ZeroLine \in Line
    BY GeometryAssumption DEF Line1, Line2, Tag1, Tag2, ZeroLine, Line, Word, Byte
  <1>3. ASSUME NEW cache \in [Line1 -> Set1]
        PROVE  Flushed(cache) \in [Line1 -> Set1] /\ Overrun(cache) \in [Line1 -> Set1]
    <2>1. Invalidated(cache) \in [Line1 -> Set1]
      <3>1. \A i \in Line1, w \in Way1 : [cache[i][w] EXCEPT !.v = INVALID] \in Entry1
        BY DEF Set1, Entry1
      <3> QED
        BY <3>1 DEF Invalidated, Set1
    <2>2. [Invalidated(cache)[0][0] EXCEPT !.line = ZeroLine] \in Entry1
      <3>1. Invalidated(cache)[0][0] \in Entry1
        BY <1>2, <2>1, WaysFacts DEF Set1
      <3> QED
        BY <1>2, <3>1 DEF Entry1
    <2>3. [cache[0][0] EXCEPT !.tag = 0, !.age = 0] \in Entry1
      <3>1. cache[0][0] \in Entry1
        BY <1>2, WaysFacts DEF Set1
      <3> QED
        BY <1>2, <3>1, WaysFacts DEF Entry1, Way1
    <2>4. Flushed(cache) \in [Line1 -> Set1]
      BY <1>2, <2>1, <2>2, WaysFacts DEF Flushed, Set1
    <2>5. Overrun(cache) \in [Line1 -> Set1]
      BY <1>2, <2>3, WaysFacts DEF Overrun, Set1
    <2> QED
      BY <2>4, <2>5
  <1>4. /\ Flushed(l2) \in Caches2 /\ Overrun(l2) \in Caches2
        /\ \A i \in Line2, w \in Way2 : /\ Flushed(l2)[i][w].v = INVALID
                                        /\ Overrun(l2)[i][w].v = l2[i][w].v
    <2>1. Invalidated(l2) \in Caches2 /\ L2Empty(Invalidated(l2))
      <3>1. \A i \in Line2, w \in Way2 : /\ [l2[i][w] EXCEPT !.v = INVALID] \in Entry2
                                         /\ [l2[i][w] EXCEPT !.v = INVALID].v = INVALID
        BY <1>1 DEF Caches2, Set2, Entry2
      <3> QED
        BY <1>1, <3>1 DEF Invalidated, Caches2, Set2, L2Empty
    <2>2. [Invalidated(l2)[0][0] EXCEPT !.line = ZeroLine] \in Entry2
          /\ [Invalidated(l2)[0][0] EXCEPT !.line = ZeroLine].v = INVALID
      <3>1. Invalidated(l2)[0][0] \in Entry2 /\ Invalidated(l2)[0][0].v = INVALID
        BY <1>2, <2>1, WaysFacts DEF Caches2, Set2, L2Empty
      <3> QED
        BY <1>2, <3>1 DEF Entry2
    <2> DEFINE e == [l2[0][0] EXCEPT !.tag = 0, !.age = 0]
    <2>3. e \in Entry2 /\ e.v = l2[0][0].v
      <3>1. l2[0][0] \in Entry2
        BY <1>1, <1>2, WaysFacts DEF Caches2, Set2
      <3> QED
        BY <1>2, <3>1, WaysFacts DEF Entry2, Way2
    <2>4. Flushed(l2) \in Caches2 /\ \A i \in Line2, w \in Way2 : Flushed(l2)[i][w].v = INVALID
      BY <1>2, <2>1, <2>2, WaysFacts DEF Flushed, Caches2, Set2, L2Empty
    <2>5. Overrun(l2) = [l2 EXCEPT ![0] = [l2[0] EXCEPT ![0] = e]]
      BY <1>1, <1>2, WaysFacts DEF Overrun, Caches2, Set2
    <2> HIDE DEF e
    <2>6. Overrun(l2) \in Caches2 /\ \A i \in Line2, w \in Way2 : Overrun(l2)[i][w].v = l2[i][w].v
      BY <1>1, <1>2, <2>3, <2>5, WaysFacts DEF Caches2, Set2
    <2> QED
      BY <2>4, <2>6
  <1>5. l1' \in Caches1
    BY <1>1, <1>3 DEF Flush, Caches1
  <1>6. l2' \in Caches2 /\ (L2Empty(l2) => L2Empty(l2)')
    <2>1. k \in CacheKinds
      BY CallsAssumption
    <2> QED
      BY <1>1, <1>4, <2>1 DEF Flush, CacheKinds, L1Kinds, L2Empty
  <1>7. mem' = mem /\ ret'.op = "FLUSH"
    BY DEF Flush
  <1> QED
    BY <1>1, <1>5, <1>6, <1>7 DEF TypeOK, Caches1, Caches2, Set1, Set2

LEMMA FlushStep ==
  ASSUME IInv, NEW k \in Flushes, Flush(k)
  PROVE  IInv' /\ StepLeaves
  BY FlushType DEF IInv, StepLeaves

LEMMA NextStep ==
  ASSUME NoPreload, IInv, [Next]_vars
  PROVE  IInv' /\ (vars' = vars \/ StepLeaves)
  <1>1. CASE Next
    <2>1. \A p \in Preloads : FALSE
      BY DEF NoPreload
    <2> QED
      BY <1>1, <2>1, ReadStep, WriteStep, WriteByteStep, FlushStep, ReadFailsStep,
         WriteFailsStep, WriteByteFailsStep, WriteUncachedStep, WriteByteUncachedStep DEF Next
  <1>2. CASE vars' = vars
    BY <1>2 DEF vars, IInv, TypeOK, L2Empty
  <1> QED
    BY <1>1, <1>2

(***************************************************************************)
(* Every bit field of every entry stays in range, whatever the calls: the  *)
(* ages and tags cache_mng.c computes, the L1 tags it shifts into L2 tags, *)
(* and the lines it reads and writes at unaligned addresses.               *)
(***************************************************************************)
THEOREM TypeSafety == NoPreload => (Spec => []TypeOK)
  <1> SUFFICES ASSUME NoPreload PROVE Spec => []TypeOK
    OBVIOUS
  <1>1. IInv /\ [Next]_vars => IInv'
    BY NextStep
  <1>2. IInv => TypeOK
    BY DEF IInv
  <1> QED
    BY <1>1, <1>2, InitIInv, PTL DEF Spec

(***************************************************************************)
(* L2 never holds a valid entry, for any geometry, memory and sequence of  *)
(* calls: the second level of the hierarchy is dead, and with it the       *)
(* L2-hit branches of cache_read and cache_write.                          *)
(***************************************************************************)
THEOREM L2IsDead == NoPreload => (Spec => []L2NeverValid)
  <1> SUFFICES ASSUME NoPreload PROVE Spec => []L2NeverValid
    OBVIOUS
  <1>1. IInv /\ [Next]_vars => IInv'
    BY NextStep
  <1>2. IInv => L2NeverValid
    BY DEF IInv, L2Empty, L2NeverValid
  <1> QED
    BY <1>1, <1>2, InitIInv, PTL DEF Spec

(***************************************************************************)
(* Only writes change memory, and only the line's length of bytes that     *)
(* starts at their address, aligned or not.                                *)
(***************************************************************************)
THEOREM Footprint == NoPreload => (Spec => MemoryFootprint)
  <1> SUFFICES ASSUME NoPreload PROVE Spec => MemoryFootprint
    OBVIOUS
  <1> DEFINE A == \A k \in Block, w \in WordIdx, b \in ByteIdx :
                    mem'[k][w][b] # mem[k][w][b] =>
                      ret'.op = "WRITE" /\ [blk |-> k, word |-> w, byte |-> b] \in Reach(ret'.addr)
  <1>1. IInv /\ [Next]_vars => IInv'
    BY NextStep
  <1>2. IInv /\ [Next]_vars => [A]_vars
    BY NextStep DEF StepLeaves
  <1> QED
    BY <1>1, <1>2, InitIInv, PTL DEF Spec, MemoryFootprint

(***************************************************************************)
(* A read or a write, failing ones included, disturbs no other set and not *)
(* the other L1.                                                           *)
(***************************************************************************)
THEOREM Isolation == NoPreload => (Spec => OtherSetsUntouched)
  <1> SUFFICES ASSUME NoPreload PROVE Spec => OtherSetsUntouched
    OBVIOUS
  <1> DEFINE A == ret'.op \in {"READ", "WRITE", "FAILED"} =>
                    \A k \in L1Kinds, i \in Line1 :
                      k # ret'.cache \/ i # Index1(ret'.addr) => l1'[k][i] = l1[k][i]
  <1>1. IInv /\ [Next]_vars => IInv'
    BY NextStep
  <1>2. IInv /\ [Next]_vars => [A]_vars
    BY NextStep DEF StepLeaves
  <1> QED
    BY <1>1, <1>2, InitIInv, PTL DEF Spec, OtherSetsUntouched

-----------------------------------------------------------------------------
(***************************************************************************)
(* With entries that callers insert in L2, the L2-hit branches run: they   *)
(* read and write through slots, and in the type of the other cache.  The  *)
(* fields of an L1 entry fit those of L2, and the other way round, because *)
(* L2 has twice the ways: its ages have one bit more, the lowest of a tag  *)
(* of L1.                                                                  *)
(***************************************************************************)
TwiceTheWays == L2Ways = 2 * L1Ways

LEMMA InitWord ==
  ASSUME TypeOK, NEW word \in GarbageWords
  PROVE  Before(word) \in State
  BY CallsAssumption DEF TypeOK, Before, State, Caches1, Caches2, Set1, Set2

LEMMA PutVictimType ==
  ASSUME NEW set \in Set2, NEW e \in Entry2
  PROVE  PutVictim(set, e) \in Set2
  <1>1. DOMAIN set = 0 .. (L2Ways - 1) /\ \A w \in 0 .. (L2Ways - 1) : set[w].age \in 0 .. (L2Ways - 1)
    BY WaysFacts DEF Set2, Entry2
  <1>2. ApplyLru(set) \in Way2
    <2>1. L2Ways - 1 \in Nat
      BY WaysFacts
    <2> QED
      BY <1>1, <2>1, ApplyLruFacts, WaysFacts
  <1>3. HasPlace(set) => FindPlace(set) \in Way2
    BY <1>1, FindPlaceFacts, WaysFacts
  <1>4. ASSUME NEW way \in Way2
        PROVE  /\ AgeUpdate(Insert(set, way, e), way) \in Set2
               /\ AgeIncrease(Insert(set, way, e), L2Ways, way) \in Set2
    <2>1. Insert(set, way, e) \in Set2
      BY DEF Insert, Set2
    <2> QED
      BY <2>1, Ages2
  <1> QED
    BY <1>2, <1>3, <1>4 DEF PutVictim

LEMMA Cell ==
  ASSUME NEW m \in Nat, NEW p \in Nat, NEW q \in Nat \ {0}, m < p * q
  PROVE  m \div q \in 0 .. (p - 1) /\ m % q \in 0 .. (q - 1)
  OBVIOUS

\* Every slot is a way of a line of the cache it lies in.
LEMMA SlotFacts ==
  ASSUME NEW n \in Slots
  PROVE  \/ Kind(n) = "L2_CACHE" /\ LineOf(n) \in Line2 /\ WayOf(n) \in Way2
         \/ Kind(n) \in L1Kinds /\ LineOf(n) \in Line1 /\ WayOf(n) \in Way1
  <1>1. /\ L1Lines \in Nat /\ L2Lines \in Nat /\ L1Ways \in Nat \ {0} /\ L2Ways \in Nat \ {0}
        /\ Size1 \in Nat /\ L2Lines * L2Ways \in Nat
    BY GeometryAssumption, WaysFacts DEF Size1
  <1>2. n \in Nat /\ n < 2 * Size1 + L2Lines * L2Ways
    BY <1>1 DEF Slots
  <1>3. CASE n < Size1
    <2>1. Kind(n) = "L1_ICACHE" /\ LineOf(n) = n \div L1Ways /\ WayOf(n) = n % L1Ways
      BY <1>1, <1>2, <1>3 DEF Kind, LineOf, WayOf, Base
    <2> QED
      BY <1>1, <1>2, <1>3, <2>1, Cell DEF Size1, L1Kinds, Line1, Way1
  <1>4. CASE n >= Size1 /\ n < 2 * Size1
    <2> DEFINE m == n - Size1
    <2>1. m \in Nat /\ m < L1Lines * L1Ways
      BY <1>1, <1>2, <1>4 DEF Size1
    <2>2. Kind(n) = "L1_DCACHE" /\ LineOf(n) = m \div L1Ways /\ WayOf(n) = m % L1Ways
      BY <1>1, <1>2, <1>4 DEF Kind, LineOf, WayOf, Base
    <2> HIDE DEF m
    <2> QED
      BY <1>1, <2>1, <2>2, Cell DEF L1Kinds, Line1, Way1
  <1>5. CASE n >= 2 * Size1
    <2> DEFINE m == n - 2 * Size1
    <2>1. m \in Nat /\ m < L2Lines * L2Ways
      BY <1>1, <1>2, <1>5
    <2>2. Kind(n) = "L2_CACHE" /\ LineOf(n) = m \div L2Ways /\ WayOf(n) = m % L2Ways
      BY <1>1, <1>2, <1>5 DEF Kind, LineOf, WayOf, Base
    <2> HIDE DEF m
    <2> QED
      BY <1>1, <2>1, <2>2, Cell DEF Line2, Way2
  <1> QED
    BY <1>1, <1>2, <1>3, <1>4, <1>5

LEMMA AtFacts ==
  ASSUME NEW s \in State, NEW n \in Slots
  PROVE  IF Kind(n) = "L2_CACHE" THEN At(s, n) \in Entry2 ELSE At(s, n) \in Entry1
  BY SlotFacts DEF At, State, Caches1, Caches2, Set1, Set2, L1Kinds

LEMMA LineAtFacts ==
  ASSUME NEW s \in State, NEW n, NEW g \in Entry1
  PROVE  LineAt(s, n, g) \in Line
  BY AtFacts DEF LineAt, Entry1, Entry2

LEMMA AsL2Type ==
  ASSUME TwiceTheWays, NEW e \in Entry1
  PROVE  AsL2(e) \in Entry2
  <1>1. /\ e.age \in 0 .. (L1Ways - 1) /\ e.tag \in Nat /\ L1Ways \in Nat \ {0}
        /\ MaxBlock \div L2Lines \in Nat
    BY WaysFacts, GeometryAssumption DEF Entry1, Tag1
  <1>2. e.tag % 2 \in {0, 1} /\ e.tag \div 2 \in Nat
    BY <1>1
  <1>3. e.age + L1Ways * (e.tag % 2) \in Way2
    BY <1>1, <1>2, WaysFacts DEF TwiceTheWays
  <1>4. (e.tag \div 2) % ((MaxBlock \div L2Lines) + 1) \in Tag2
    <2> DEFINE t == MaxBlock \div L2Lines
    <2> HIDE DEF t
    <2>1. t \in Nat
      BY <1>1 DEF t
    <2> QED
      BY <1>2, <2>1 DEF Tag2, t
  <1> QED
    BY <1>3, <1>4 DEF AsL2, Entry1, Entry2

LEMMA VictimAtType ==
  ASSUME TwiceTheWays, NEW s \in State, NEW n, NEW g \in Entry1
  PROVE  VictimAt(s, n, g) \in Entry2
  <1>1. CASE n \notin Slots
    BY <1>1, AsL2Type DEF VictimAt
  <1>2. CASE n \in Slots /\ Kind(n) = "L2_CACHE"
    BY <1>2, AtFacts DEF VictimAt
  <1>3. CASE n \in Slots /\ Kind(n) # "L2_CACHE"
    <2>1. At(s, n) \in Entry1
      BY <1>3, AtFacts
    <2> QED
      BY <1>3, <2>1, AsL2Type DEF VictimAt
  <1> QED
    BY <1>1, <1>2, <1>3

LEMMA ClearValidType ==
  ASSUME NEW s \in State, NEW n
  PROVE  ClearValid(s, n) \in State /\ ClearValid(s, n).mem = s.mem
  <1>1. CASE n \notin Slots
    BY <1>1 DEF ClearValid
  <1>2. CASE n \in Slots /\ Kind(n) = "L2_CACHE"
    <2> DEFINE i == LineOf(n)
               w == WayOf(n)
               e == [s.l2[i][w] EXCEPT !.v = INVALID]
    <2>1. i \in Line2 /\ w \in Way2 /\ s.l2 \in Caches2
      BY <1>2, SlotFacts DEF State, L1Kinds
    <2>2. ClearValid(s, n) = [s EXCEPT !.l2[i][w] = e]
      BY <1>2 DEF ClearValid
    <2>3. e \in Entry2
      <3>1. s.l2[i][w] \in Entry2
        BY <2>1 DEF Caches2, Set2
      <3> QED
        BY <3>1 DEF Entry2
    <2> DEFINE c2 == [s.l2 EXCEPT ![i] = [s.l2[i] EXCEPT ![w] = e]]
    <2> HIDE DEF i, w, e
    <2>4. c2 \in Caches2
      BY <2>1, <2>3 DEF Caches2, Set2
    <2>5. ClearValid(s, n) = [s EXCEPT !.l2 = c2]
      BY <2>2
    <2> HIDE DEF c2
    <2> QED
      BY <2>4, <2>5 DEF State
  <1>3. CASE n \in Slots /\ Kind(n) # "L2_CACHE"
    <2> DEFINE k == Kind(n)
               i == LineOf(n)
               w == WayOf(n)
               e == [s.l1[k][i][w] EXCEPT !.v = INVALID]
    <2>1. k \in L1Kinds /\ i \in Line1 /\ w \in Way1 /\ s.l1 \in Caches1
      BY <1>3, SlotFacts DEF State, L1Kinds
    <2>2. ClearValid(s, n) = [s EXCEPT !.l1[k][i][w] = e]
      BY <1>3 DEF ClearValid
    <2>3. e \in Entry1
      <3>1. s.l1[k][i][w] \in Entry1
        BY <2>1 DEF Caches1, Set1
      <3> QED
        BY <3>1 DEF Entry1
    <2> DEFINE c1 == [s.l1 EXCEPT ![k] = [s.l1[k] EXCEPT ![i] = [s.l1[k][i] EXCEPT ![w] = e]]]
    <2> HIDE DEF k, i, w, e
    <2>4. c1 \in Caches1
      BY <2>1, <2>3 DEF Caches1, Set1
    <2>5. ClearValid(s, n) = [s EXCEPT !.l1 = c1]
      BY <2>2
    <2> HIDE DEF c1
    <2> QED
      BY <2>4, <2>5 DEF State
  <1> QED
    BY <1>1, <1>2, <1>3

\* A set of L2 entries seen as a set of L1: their ages fit, their tags need not.
View == [Way1 -> Entries(L1Ways, Nat, Line)]

LEMMA NewAgeAndTag ==
  ASSUME NEW e \in Entry2, NEW age \in 0 .. (L1Ways - 1), NEW tag \in Nat
  PROVE  [e EXCEPT !.age = age, !.tag = tag] \in Entries(L1Ways, Nat, Line)
  BY DEF Entry2, Entries

LEMMA AsL1Type ==
  ASSUME NEW e \in Entry2
  PROVE  AsL1(e) \in Entries(L1Ways, Nat, Line)
  <1>1. e.age \in Nat /\ e.tag \in Nat /\ L1Ways \in Nat \ {0}
    BY WaysFacts, GeometryAssumption DEF Entry2, Tag2
  <1>2. e.age % L1Ways \in 0 .. (L1Ways - 1) /\ 2 * e.tag + (e.age \div L1Ways) \in Nat
    BY <1>1
  <1> QED
    BY <1>2, NewAgeAndTag DEF AsL1

LEMMA ViewType ==
  ASSUME NEW s \in State, NEW i \in Line1
  PROVE  L2AsL1(s, i) \in View
  <1> SUFFICES ASSUME NEW w \in Way1 PROVE L2AsL1(s, i)[w] \in Entries(L1Ways, Nat, Line)
    BY DEF L2AsL1, View
  <1> DEFINE n == i * L1Ways + w
             e == s.l2[n \div L2Ways][n % L2Ways]
  <1>1. n \in Nat /\ n < L2Lines * L2Ways
    <2>1. i \in 0 .. (L1Lines - 1) /\ w \in 0 .. (L1Ways - 1)
      BY DEF Line1, Way1
    <2>2. L1Lines \in Nat /\ L1Ways \in Nat /\ L2Lines \in Nat /\ L2Ways \in Nat
          /\ L1Lines <= L2Lines /\ L1Ways <= L2Ways
      BY GeometryAssumption
    <2>3. i * L1Ways + w < L1Lines * L1Ways
      BY <2>1, <2>2
    <2>4. L1Lines * L1Ways <= L2Lines * L2Ways
      BY <2>2
    <2>5. i * L1Ways + w \in Nat
      BY <2>1, <2>2
    <2> QED
      BY <2>2, <2>3, <2>4, <2>5
  <1>2. e \in Entry2
    <2>1. n \div L2Ways \in Line2 /\ n % L2Ways \in Way2
      <3> HIDE DEF n
      <3> QED
        BY <1>1, Cell, GeometryAssumption, WaysFacts DEF Line2
    <2> HIDE DEF n
    <2> QED
      BY <2>1 DEF State, Caches2, Set2
  <1>3. L2AsL1(s, i)[w] = AsL1(e)
    BY DEF L2AsL1
  <1> HIDE DEF e
  <1> QED
    BY <1>2, <1>3, AsL1Type

\* Its ages, written back below the bit that is L2's alone, fit the ages of L2.
LEMMA SetL1AgesType ==
  ASSUME TwiceTheWays, NEW s \in State, NEW i \in Line1, NEW set \in View
  PROVE  SetL1Ages(s, i, set) \in State
  <1> DEFINE c2 == SetL1Ages(s, i, set).l2
  <1>1. SetL1Ages(s, i, set) = [s EXCEPT !.l2 = c2]
    BY DEF SetL1Ages, State
  <1>2. ASSUME NEW j \in Line2, NEW u \in Way2 PROVE c2[j][u] \in Entry2
    <2> DEFINE w == j * L2Ways + u - i * L1Ways
               e == s.l2[j][u]
               age == (e.age \div L1Ways) * L1Ways + set[w].age
    <2>1. e \in Entry2
      BY DEF State, Caches2, Set2
    <2>2. c2[j][u] = IF w \in Way1 THEN [e EXCEPT !.age = age] ELSE e
      BY DEF SetL1Ages, State
    <2>3. CASE w \in Way1
      <3>1. /\ set[w].age \in 0 .. (L1Ways - 1) /\ e.age \in 0 .. (2 * L1Ways - 1)
            /\ L1Ways \in Nat \ {0}
        BY <2>1, <2>3, WaysFacts DEF View, Entries, Entry2, TwiceTheWays
      <3>2. e.age \div L1Ways \in {0, 1}
        BY <3>1
      <3>3. age \in 0 .. (2 * L1Ways - 1)
        <4> HIDE DEF w, e
        <4> QED
          BY <3>1, <3>2
      <3>4. age \in Way2
        BY <3>3, WaysFacts DEF TwiceTheWays
      <3> HIDE DEF w, e, age
      <3> QED
        BY <2>1, <2>2, <2>3, <3>4 DEF Entry2
    <2> HIDE DEF w, e, age
    <2> QED
      BY <2>1, <2>2, <2>3
  <1>3. c2 = [j \in Line2 |-> [u \in Way2 |-> c2[j][u]]]
    BY DEF SetL1Ages, State
  <1> HIDE DEF c2
  <1>4. c2 \in Caches2
    BY <1>2, <1>3 DEF Caches2, Set2
  <1> QED
    BY <1>1, <1>4 DEF State

LEMMA StateSet1 ==
  ASSUME NEW s \in State, NEW k \in L1Kinds, NEW i \in Line1, NEW new \in Set1
  PROVE  [s EXCEPT !.l1[k][i] = new] \in State
  <1> DEFINE c1 == [s.l1 EXCEPT ![k] = [s.l1[k] EXCEPT ![i] = new]]
  <1>1. c1 \in Caches1
    BY DEF State, Caches1
  <1>2. [s EXCEPT !.l1[k][i] = new] = [s EXCEPT !.l1 = c1]
    OBVIOUS
  <1> HIDE DEF c1
  <1> QED
    BY <1>1, <1>2 DEF State

LEMMA StateSet2 ==
  ASSUME NEW s \in State, NEW i \in Line2, NEW new \in Set2
  PROVE  [s EXCEPT !.l2[i] = new] \in State
  <1> DEFINE c2 == [s.l2 EXCEPT ![i] = new]
  <1>1. c2 \in Caches2
    BY DEF State, Caches2
  <1>2. [s EXCEPT !.l2[i] = new] = [s EXCEPT !.l2 = c2]
    OBVIOUS
  <1> HIDE DEF c2
  <1> QED
    BY <1>1, <1>2 DEF State

LEMMA StateRest ==
  ASSUME NEW s \in State
  PROVE  /\ \A m \in Memory : [s EXCEPT !.mem = m] \in State
         /\ \A word \in Word : [s EXCEPT !.word = word] \in State
  BY DEF State

(***************************************************************************)
(* What any call leaves: a state with its fields in range, and memory      *)
(* changed within the reach of the address at most.                        *)
(***************************************************************************)
CallTyped(s, r, a) == r \in State /\ Reaches(s, r, a)

LEMMA ReadL2HitType ==
  ASSUME TwiceTheWays, NEW s \in State, NEW k \in L1Kinds, NEW a, InMemory(a),
         NEW g \in Entry1, Hit(s.l2[Index2(a)], TagOf2(a))
  PROVE  ReadL2Hit(s, k, a, g) \in State /\ ReadL2Hit(s, k, a, g).mem = s.mem
  <1> DEFINE i1 == Index1(a)
             i2 == Index2(a)
             way2 == HitWay(s.l2[i2], TagOf2(a))
             s1 == [s EXCEPT !.l2[i2] = AgeUpdate(@, way2)]
             new == [v |-> VALID, age |-> g.age, tag |-> TagOf1(a),
                     line |-> LineAt(s1, Base("L2_CACHE") + i2 * L2Lines + way2, g)]
             s2 == ClearValid(s1, Base(k) + i2 * L2Lines + way2)
             set == s2.l1[k][i1]
             way == ApplyLru(set)
             place == FindPlace(set)
             old == VictimAt(s2, Base(k) + i1 * L1Lines + way, g)
             free1 == AgeIncrease(Insert(set, place, new), L1Ways, place)
             full1 == AgeUpdate(Insert(set, way, new), way)
             full2 == PutVictim(s2.l2[i2], old)
             r == ReadL2Hit(s, k, a, g)
  <1>1. /\ i1 \in Line1 /\ TagOf1(a) \in Tag1 /\ i2 \in Line2 /\ a.word \in WordIdx
    BY IndexFacts DEF InMemory, Addr
  <1>2. s1 \in State /\ s1.mem = s.mem
    <2>1. s.l2[i2] \in Set2
      BY <1>1 DEF State, Caches2
    <2>2. way2 \in Way2
      BY <2>1, HitWayFacts DEF Set2
    <2>3. AgeUpdate(s.l2[i2], way2) \in Set2
      BY <2>1, <2>2, Ages2
    <2>4. s1 = [s EXCEPT !.l2[i2] = AgeUpdate(s.l2[i2], way2)]
      OBVIOUS
    <2> QED
      BY <1>1, <2>3, <2>4, StateSet2
  <1>3. new \in Entry1
    <2>1. LineAt(s1, Base("L2_CACHE") + i2 * L2Lines + way2, g) \in Line
      BY <1>2, LineAtFacts
    <2> QED
      BY <1>1, <2>1 DEF Entry1
  <1>4. s2 \in State /\ s2.mem = s1.mem
    BY <1>2, ClearValidType
  <1>5. s2.l2[i2] \in Set2 /\ set \in Set1
    BY <1>1, <1>4 DEF State, Caches1, Caches2
  <1>6. r = IF HasPlace(set) THEN [s2 EXCEPT !.l1[k][i1] = free1]
            ELSE [s2 EXCEPT !.l1[k][i1] = full1, !.word = new.line[a.word], !.l2[i2] = full2]
    BY DEF ReadL2Hit
  <1>7. old \in Entry2
    BY <1>4, VictimAtType
  <1>8. new.line[a.word] \in Word
    BY <1>1, <1>3 DEF Entry1, Line
  <1> HIDE DEF i1, i2, way2, s1, new, s2, r, old
  <1>9. CASE HasPlace(set)
    <2>1. place \in Way1
      BY <1>5, <1>9, VictimWayFacts DEF VictimWay
    <2>2. free1 \in Set1
      BY <1>3, <1>5, <2>1, InsertFacts
    <2>3. r = [s2 EXCEPT !.l1[k][i1] = free1]
      BY <1>6, <1>9
    <2> HIDE DEF free1
    <2>4. r \in State /\ r.mem = s2.mem
      BY <1>1, <1>4, <2>2, <2>3, StateSet1
    <2> QED
      BY <1>2, <1>4, <2>4 DEF r
  <1>10. CASE ~HasPlace(set)
    <2>1. way \in Way1
      BY <1>5, <1>10, VictimWayFacts DEF VictimWay
    <2>2. full1 \in Set1
      BY <1>3, <1>5, <2>1, InsertFacts
    <2>3. full2 \in Set2
      BY <1>5, <1>7, PutVictimType
    <2> DEFINE r1 == [s2 EXCEPT !.l1[k][i1] = full1]
               r2 == [r1 EXCEPT !.word = new.line[a.word]]
    <2>4. r = [r2 EXCEPT !.l2[i2] = full2]
      BY <1>6, <1>10
    <2> HIDE DEF full1, full2, set, way
    <2>5. r1 \in State /\ r1.mem = s2.mem
      BY <1>1, <1>4, <2>2, StateSet1
    <2>6. r2 \in State /\ r2.mem = r1.mem
      <3> HIDE DEF r1
      <3> QED
        BY <1>8, <2>5, StateRest
    <2>7. r \in State /\ r.mem = r2.mem
      <3> HIDE DEF r2
      <3> QED
        BY <1>1, <2>3, <2>4, <2>6, StateSet2
    <2> QED
      BY <1>2, <1>4, <2>5, <2>6, <2>7 DEF r
  <1> QED
    BY <1>9, <1>10

LEMMA ReadL1HitType ==
  ASSUME NEW s \in State, NEW k \in L1Kinds, NEW a, InMemory(a),
         Hit(s.l1[k][Index1(a)], TagOf1(a))
  PROVE  ReadL1Hit(s, k, a) \in State /\ ReadL1Hit(s, k, a).mem = s.mem
  <1> DEFINE i == Index1(a)
             set == s.l1[k][i]
             way == HitWay(set, TagOf1(a))
             new == AgeUpdate(set, way)
             word == set[way].line[a.word]
             r1 == [s EXCEPT !.l1[k][i] = new]
  <1>1. i \in Line1 /\ a.word \in WordIdx
    BY IndexFacts DEF InMemory, Addr
  <1>2. set \in Set1
    BY <1>1 DEF State, Caches1
  <1>3. way \in Way1
    BY <1>2, HitWayFacts DEF Set1
  <1>4. new \in Set1 /\ word \in Word
    BY <1>1, <1>2, <1>3, Ages1 DEF Set1, Entry1, Line
  <1>5. ReadL1Hit(s, k, a) = [r1 EXCEPT !.word = word]
    BY DEF ReadL1Hit
  <1> HIDE DEF new, word
  <1>6. r1 \in State /\ r1.mem = s.mem
    BY <1>1, <1>4, StateSet1
  <1> HIDE DEF r1
  <1> QED
    BY <1>4, <1>5, <1>6, StateRest

LEMMA ReadMissType ==
  ASSUME NEW s \in State, NEW k \in L1Kinds, NEW a, InMemory(a), NEW g \in Entry1
  PROVE  ReadMiss(s, k, a, g) \in State /\ ReadMiss(s, k, a, g).mem = s.mem
  <1> DEFINE i == Index1(a)
             set == s.l1[k][i]
             way == VictimWay(set)
             e == EntryInit(s.mem, a, TagOf1(a), g)
             new == AgeUpdate(Insert(set, way, e), way)
             word == e.line[a.word]
             r1 == [s EXCEPT !.l1[k][i] = new]
  <1>1. i \in Line1 /\ a.word \in WordIdx /\ s.mem \in Memory
    BY IndexFacts DEF InMemory, Addr, State
  <1>2. set \in Set1
    BY <1>1 DEF State, Caches1
  <1>3. way \in Way1 /\ e \in Entry1
    BY <1>1, <1>2, VictimWayFacts, EntryInitInEntry1
  <1>4. new \in Set1 /\ word \in Word
    BY <1>1, <1>2, <1>3, InsertFacts DEF Entry1, Line
  <1>5. ReadMiss(s, k, a, g) = [r1 EXCEPT !.word = word]
    BY DEF ReadMiss
  <1> HIDE DEF new, word
  <1>6. r1 \in State /\ r1.mem = s.mem
    BY <1>1, <1>4, StateSet1
  <1> HIDE DEF r1
  <1> QED
    BY <1>4, <1>5, <1>6, StateRest

LEMMA ReadType ==
  ASSUME TwiceTheWays, NEW s \in State, NEW k \in L1Kinds, NEW a, InMemory(a), NEW g \in Entry1
  PROVE  CacheRead(s, k, a, g) \in State /\ CacheRead(s, k, a, g).mem = s.mem
  <1>1. CASE Hit(s.l1[k][Index1(a)], TagOf1(a))
    BY <1>1, ReadL1HitType DEF CacheRead
  <1>2. CASE ~Hit(s.l1[k][Index1(a)], TagOf1(a)) /\ Hit(s.l2[Index2(a)], TagOf2(a))
    BY <1>2, ReadL2HitType DEF CacheRead
  <1>3. CASE ~Hit(s.l1[k][Index1(a)], TagOf1(a)) /\ ~Hit(s.l2[Index2(a)], TagOf2(a))
    BY <1>3, ReadMissType DEF CacheRead
  <1> QED
    BY <1>1, <1>2, <1>3

\* A line put in memory at an address changes memory within its reach.
LEMMA PutReaches ==
  ASSUME NEW s \in State, NEW r, NEW a, NEW line, r.mem = MemPut(s.mem, a, line)
  PROVE  Reaches(s, r, a)
  BY MemPutFootprint DEF Reaches

LEMMA WriteL1HitType ==
  ASSUME NEW s \in State, NEW a, InMemory(a), NEW data \in Word,
         Hit(s.l1["L1_DCACHE"][Index1(a)], TagOf1(a))
  PROVE  CallTyped(s, WriteL1Hit(s, a, data), a)
  <1> DEFINE k == "L1_DCACHE"
             i == Index1(a)
             set == s.l1[k][i]
             way == HitWay(set, TagOf1(a))
             line == [set[way].line EXCEPT ![a.word] = data]
             new == [AgeUpdate(set, way) EXCEPT ![way].line = line]
             m == MemPut(s.mem, a, line)
             r1 == [s EXCEPT !.l1[k][i] = new]
             r == WriteL1Hit(s, a, data)
  <1>1. i \in Line1 /\ a.word \in WordIdx /\ s.mem \in Memory /\ k \in L1Kinds
    BY IndexFacts DEF InMemory, Addr, State, L1Kinds
  <1>2. set \in Set1
    BY <1>1 DEF State, Caches1
  <1>3. way \in Way1
    BY <1>2, HitWayFacts DEF Set1
  <1>4. line \in Line
    BY <1>1, <1>2, <1>3 DEF Set1, Entry1, Line
  <1>5. new \in Set1
    <2>1. AgeUpdate(set, way) \in Set1
      BY <1>2, <1>3, Ages1
    <2> QED
      BY <1>3, <1>4, <2>1 DEF Set1, Entry1
  <1>6. m \in Memory
    BY <1>1, <1>4, MemPutInMemory
  <1>7. r = [r1 EXCEPT !.mem = m]
    BY DEF WriteL1Hit
  <1>8. r1 \in State
    <2> HIDE DEF new, i, k
    <2> QED
      BY <1>1, <1>5, StateSet1
  <1>9. r \in State /\ r.mem = m
    <2> HIDE DEF r1, m, r
    <2> QED
      BY <1>6, <1>7, <1>8, StateRest DEF State
  <1> HIDE DEF line, r
  <1> QED
    BY <1>9, PutReaches DEF CallTyped, r

LEMMA WriteMissType ==
  ASSUME NEW s \in State, NEW a, InMemory(a), NEW data \in Word, NEW g \in Entry1
  PROVE  CallTyped(s, WriteMiss(s, a, data, g), a)
  <1> DEFINE k == "L1_DCACHE"
             i == Index1(a)
             i2 == Index2(a)
             set == s.l1[k][i]
             line == [MemLine(s.mem, a) EXCEPT ![a.word] = data]
             m == MemPut(s.mem, a, line)
             e == EntryInit(m, a, TagOf1(a), g)
             way == VictimWay(set)
             ins == Insert(set, way, e)
             free1 == AgeIncrease(ins, L1Ways, way)
             full1 == AgeUpdate(ins, way)
             full2 == PutVictim(s.l2[i2], VictimOf1(set[way]))
             r == WriteMiss(s, a, data, g)
             r1 == [s EXCEPT !.mem = m]
  <1>1. /\ i \in Line1 /\ i2 \in Line2 /\ a.word \in WordIdx /\ s.mem \in Memory /\ k \in L1Kinds
    BY IndexFacts DEF InMemory, Addr, State, L1Kinds
  <1>2. set \in Set1 /\ s.l2[i2] \in Set2
    BY <1>1 DEF State, Caches1, Caches2
  <1>3. line \in Line
    BY <1>1, MemLineInLine DEF Line
  <1>4. m \in Memory
    BY <1>1, <1>3, MemPutInMemory
  <1>5. way \in Way1 /\ e \in Entry1
    BY <1>2, <1>4, VictimWayFacts, EntryInitInEntry1
  <1>6. free1 \in Set1 /\ full1 \in Set1
    BY <1>2, <1>5, InsertFacts
  <1>7. full2 \in Set2
    <2>1. set[way] \in Entry1
      BY <1>2, <1>5 DEF Set1
    <2>2. set[way].tag \in Tag1 /\ set[way].line \in Line
      BY <2>1 DEF Entry1
    <2>3. VictimOf1(set[way]) \in Entry2
      BY <2>2, VictimTag, WaysFacts DEF VictimOf1, Entry2
    <2> QED
      BY <1>2, <2>3, PutVictimType
  <1>8. r = IF HasPlace(set) THEN [s EXCEPT !.mem = m, !.l1[k][i] = free1]
            ELSE [s EXCEPT !.mem = m, !.l1[k][i] = full1, !.l2[i2] = full2]
    BY DEF WriteMiss
  <1>9. r1 \in State /\ r1.mem = m
    <2> HIDE DEF m
    <2> QED
      BY <1>4, StateRest DEF State
  <1> DEFINE r2 == [r1 EXCEPT !.l1[k][i] = IF HasPlace(set) THEN free1 ELSE full1]
  <1>10. r = IF HasPlace(set) THEN r2 ELSE [r2 EXCEPT !.l2[i2] = full2]
    <2> HIDE DEF m, free1, full1, full2, set, i, i2, k, r
    <2> QED
      BY <1>8
  <1>11. r2 \in State /\ r2.mem = m
    <2> HIDE DEF r1, free1, full1, set, i, k, m
    <2> QED
      BY <1>1, <1>6, <1>9, StateSet1
  <1>12. r \in State /\ r.mem = m
    <2> HIDE DEF r2, full2, i2, set, m, r
    <2> QED
      BY <1>1, <1>7, <1>10, <1>11, StateSet2
  <1> HIDE DEF line, r
  <1> QED
    BY <1>12, PutReaches DEF CallTyped, r

\* What cache_write has done to L2 when its lookup there hits.
LEMMA WriteL2LineType ==
  ASSUME TwiceTheWays, NEW s \in State, NEW a, InMemory(a), NEW data \in Word,
         Hit(L2AsL1(s, Index1(a)), TagOf1(a))
  PROVE  /\ WriteL2Ages(s, a) \in State /\ WriteL2Ages(s, a).mem = s.mem
         /\ WriteL2Line(s, a, data) \in State /\ WriteL2Line(s, a, data).mem = s.mem
  <1> DEFINE i == Index1(a)
             view == L2AsL1(s, i)
             way2 == HitWay(view, TagOf1(a))
             line == [view[way2].line EXCEPT ![a.word] = data]
             s1 == WriteL2Ages(s, a)
             put == [s1.l2[i] EXCEPT ![way2].line = line]
             aged == AgeUpdate(put, way2)
  <1>1. i \in Line1 /\ i \in Line2 /\ a.word \in WordIdx /\ Way1 \subseteq Way2
    <2>1. i \in Line1 /\ a.word \in WordIdx
      BY IndexFacts DEF InMemory, Addr
    <2>2. Line1 \subseteq Line2 /\ Way1 \subseteq Way2
      BY GeometryAssumption DEF Line1, Line2, Way1, Way2
    <2> QED
      BY <2>1, <2>2
  <1>2. view \in View /\ way2 \in Way1
    <2>1. view \in View
      BY <1>1, ViewType
    <2> QED
      BY <2>1, HitWayFacts DEF View
  <1>3. line \in Line
    BY <1>1, <1>2 DEF View, Entries, Line
  <1>4. s1 \in State /\ s1.mem = s.mem
    <2>1. AgeUpdate(view, way2) \in View
      BY <1>2, AgeUpdateFacts, WaysFacts DEF View
    <2> QED
      BY <1>1, <2>1, SetL1AgesType DEF SetL1Ages, WriteL2Ages
  <1>5. aged \in Set2
    <2>1. s1.l2[i] \in Set2
      BY <1>1, <1>4 DEF State, Caches2
    <2>2. put \in Set2
      <3> HIDE DEF line, s1
      <3> QED
        BY <1>1, <1>2, <1>3, <2>1 DEF Set2, Entry2
    <2> QED
      BY <1>1, <1>2, <2>2, Ages2
  <1>6. WriteL2Line(s, a, data) = [s1 EXCEPT !.l2[i] = aged]
    BY DEF WriteL2Line
  <1> HIDE DEF aged, s1, i
  <1>7. [s1 EXCEPT !.l2[i] = aged] \in State /\ [s1 EXCEPT !.l2[i] = aged].mem = s1.mem
    BY <1>1, <1>4, <1>5, StateSet2 DEF State
  <1> QED
    BY <1>4, <1>6, <1>7 DEF s1

LEMMA WriteL2HitType ==
  ASSUME TwiceTheWays, NEW s \in State, NEW a, InMemory(a), NEW data \in Word,
         NEW g \in Entry1, Hit(L2AsL1(s, Index1(a)), TagOf1(a))
  PROVE  CallTyped(s, WriteL2Hit(s, a, data, g), a)
  <1> DEFINE k == "L1_DCACHE"
             i == Index1(a)
             view == L2AsL1(s, i)
             way2 == HitWay(view, TagOf1(a))
             line == [view[way2].line EXCEPT ![a.word] = data]
             m == MemPut(s.mem, a, line)
             t == WriteL2Line(s, a, data)
             s2 == [t EXCEPT !.mem = m]
             new == [g EXCEPT !.v = VALID,
                       !.line = LineAt(s2, Base("L2_CACHE") + i * L2Lines + way2, g)]
             set == s2.l1[k][i]
             way == VictimWay(set)
             old == [v |-> VALID, age |-> 0, tag |-> TagOf2(a),
                     line |-> LineAt(s2, Base("L1_DCACHE") + i * L1Ways + HIT_WAY_MISS, g)]
             free1 == AgeIncrease(Insert(set, way, new), L1Ways, way)
             full1 == AgeUpdate(Insert(set, way, new), way)
             full2 == PutVictim(s2.l2[i], old)
             r == WriteL2Hit(s, a, data, g)
  <1>1. /\ i \in Line1 /\ i \in Line2 /\ TagOf2(a) \in Tag2 /\ a.word \in WordIdx
        /\ s.mem \in Memory /\ k \in L1Kinds /\ Way1 \subseteq Way2
    <2>1. i \in Line1 /\ TagOf2(a) \in Tag2 /\ a.word \in WordIdx
      BY IndexFacts DEF InMemory, Addr
    <2>2. Line1 \subseteq Line2 /\ Way1 \subseteq Way2
      BY GeometryAssumption DEF Line1, Line2, Way1, Way2
    <2> QED
      BY <2>1, <2>2 DEF State, L1Kinds
  <1>2. view \in View /\ way2 \in Way1
    <2>1. view \in View
      BY <1>1, ViewType
    <2> QED
      BY <2>1, HitWayFacts DEF View
  <1>3. line \in Line
    BY <1>1, <1>2 DEF View, Entries, Line
  <1>4. m \in Memory
    BY <1>1, <1>3, MemPutInMemory
  <1>7. t \in State
    BY WriteL2LineType
  <1>8. s2 \in State /\ s2.mem = m
    <2> HIDE DEF t, m
    <2> QED
      BY <1>4, <1>7, StateRest DEF State
  <1>9. r = IF HasPlace(set) THEN [s2 EXCEPT !.l1[k][i] = free1]
            ELSE [s2 EXCEPT !.l1[k][i] = full1, !.l2[i] = full2]
    BY DEF WriteL2Hit
  <1>10. new \in Entry1 /\ old \in Entry2
    <2>1. /\ LineAt(s2, Base("L2_CACHE") + i * L2Lines + way2, g) \in Line
          /\ LineAt(s2, Base("L1_DCACHE") + i * L1Ways + HIT_WAY_MISS, g) \in Line
      BY <1>8, LineAtFacts
    <2> HIDE DEF s2, i, way2
    <2>2. old \in Entry2
      BY <1>1, <2>1, WaysFacts DEF Entry2
    <2>3. new \in Entry1
      BY <2>1 DEF Entry1
    <2> QED
      BY <2>2, <2>3
  <1>11. set \in Set1 /\ s2.l2[i] \in Set2
    <2> HIDE DEF s2, i
    <2> QED
      BY <1>1, <1>8 DEF State, Caches1, Caches2
  <1> HIDE DEF s2, i, new, old, r, k
  <1>12. free1 \in Set1 /\ full1 \in Set1 /\ full2 \in Set2
    BY <1>10, <1>11, VictimWayFacts, InsertFacts, PutVictimType
  <1> HIDE DEF free1, full1, full2, set
  <1> DEFINE r1 == [s2 EXCEPT !.l1[k][i] = IF HasPlace(set) THEN free1 ELSE full1]
  <1>13. r = IF HasPlace(set) THEN r1 ELSE [r1 EXCEPT !.l2[i] = full2]
    BY <1>9
  <1>14. r1 \in State /\ r1.mem = m
    <2> HIDE DEF m
    <2> QED
      BY <1>1, <1>8, <1>12, StateSet1
  <1>15. r \in State /\ r.mem = m
    <2> HIDE DEF r1, m
    <2> QED
      BY <1>1, <1>12, <1>13, <1>14, StateSet2
  <1> HIDE DEF line
  <1> QED
    BY <1>15, PutReaches DEF CallTyped, r

LEMMA WriteType ==
  ASSUME TwiceTheWays, NEW s \in State, NEW a, InMemory(a), NEW data \in Word, NEW g \in Entry1
  PROVE  CallTyped(s, CacheWrite(s, a, data, g), a)
  <1>1. CASE Hit(s.l1["L1_DCACHE"][Index1(a)], TagOf1(a))
    BY <1>1, WriteL1HitType DEF CacheWrite
  <1>2. CASE ~Hit(s.l1["L1_DCACHE"][Index1(a)], TagOf1(a)) /\ Hit(L2AsL1(s, Index1(a)), TagOf1(a))
    BY <1>2, WriteL2HitType DEF CacheWrite
  <1>3. CASE ~Hit(s.l1["L1_DCACHE"][Index1(a)], TagOf1(a)) /\ ~Hit(L2AsL1(s, Index1(a)), TagOf1(a))
    BY <1>3, WriteMissType DEF CacheWrite
  <1> QED
    BY <1>1, <1>2, <1>3

LEMMA WriteByteType ==
  ASSUME TwiceTheWays, NEW s \in State, NEW a, InMemory(a),
         NEW data \in Byte, NEW g1 \in Entry1, NEW g2 \in Entry1
  PROVE  CallTyped(s, CacheWriteByte(s, a, data, g1, g2), a)
  <1> DEFINE r == CacheRead(s, "L1_DCACHE", a, g1)
             word == OrByte(r.word, a, data)
             t == CacheWrite(r, a, word, g2)
  <1>1. r \in State /\ r.mem = s.mem
    BY ReadType DEF L1Kinds
  <1>2. word \in Word
    BY <1>1, OrByteInWord DEF State
  <1>3. CallTyped(r, t, a)
    BY <1>1, <1>2, WriteType
  <1>4. CacheWriteByte(s, a, data, g1, g2) = t
    BY DEF CacheWriteByte
  <1> HIDE DEF t, r
  <1> QED
    BY <1>1, <1>3, <1>4 DEF CallTyped, Reaches

(***************************************************************************)
(* The calls that run out of memory.                                       *)
(***************************************************************************)
LEMMA ReadFailedType ==
  ASSUME NEW s \in State, NEW k, NEW a, InMemory(a), NEW r \in ReadFailed(s, k, a)
  PROVE  r \in State /\ r.mem = s.mem
  <1> DEFINE i2 == Index2(a)
             way2 == HitWay(s.l2[i2], TagOf2(a))
             new == AgeUpdate(s.l2[i2], way2)
  <1>1. CASE r = s
    BY <1>1
  <1>2. CASE r # s
    <2>1. Hit(s.l2[i2], TagOf2(a)) /\ r = [s EXCEPT !.l2[i2] = new]
      BY <1>2 DEF ReadFailed
    <2>2. i2 \in Line2
      BY IndexFacts DEF InMemory, Addr
    <2>3. s.l2[i2] \in Set2
      BY <2>2 DEF State, Caches2
    <2>4. way2 \in Way2
      BY <2>1, <2>3, HitWayFacts DEF Set2
    <2>5. new \in Set2
      BY <2>3, <2>4, Ages2
    <2> HIDE DEF new, i2
    <2> QED
      BY <2>1, <2>2, <2>5, StateSet2
  <1> QED
    BY <1>1, <1>2

LEMMA WriteFailedType ==
  ASSUME TwiceTheWays, NEW s \in State, NEW a, InMemory(a), NEW data \in Word,
         NEW r \in WriteFailed(s, a, data)
  PROVE  r \in State /\ r.mem = s.mem
  <1> DEFINE k == "L1_DCACHE"
             i == Index1(a)
             set == s.l1[k][i]
             way == HitWay(set, TagOf1(a))
             new == AgeUpdate(set, way)
  <1>1. CASE r = s
    BY <1>1
  <1>2. CASE r # s /\ Hit(set, TagOf1(a))
    <2>1. r = [s EXCEPT !.l1[k][i] = new]
      BY <1>2 DEF WriteFailed
    <2>2. i \in Line1 /\ k \in L1Kinds
      BY IndexFacts DEF InMemory, Addr, L1Kinds
    <2>3. set \in Set1
      BY <2>2 DEF State, Caches1
    <2>4. way \in Way1
      BY <1>2, <2>3, HitWayFacts DEF Set1
    <2>5. new \in Set1
      BY <2>3, <2>4, Ages1
    <2> HIDE DEF new, i, k
    <2> QED
      BY <2>1, <2>2, <2>5, StateSet1
  <1>3. CASE r # s /\ ~Hit(set, TagOf1(a))
    <2>1. /\ Hit(L2AsL1(s, i), TagOf1(a))
          /\ r = WriteL2Ages(s, a) \/ r = WriteL2Line(s, a, data)
      BY <1>3 DEF WriteFailed
    <2> QED
      BY <2>1, WriteL2LineType
  <1> QED
    BY <1>1, <1>2, <1>3

LEMMA WriteByteFailedType ==
  ASSUME TwiceTheWays, NEW s \in State, NEW a, InMemory(a), NEW data \in Byte,
         NEW g \in Entry1, NEW t \in WriteByteFailed(s, a, data, g)
  PROVE  t \in State /\ t.mem = s.mem
  <1> DEFINE r == CacheRead(s, "L1_DCACHE", a, g)
             word == OrByte(r.word, a, data)
  <1>1. r \in State /\ r.mem = s.mem
    BY ReadType DEF L1Kinds
  <1>2. t \in ReadFailed(s, "L1_DCACHE", a) \/ t \in WriteFailed(r, a, word)
    BY DEF WriteByteFailed
  <1> HIDE DEF r
  <1>3. word \in Word
    BY <1>1, OrByteInWord DEF State
  <1> HIDE DEF word
  <1> QED
    BY <1>1, <1>2, <1>3, ReadFailedType, WriteFailedType

LEMMA WriteUnallocatedType ==
  ASSUME NEW s \in State, NEW a, InMemory(a), NEW data \in Word
  PROVE  CallTyped(s, WriteUnallocated(s, a, data), a)
  <1> DEFINE k == "L1_DCACHE"
             i == Index1(a)
             i2 == Index2(a)
             set == s.l1[k][i]
             line == [MemLine(s.mem, a) EXCEPT ![a.word] = data]
             m == MemPut(s.mem, a, line)
             way == VictimWay(set)
             free1 == AgeIncrease(set, L1Ways, way)
             full1 == AgeUpdate(set, way)
             full2 == PutVictim(s.l2[i2], VictimOf1(set[way]))
             r == WriteUnallocated(s, a, data)
             r1 == [s EXCEPT !.mem = m]
             r2 == [r1 EXCEPT !.l1[k][i] = IF HasPlace(set) THEN free1 ELSE full1]
  <1>1. i \in Line1 /\ i2 \in Line2 /\ a.word \in WordIdx /\ s.mem \in Memory /\ k \in L1Kinds
    BY IndexFacts DEF InMemory, Addr, State, L1Kinds
  <1>2. set \in Set1 /\ s.l2[i2] \in Set2
    BY <1>1 DEF State, Caches1, Caches2
  <1>3. m \in Memory
    <2>1. line \in Line
      BY <1>1, MemLineInLine DEF Line
    <2> QED
      BY <1>1, <2>1, MemPutInMemory
  <1>4. way \in Way1
    BY <1>2, VictimWayFacts
  <1>5. free1 \in Set1 /\ full1 \in Set1
    BY <1>2, <1>4, Ages1
  <1>6. full2 \in Set2
    <2>1. set[way].tag \in Tag1 /\ set[way].line \in Line
      BY <1>2, <1>4 DEF Set1, Entry1
    <2>2. VictimOf1(set[way]) \in Entry2
      BY <2>1, VictimTag, WaysFacts DEF VictimOf1, Entry2
    <2> QED
      BY <1>2, <2>2, PutVictimType
  <1>7. r = IF HasPlace(set) THEN [s EXCEPT !.mem = m, !.l1[k][i] = free1]
            ELSE [s EXCEPT !.mem = m, !.l1[k][i] = full1, !.l2[i2] = full2]
    BY DEF WriteUnallocated
  <1>8. r = IF HasPlace(set) THEN r2 ELSE [r2 EXCEPT !.l2[i2] = full2]
    <2> HIDE DEF m, free1, full1, full2, set, i, i2, k, r
    <2> QED
      BY <1>7
  <1>9. r1 \in State /\ r1.mem = m
    <2> HIDE DEF m
    <2> QED
      BY <1>3, StateRest DEF State
  <1>10. r2 \in State /\ r2.mem = m
    <2> HIDE DEF r1, free1, full1, set, i, k, m
    <2> QED
      BY <1>1, <1>5, <1>9, StateSet1
  <1>11. r \in State /\ r.mem = m
    <2> HIDE DEF r2, full2, i2, set, m, r
    <2> QED
      BY <1>1, <1>6, <1>8, <1>10, StateSet2
  <1> HIDE DEF line, r
  <1> QED
    BY <1>11, PutReaches DEF CallTyped, r

(***************************************************************************)
(* The steps, insertions included.                                         *)
(***************************************************************************)
MemoryStep ==
  \A k \in Block, w \in WordIdx, b \in ByteIdx :
    mem'[k][w][b] # mem[k][w][b] =>
      ret'.op = "WRITE" /\ [blk |-> k, word |-> w, byte |-> b] \in Reach(ret'.addr)

LEMMA AfterState ==
  ASSUME NEW r \in State, After(r)
  PROVE  TypeOK' /\ mem' = r.mem
  BY DEF After, State, Caches1, Caches2, Set1, Set2, TypeOK

LEMMA ReadTypeStep ==
  ASSUME TwiceTheWays, TypeOK, NEW c \in Reads, Read(c)
  PROVE  TypeOK' /\ MemoryStep
  <1>1. PICK g \in Garbage, word \in GarbageWords :
          After(CacheRead(Before(word), CacheOf(c.type), c.addr, g))
    BY DEF Read
  <1> DEFINE r == CacheRead(Before(word), CacheOf(c.type), c.addr, g)
  <1>2. CacheOf(c.type) \in L1Kinds /\ InMemory(c.addr) /\ g \in Entry1
    BY CallsAssumption DEF CacheOf, L1Kinds
  <1>3. r \in State /\ r.mem = mem
    <2>1. Before(word).mem = mem
      BY DEF Before
    <2> QED
      BY <1>2, <2>1, InitWord, ReadType
  <1> HIDE DEF r
  <1>4. TypeOK' /\ mem' = mem
    BY <1>1, <1>3, AfterState DEF r
  <1> QED
    BY <1>4 DEF MemoryStep

LEMMA WriteTypeStep ==
  ASSUME TypeOK, NEW word \in GarbageWords, NEW r, NEW a, CallTyped(Before(word), r, a),
         After(r), ret'.op = "WRITE", ret'.addr = a
  PROVE  TypeOK' /\ MemoryStep
  <1>1. TypeOK' /\ mem' = r.mem
    BY AfterState DEF CallTyped
  <1>2. Before(word).mem = mem
    BY DEF Before
  <1> QED
    BY <1>1, <1>2 DEF CallTyped, Reaches, MemoryStep

LEMMA FailTypeStep ==
  ASSUME TypeOK, NEW word \in GarbageWords, NEW r \in State, r.mem = Before(word).mem, After(r)
  PROVE  TypeOK' /\ MemoryStep
  <1>1. TypeOK' /\ mem' = mem
    BY AfterState DEF Before
  <1> QED
    BY <1>1 DEF MemoryStep

LEMMA PreloadTypeStep ==
  ASSUME TypeOK, NEW p \in Preloads, Preload(p)
  PROVE  TypeOK' /\ MemoryStep
  <1> DEFINE e == EntryInit(mem, p.addr, TagOf2(p.addr), ZeroEntry)
             i == Index2(p.addr)
  <1>1. InMemory(p.addr) /\ Aligned(p.addr) /\ p.way \in Way2
    BY CallsAssumption
  <1>2. i \in Line2 /\ TagOf2(p.addr) \in Tag2
    BY <1>1, IndexFacts DEF InMemory, Addr
  <1>3. MemLine(mem, p.addr) \in Line
    BY <1>1, MemLineInLine DEF TypeOK
  <1>4. e \in Entry2
    BY <1>1, <1>2, <1>3, WaysFacts DEF EntryInit, Entry2
  <1>5. l2 \in Caches2
    BY DEF TypeOK, Caches2, Set2
  <1>6. Insert(l2[i], p.way, e) \in Set2
    <2>1. l2[i] \in Set2
      BY <1>2, <1>5 DEF Caches2
    <2> QED
      BY <1>1, <1>4, <2>1 DEF Insert, Set2
  <1>7. l2' = [l2 EXCEPT ![i] = Insert(l2[i], p.way, e)] /\ l1' = l1 /\ mem' = mem
    BY DEF Preload
  <1> HIDE DEF e, i
  <1>8. l2' \in Caches2
    BY <1>2, <1>5, <1>6, <1>7 DEF Caches2
  <1> QED
    BY <1>7, <1>8 DEF TypeOK, Caches2, Set2, MemoryStep

LEMMA AnyStep ==
  ASSUME TwiceTheWays, TypeOK, [Next]_vars
  PROVE  TypeOK' /\ (vars' = vars \/ MemoryStep)
  <1>1. ASSUME NEW c \in Reads, Read(c) PROVE TypeOK' /\ MemoryStep
    BY <1>1, ReadTypeStep
  <1>2. ASSUME NEW c \in Writes, Write(c) PROVE TypeOK' /\ MemoryStep
    <2>1. PICK g \in Garbage, word \in GarbageWords :
            /\ After(CacheWrite(Before(word), c.addr, c.data, g))
            /\ ret' = [op |-> "WRITE", cache |-> "L1_DCACHE", addr |-> c.addr, data |-> c.data]
      BY <1>2 DEF Write, Wrote
    <2>2. InMemory(c.addr) /\ c.data \in Word /\ g \in Entry1
      BY CallsAssumption
    <2>3. CallTyped(Before(word), CacheWrite(Before(word), c.addr, c.data, g), c.addr)
      BY <2>2, InitWord, WriteType
    <2> QED
      BY <2>1, <2>3, WriteTypeStep
  <1>3. ASSUME NEW c \in ByteWrites, WriteByte(c) PROVE TypeOK' /\ MemoryStep
    <2>1. PICK g1 \in Garbage, g2 \in Garbage, word \in GarbageWords :
            /\ After(CacheWriteByte(Before(word), c.addr, c.data, g1, g2))
            /\ ret' = [op |-> "WRITE", cache |-> "L1_DCACHE", addr |-> c.addr,
                       data |-> [b \in {c.addr.byte} |-> c.data]]
      BY <1>3 DEF WriteByte, Wrote
    <2>2. InMemory(c.addr) /\ c.data \in Byte /\ g1 \in Entry1 /\ g2 \in Entry1
      BY CallsAssumption
    <2>3. CallTyped(Before(word), CacheWriteByte(Before(word), c.addr, c.data, g1, g2), c.addr)
      BY <2>2, InitWord, WriteByteType
    <2> QED
      BY <2>1, <2>3, WriteTypeStep
  <1>4. ASSUME NEW k \in Flushes, Flush(k) PROVE TypeOK' /\ MemoryStep
    BY <1>4, FlushType DEF MemoryStep
  <1>5. ASSUME NEW p \in Preloads, Preload(p) PROVE TypeOK' /\ MemoryStep
    BY <1>5, PreloadTypeStep
  <1>6. ASSUME NEW c \in Reads, ReadFails(c) PROVE TypeOK' /\ MemoryStep
    <2>1. PICK word \in GarbageWords :
            \E s \in ReadFailed(Before(word), CacheOf(c.type), c.addr) : After(s)
      BY <1>6 DEF ReadFails
    <2> QED
      BY <2>1, CallsAssumption, InitWord, ReadFailedType, FailTypeStep
  <1>7. ASSUME NEW c \in Writes, WriteFails(c) PROVE TypeOK' /\ MemoryStep
    <2>1. PICK word \in GarbageWords :
            \E s \in WriteFailed(Before(word), c.addr, c.data) : After(s)
      BY <1>7 DEF WriteFails
    <2> QED
      BY <2>1, CallsAssumption, InitWord, WriteFailedType, FailTypeStep
  <1>8. ASSUME NEW c \in ByteWrites, WriteByteFails(c) PROVE TypeOK' /\ MemoryStep
    <2>1. PICK g \in Garbage, word \in GarbageWords :
            \E s \in WriteByteFailed(Before(word), c.addr, c.data, g) : After(s)
      BY <1>8 DEF WriteByteFails
    <2> QED
      BY <2>1, CallsAssumption, InitWord, WriteByteFailedType, FailTypeStep
  <1>9. ASSUME NEW c \in Writes, WriteUncached(c) PROVE TypeOK' /\ MemoryStep
    <2>1. PICK word \in GarbageWords :
            /\ After(WriteUnallocated(Before(word), c.addr, c.data))
            /\ ret'.op = "WRITE" /\ ret'.addr = c.addr
      BY <1>9 DEF WriteUncached, Wrote
    <2> QED
      BY <2>1, CallsAssumption, InitWord, WriteUnallocatedType, WriteTypeStep
  <1>10. ASSUME NEW c \in ByteWrites, WriteByteUncached(c) PROVE TypeOK' /\ MemoryStep
    <2>1. PICK g \in Garbage, word \in GarbageWords :
            LET s == CacheRead(Before(word), "L1_DCACHE", c.addr, g)
            IN /\ After(WriteUnallocated(s, c.addr, OrByte(s.word, c.addr, c.data)))
               /\ ret'.op = "WRITE" /\ ret'.addr = c.addr
      BY <1>10 DEF WriteByteUncached, Wrote
    <2> DEFINE s == CacheRead(Before(word), "L1_DCACHE", c.addr, g)
               data == OrByte(s.word, c.addr, c.data)
               r == WriteUnallocated(s, c.addr, data)
    <2>2. InMemory(c.addr) /\ c.data \in Byte /\ g \in Entry1 /\ "L1_DCACHE" \in L1Kinds
      BY CallsAssumption DEF L1Kinds
    <2>3. s \in State /\ s.mem = Before(word).mem
      BY <2>2, InitWord, ReadType
    <2> HIDE DEF s
    <2>4. data \in Word
      BY <2>2, <2>3, OrByteInWord DEF State
    <2> HIDE DEF data
    <2>5. CallTyped(s, r, c.addr)
      BY <2>2, <2>3, <2>4, WriteUnallocatedType
    <2>6. CallTyped(Before(word), r, c.addr)
      BY <2>3, <2>5 DEF CallTyped, Reaches
    <2>7. After(r) /\ ret'.op = "WRITE" /\ ret'.addr = c.addr
      BY <2>1 DEF s, data
    <2> HIDE DEF r
    <2> QED
      BY <2>6, <2>7, WriteTypeStep
  <1>11. CASE vars' = vars
    BY <1>11 DEF vars, TypeOK
  <1> QED
    BY <1>1, <1>2, <1>3, <1>4, <1>5, <1>6, <1>7, <1>8, <1>9, <1>10, <1>11 DEF Next

(***************************************************************************)
(* With entries inserted in L2, whatever their addresses: every access     *)
(* through the wrong array or the wrong bit-field type still finds and     *)
(* leaves values that fit, because L2 has exactly twice the ways of L1.    *)
(***************************************************************************)
THEOREM TypeSafetyInserted == TwiceTheWays => (Spec => []TypeOK)
  <1> SUFFICES ASSUME TwiceTheWays PROVE Spec => []TypeOK
    OBVIOUS
  <1>1. TypeOK /\ [Next]_vars => TypeOK'
    BY AnyStep
  <1>2. Init => TypeOK
    BY InitIInv DEF IInv
  <1> QED
    BY <1>1, <1>2, PTL DEF Spec

(***************************************************************************)
(* And still only writes change memory, in the bytes from their address    *)
(* on: what goes astray on an L2 hit goes astray in the caches.            *)
(***************************************************************************)
THEOREM FootprintInserted == TwiceTheWays => (Spec => MemoryFootprint)
  <1> SUFFICES ASSUME TwiceTheWays PROVE Spec => MemoryFootprint
    OBVIOUS
  <1> DEFINE A == \A k \in Block, w \in WordIdx, b \in ByteIdx :
                    mem'[k][w][b] # mem[k][w][b] =>
                      ret'.op = "WRITE" /\ [blk |-> k, word |-> w, byte |-> b] \in Reach(ret'.addr)
  <1>1. TypeOK /\ [Next]_vars => TypeOK'
    BY AnyStep
  <1>2. TypeOK /\ [Next]_vars => [A]_vars
    BY AnyStep DEF MemoryStep
  <1>3. Init => TypeOK
    BY InitIInv DEF IInv
  <1> QED
    BY <1>1, <1>2, <1>3, PTL DEF Spec, MemoryFootprint

=============================================================================
