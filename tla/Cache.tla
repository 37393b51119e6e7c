------------------------------- MODULE Cache -------------------------------
(***************************************************************************)
(* The two-level cache hierarchy of cache.h, lru.h and cache_mng.c over a  *)
(* main memory: an instruction and a data L1 in front of one L2.  The      *)
(* program is sequential, so each call of the public interface is one      *)
(* step.  A call is written as an operator from a record                   *)
(*      s = [l1, l2, mem, word]      (word: what the caller's *word holds) *)
(* to the record it leaves, which lets cache_write_byte be, as in the      *)
(* code, a cache_read followed by a cache_write.  The calls allocate on    *)
(* their way, and any allocation may fail: such a call is an action of its *)
(* own.                                                                    *)
(*                                                                         *)
(* An address is [blk, word, byte]: the 16-byte block, the word in the     *)
(* block and the byte in the word.  Words are sequences of bytes, bytes    *)
(* are sets of bits, so that "|=" is a union.                              *)
(***************************************************************************)
EXTENDS CacheSet, Integers

CONSTANTS
  L1Lines, L1Ways,        \* 64 and 4
  L2Lines, L2Ways,        \* 512 and 8
  LineWords, WordBytes,   \* 4 and 4
  MaxBlock,               \* the memory is the blocks 0 .. MaxBlock
  Bits,                   \* the bits of a byte
  HIT_WAY_MISS,           \* 255; used as an index once, see WriteL2Hit
  InitMems,               \* contents the memory may start with
  Reads,                  \* the reads a caller may issue: [type, size, addr]
  Writes,                 \* word writes: [addr, data]
  ByteWrites,             \* byte writes: [addr, data]
  Flushes,                \* the caches a caller may flush again later
  Preloads,               \* entries a caller may insert in L2 itself: [addr, way]
  Garbage,                \* what a fresh malloc'd L1 entry may hold
  GarbageWords            \* what an unset word_t may hold

VARIABLES l1, l2, mem,
          ret             \* the last call: its kind, address and data

vars == <<l1, l2, mem, ret>>

L1Kinds == {"L1_ICACHE", "L1_DCACHE"}
CacheKinds == L1Kinds \cup {"L2_CACHE"}
Block == 0 .. MaxBlock
WordIdx == 0 .. (LineWords - 1)
ByteIdx == 0 .. (WordBytes - 1)
Line1 == 0 .. (L1Lines - 1)
Way1 == 0 .. (L1Ways - 1)
Line2 == 0 .. (L2Lines - 1)
Way2 == 0 .. (L2Ways - 1)

Byte == SUBSET Bits
Word == [ByteIdx -> Byte]
Line == [WordIdx -> Word]
Memory == [Block -> Line]
Addr == [blk : Block, word : WordIdx, byte : ByteIdx]

Tag1 == 0 .. (MaxBlock \div L1Lines)
Tag2 == 0 .. (MaxBlock \div L2Lines)
Entry1 == [v : {INVALID, VALID}, age : Way1, tag : Tag1, line : Line]
Entry2 == [v : {INVALID, VALID}, age : Way2, tag : Tag2, line : Line]

ZeroLine == [w \in WordIdx |-> [b \in ByteIdx |-> {}]]
ZeroEntry == [v |-> INVALID, age |-> 0, tag |-> 0, line |-> ZeroLine]

Index1(a) == a.blk % L1Lines
TagOf1_L2Bits(a) == a.blk \div L2Lines  \* mutant: the bits of L2
TagOf1(a) == a.blk \div L1Lines
Index2(a) == a.blk % L2Lines
TagOf2(a) == a.blk \div L2Lines

-----------------------------------------------------------------------------
(***************************************************************************)
(* The memory accesses of one line's length.  They start at the byte the   *)
(* address names, not at the start of its block, so an unaligned one runs  *)
(* into the next block.                                                    *)
(***************************************************************************)
Aligned(a) == a.word = 0 /\ a.byte = 0

Plus(a, w, b) ==
  LET b1 == a.byte + b
      w1 == a.word + w + (IF b1 >= WordBytes THEN 1 ELSE 0)
  IN [blk |-> IF w1 >= LineWords THEN a.blk + 1 ELSE a.blk,
      word |-> IF w1 >= LineWords THEN w1 - LineWords ELSE w1,
      byte |-> IF b1 >= WordBytes THEN b1 - WordBytes ELSE b1]

InMemory(a) == a \in Addr /\ (Aligned(a) \/ a.blk < MaxBlock)

MemLine(m, a) ==
  [w \in WordIdx |-> [b \in ByteIdx |->
     LET x == Plus(a, w, b) IN m[x.blk][x.word][x.byte]]]

Offsets(a, x) == {p \in WordIdx \X ByteIdx : Plus(a, p[1], p[2]) = x}

MemPut_AtBlock(m, a, line) == [m EXCEPT ![a.blk] = line]  \* mutant: aligned down

MemPut(m, a, line) ==
  [k \in Block |-> [w \in WordIdx |-> [b \in ByteIdx |->
     LET ps == Offsets(a, [blk |-> k, word |-> w, byte |-> b])
     IN IF ps = {} THEN m[k][w][b]
        ELSE LET p == CHOOSE p \in ps : TRUE IN line[p[1]][p[2]]]]]

(***************************************************************************)
(* cache_entry_init on a malloc'd entry.  It refuses an address that is    *)
(* not 16-byte aligned; no caller looks at the error, so the entry then    *)
(* keeps what malloc left in it.                                           *)
(***************************************************************************)
EntryInit(m, a, tag, garbage) ==
  IF Aligned(a) THEN [v |-> VALID, age |-> 0, tag |-> tag, line |-> MemLine(m, a)]
  ELSE garbage

-----------------------------------------------------------------------------
(***************************************************************************)
(* cache_read when neither cache has the block, and when L1 has it.        *)
(***************************************************************************)
ReadL1Hit(s, k, a) ==
  LET i == Index1(a)
      way == HitWay(s.l1[k][i], TagOf1(a))
  IN [s EXCEPT !.l1[k][i] = AgeUpdate(@, way),
               !.word = s.l1[k][i][way].line[a.word]]

VictimWay(set) == IF HasPlace(set) THEN FindPlace(set) ELSE ApplyLru(set)

ReadMiss_Ages(s, k, a, garbage) ==  \* mutant: LRU_age_increase after the insertion
  LET i == Index1(a)
      way == VictimWay(s.l1[k][i])
      new == EntryInit(s.mem, a, TagOf1(a), garbage)
  IN [s EXCEPT !.l1[k][i] = AgeIncrease(Insert(@, way, new), L1Ways, way), !.word = new.line[a.word]]

ReadMiss_DataOnly(s, k, a, garbage) ==  \* mutant: the data L1 gets every block
  LET i == Index1(a)
      way == VictimWay(s.l1["L1_DCACHE"][i])
      new == EntryInit(s.mem, a, TagOf1(a), garbage)
  IN [s EXCEPT !.l1["L1_DCACHE"][i] = AgeUpdate(Insert(@, way, new), way), !.word = new.line[a.word]]

ReadMiss(s, k, a, garbage) ==
  LET i == Index1(a)
      way == VictimWay(s.l1[k][i])
      new == EntryInit(s.mem, a, TagOf1(a), garbage)
  IN [s EXCEPT !.l1[k][i] = AgeUpdate(Insert(@, way, new), way),
               !.word = new.line[a.word]]

(***************************************************************************)
(* Storing an entry evicted from L1 in a set of L2: at the first invalid   *)
(* way, where everybody ages, or over the oldest.                          *)
(***************************************************************************)
PutVictim(set, entry) ==
  IF HasPlace(set)
  THEN AgeIncrease(Insert(set, FindPlace(set), entry), L2Ways, FindPlace(set))
  ELSE AgeUpdate(Insert(set, ApplyLru(set), entry), ApplyLru(set))

-----------------------------------------------------------------------------
(***************************************************************************)
(* The L2-hit branches index the arrays with the wrong number of ways, and *)
(* with the wrong array, so they need the arrays as the flat memory they   *)
(* are.  All entries have one size, and the callers' three arrays lie one  *)
(* after the other: instruction L1, data L1, L2.  A slot is a position in  *)
(* that memory.                                                            *)
(***************************************************************************)
Size1 == L1Lines * L1Ways
Slots == 0 .. (2 * Size1 + L2Lines * L2Ways - 1)
Base(k) == CASE k = "L1_ICACHE" -> 0
             [] k = "L1_DCACHE" -> Size1
             [] k = "L2_CACHE"  -> 2 * Size1
Kind(n) == IF n < Size1 THEN "L1_ICACHE" ELSE IF n < 2 * Size1 THEN "L1_DCACHE" ELSE "L2_CACHE"
LineOf(n) == (n - Base(Kind(n))) \div (IF Kind(n) = "L2_CACHE" THEN L2Ways ELSE L1Ways)
WayOf(n) == (n - Base(Kind(n))) % (IF Kind(n) = "L2_CACHE" THEN L2Ways ELSE L1Ways)

\* The entry at slot n, in the type of the array that owns it.
At(s, n) == IF Kind(n) = "L2_CACHE" THEN s.l2[LineOf(n)][WayOf(n)]
            ELSE s.l1[Kind(n)][LineOf(n)][WayOf(n)]

(***************************************************************************)
(* The bit fields of the two entry types overlap: v is the same bit, and   *)
(* the top bit of an L2 age is the lowest bit of an L1 tag.                *)
(***************************************************************************)
AsL1(e) == [e EXCEPT !.age = e.age % L1Ways, !.tag = 2 * e.tag + (e.age \div L1Ways)]
AsL2(e) == [e EXCEPT !.age = e.age + L1Ways * (e.tag % 2),
                     !.tag = (e.tag \div 2) % ((MaxBlock \div L2Lines) + 1)]

\* A line read through a slot; past the end of the arrays it is garbage.
LineAt(s, n, garbage) == IF n \in Slots THEN At(s, n).line ELSE garbage.line

\* v := INVALID through a slot; past the end it hits nothing of the caches.
ClearValid(s, n) ==
  CASE n \notin Slots -> s
    [] n \in Slots /\ Kind(n) = "L2_CACHE" -> [s EXCEPT !.l2[LineOf(n)][WayOf(n)].v = INVALID]
    [] n \in Slots /\ Kind(n) # "L2_CACHE" -> [s EXCEPT !.l1[Kind(n)][LineOf(n)][WayOf(n)].v = INVALID]

\* An L1-typed copy through a slot, as the L2 entry it is later stored as.
VictimAt(s, n, garbage) ==
  IF n \notin Slots THEN AsL2(garbage)
  ELSE IF Kind(n) = "L2_CACHE" THEN At(s, n) ELSE AsL2(At(s, n))

(***************************************************************************)
(* cache_read on an L2 hit (macro hit_L2).  The block's line is fetched    *)
(* with stride L2Lines; the "invalidation" goes through the L1 array, with *)
(* the same stride; the new entry's age is what malloc left; with a free   *)
(* way *word is not assigned; the evicted L1 entry is read with stride     *)
(* L1Lines.                                                                *)
(***************************************************************************)
ReadL2Hit(s, k, a, garbage) ==
  LET i1 == Index1(a)
      i2 == Index2(a)
      way2 == HitWay(s.l2[i2], TagOf2(a))
      s1 == [s EXCEPT !.l2[i2] = AgeUpdate(@, way2)]
      new == [v |-> VALID, age |-> garbage.age, tag |-> TagOf1(a),
              line |-> LineAt(s1, Base("L2_CACHE") + i2 * L2Lines + way2, garbage)]
      s2 == ClearValid(s1, Base(k) + i2 * L2Lines + way2)
      set == s2.l1[k][i1]
      way == ApplyLru(set)
      old == VictimAt(s2, Base(k) + i1 * L1Lines + way, garbage)
  IN IF HasPlace(set)
     THEN [s2 EXCEPT !.l1[k][i1] = AgeIncrease(Insert(@, FindPlace(@), new), L1Ways, FindPlace(@))]
     ELSE [s2 EXCEPT !.l1[k][i1] = AgeUpdate(Insert(@, way, new), way),
                     !.word = new.line[a.word],
                     !.l2[i2] = PutVictim(@, old)]

CacheRead(s, k, a, garbage) ==
  IF Hit(s.l1[k][Index1(a)], TagOf1(a)) THEN ReadL1Hit(s, k, a)
  ELSE IF Hit(s.l2[Index2(a)], TagOf2(a)) THEN ReadL2Hit(s, k, a, garbage)
  ELSE ReadMiss(s, k, a, garbage)

-----------------------------------------------------------------------------
WriteL1Hit_MemoryOnly(s, a, data) ==  \* mutant: the cached line keeps the old word
  LET i == Index1(a)
      way == HitWay(s.l1["L1_DCACHE"][i], TagOf1(a))
      line == [s.l1["L1_DCACHE"][i][way].line EXCEPT ![a.word] = data]
  IN [s EXCEPT !.l1["L1_DCACHE"][i] = AgeUpdate(@, way), !.mem = MemPut(s.mem, a, line)]

(***************************************************************************)
(* cache_write on an L1 hit: the whole line goes to memory at the address. *)
(***************************************************************************)
WriteL1Hit(s, a, data) ==
  LET i == Index1(a)
      way == HitWay(s.l1["L1_DCACHE"][i], TagOf1(a))
      line == [s.l1["L1_DCACHE"][i][way].line EXCEPT ![a.word] = data]
  IN [s EXCEPT !.l1["L1_DCACHE"][i] = [AgeUpdate(@, way) EXCEPT ![way].line = line],
               !.mem = MemPut(s.mem, a, line)]

VictimOf1_Valid(e) ==  \* mutant: marked VALID, as the design wants
  [v |-> VALID, age |-> 0, tag |-> e.tag \div (L2Lines \div L1Lines), line |-> e.line]

\* The L2 entry cache_write makes of the one it evicts: marked INVALID.
VictimOf1(e) ==
  [v |-> INVALID, age |-> 0, tag |-> e.tag \div (L2Lines \div L1Lines), line |-> e.line]

WriteMiss_ZeroLine(s, a, data, garbage) ==  \* mutant: the line is not read first
  LET i == Index1(a)
      set == s.l1["L1_DCACHE"][i]
      m == MemPut(s.mem, a, [ZeroLine EXCEPT ![a.word] = data])
      new == EntryInit(m, a, TagOf1(a), garbage)
      way == VictimWay(set)
  IN [s EXCEPT !.mem = m, !.l1["L1_DCACHE"][i] = AgeIncrease(Insert(@, way, new), L1Ways, way)]

(***************************************************************************)
(* cache_write with no hit: a line's worth of memory at the address gets   *)
(* the word, then the block is loaded.  With no free way the oldest entry  *)
(* is stored in L2, marked INVALID, at the index of the new address.       *)
(***************************************************************************)
WriteMiss(s, a, data, garbage) ==
  LET i == Index1(a)
      set == s.l1["L1_DCACHE"][i]
      m == MemPut(s.mem, a, [MemLine(s.mem, a) EXCEPT ![a.word] = data])
      new == EntryInit(m, a, TagOf1(a), garbage)
      way == VictimWay(set)
  IN IF HasPlace(set)
     THEN [s EXCEPT !.mem = m,
                    !.l1["L1_DCACHE"][i] = AgeIncrease(Insert(@, way, new), L1Ways, way)]
     ELSE [s EXCEPT !.mem = m,
                    !.l1["L1_DCACHE"][i] = AgeUpdate(Insert(@, way, new), way),
                    !.l2[Index2(a)] = PutVictim(@, VictimOf1(set[way]))]

(***************************************************************************)
(* cache_write looks the block up in L2 as if L2 were a data L1: index and *)
(* tag of L1, L1Ways ways per set, entries in the L1 type.                 *)
(***************************************************************************)
L2AsL1(s, i) ==
  [w \in Way1 |-> AsL1(s.l2[(i * L1Ways + w) \div L2Ways][(i * L1Ways + w) % L2Ways])]

\* The ages of such a set, written back; the L1 field is the low part of the L2 one.
SetL1Ages(s, i, set) ==
  [s EXCEPT !.l2 = [j \in Line2 |-> [u \in Way2 |->
     LET w == j * L2Ways + u - i * L1Ways
         e == s.l2[j][u]
     IN IF w \in Way1 THEN [e EXCEPT !.age = (e.age \div L1Ways) * L1Ways + set[w].age] ELSE e]]]

\* cache_write when that lookup hits, after the lookup and after the line is stored.
WriteL2Ages(s, a) ==
  LET view == L2AsL1(s, Index1(a))
  IN SetL1Ages(s, Index1(a), AgeUpdate(view, HitWay(view, TagOf1(a))))

WriteL2Line(s, a, data) ==
  LET i == Index1(a)
      way2 == HitWay(L2AsL1(s, i), TagOf1(a))
      line == [L2AsL1(s, i)[way2].line EXCEPT ![a.word] = data]
  IN [WriteL2Ages(s, a) EXCEPT !.l2[i] = AgeUpdate([@ EXCEPT ![way2].line = line], way2)]

(***************************************************************************)
(* cache_write when that lookup hits.  The line read through the L1 view   *)
(* is stored, with the word, at the same numbers in the L2 view; the new   *)
(* L1 entry gets the line at stride L2Lines and never a tag; with no free  *)
(* way the line of the "evicted" entry is read at way HIT_WAY_MISS.        *)
(***************************************************************************)
WriteL2Hit(s, a, data, garbage) ==
  LET i == Index1(a)
      view == L2AsL1(s, i)
      way2 == HitWay(view, TagOf1(a))
      line == [view[way2].line EXCEPT ![a.word] = data]
      s2 == [WriteL2Line(s, a, data) EXCEPT !.mem = MemPut(s.mem, a, line)]
      new == [garbage EXCEPT !.v = VALID,
                !.line = LineAt(s2, Base("L2_CACHE") + i * L2Lines + way2, garbage)]
      set == s2.l1["L1_DCACHE"][i]
      way == VictimWay(set)
      old == [v |-> VALID, age |-> 0, tag |-> TagOf2(a),
              line |-> LineAt(s2, Base("L1_DCACHE") + i * L1Ways + HIT_WAY_MISS, garbage)]
  IN IF HasPlace(set)
     THEN [s2 EXCEPT !.l1["L1_DCACHE"][i] = AgeIncrease(Insert(@, way, new), L1Ways, way)]
     ELSE [s2 EXCEPT !.l1["L1_DCACHE"][i] = AgeUpdate(Insert(@, way, new), way),
                     !.l2[i] = PutVictim(@, old)]

CacheWrite(s, a, data, garbage) ==
  IF Hit(s.l1["L1_DCACHE"][Index1(a)], TagOf1(a)) THEN WriteL1Hit(s, a, data)
  ELSE IF Hit(L2AsL1(s, Index1(a)), TagOf1(a)) THEN WriteL2Hit(s, a, data, garbage)
  ELSE WriteMiss(s, a, data, garbage)

OrByte_Assign(word, a, data) == [word EXCEPT ![a.byte] = data]  \* mutant: "=" for "|="

\* The byte is or'ed into the word, so it adds bits and clears none.
OrByte(word, a, data) == [word EXCEPT ![a.byte] = @ \cup data]

(***************************************************************************)
(* cache_write_byte: the word is read through the cache, the byte is or'ed *)
(* into it, and the word is written through the cache.                     *)
(***************************************************************************)
CacheWriteByte(s, a, data, g1, g2) ==
  LET r == CacheRead(s, "L1_DCACHE", a, g1)
  IN CacheWrite(r, a, OrByte(r.word, a, data), g2)

-----------------------------------------------------------------------------
(***************************************************************************)
(* Calls an allocation of which fails: what they may leave.  They return   *)
(* an error at once, and keep what was done before: the ages of the way    *)
(* that was hit and, in cache_write, the line already stored in L2.  (A    *)
(* malloc or calloc that is not checked ends the process by its NULL; this *)
(* is no step.)                                                            *)
(***************************************************************************)
ReadFailed(s, k, a) ==
  LET i2 == Index2(a)
      way2 == HitWay(s.l2[i2], TagOf2(a))
  IN IF ~Hit(s.l1[k][Index1(a)], TagOf1(a)) /\ Hit(s.l2[i2], TagOf2(a))
     THEN {s, [s EXCEPT !.l2[i2] = AgeUpdate(@, way2)]} ELSE {s}

WriteFailed(s, a, data) ==
  LET i == Index1(a)
      way == HitWay(s.l1["L1_DCACHE"][i], TagOf1(a))
  IN IF Hit(s.l1["L1_DCACHE"][i], TagOf1(a))
     THEN {s, [s EXCEPT !.l1["L1_DCACHE"][i] = AgeUpdate(@, way)]}
     ELSE IF Hit(L2AsL1(s, i), TagOf1(a)) THEN {s, WriteL2Ages(s, a), WriteL2Line(s, a, data)}
     ELSE {s}

WriteByteFailed(s, a, data, garbage) ==
  LET r == CacheRead(s, "L1_DCACHE", a, garbage)
  IN ReadFailed(s, "L1_DCACHE", a) \cup WriteFailed(r, a, OrByte(r.word, a, data))

(***************************************************************************)
(* In cache_write with no hit the malloc of the new entry is not checked:  *)
(* cache_entry_init and cache_insert refuse the NULL, and the call goes on *)
(* and succeeds, with the block in memory only and the way as it was.      *)
(***************************************************************************)
WriteMisses(s, a) ==
  ~Hit(s.l1["L1_DCACHE"][Index1(a)], TagOf1(a)) /\ ~Hit(L2AsL1(s, Index1(a)), TagOf1(a))

WriteUnallocated(s, a, data) ==
  LET i == Index1(a)
      set == s.l1["L1_DCACHE"][i]
      m == MemPut(s.mem, a, [MemLine(s.mem, a) EXCEPT ![a.word] = data])
      way == VictimWay(set)
  IN IF HasPlace(set)
     THEN [s EXCEPT !.mem = m, !.l1["L1_DCACHE"][i] = AgeIncrease(@, L1Ways, way)]
     ELSE [s EXCEPT !.mem = m, !.l1["L1_DCACHE"][i] = AgeUpdate(@, way),
                    !.l2[Index2(a)] = PutVictim(@, VictimOf1(set[way]))]

-----------------------------------------------------------------------------
(***************************************************************************)
(* The calls as actions.                                                   *)
(***************************************************************************)
Before(word) == [l1 |-> l1, l2 |-> l2, mem |-> mem, word |-> word]
After(s) == l1' = s.l1 /\ l2' = s.l2 /\ mem' = s.mem

CacheOf(type) == IF type = "INSTRUCTION" THEN "L1_ICACHE" ELSE "L1_DCACHE"

\* The bytes of its word an access of this size is about.
Selected(size, a) == IF size = "word" THEN ByteIdx ELSE {a.byte}

\* cache_read (size "word") and cache_read_byte (size "byte").
Read(c) ==
  \E garbage \in Garbage, word \in GarbageWords :
    LET s == CacheRead(Before(word), CacheOf(c.type), c.addr, garbage)
    IN /\ After(s)
       /\ ret' = [op |-> "READ", cache |-> CacheOf(c.type), addr |-> c.addr,
                  data |-> [b \in Selected(c.size, c.addr) |-> s.word[b]]]

Wrote(a, data) == ret' = [op |-> "WRITE", cache |-> "L1_DCACHE", addr |-> a, data |-> data]

\* cache_write.
Write(c) ==
  \E garbage \in Garbage, word \in GarbageWords :
    /\ After(CacheWrite(Before(word), c.addr, c.data, garbage))
    /\ Wrote(c.addr, c.data)

\* cache_write_byte.
WriteByte(c) ==
  \E g1, g2 \in Garbage, word \in GarbageWords :
    /\ After(CacheWriteByte(Before(word), c.addr, c.data, g1, g2))
    /\ Wrote(c.addr, [b \in {c.addr.byte} |-> c.data])

\* The same calls when an allocation fails.
Fails(k, a) == ret' = [op |-> "FAILED", cache |-> k, addr |-> a]

ReadFails(c) ==
  \E word \in GarbageWords :
    /\ \E s \in ReadFailed(Before(word), CacheOf(c.type), c.addr) : After(s)
    /\ Fails(CacheOf(c.type), c.addr)

WriteFails(c) ==
  \E word \in GarbageWords :
    /\ \E s \in WriteFailed(Before(word), c.addr, c.data) : After(s)
    /\ Fails("L1_DCACHE", c.addr)

WriteByteFails(c) ==
  \E garbage \in Garbage, word \in GarbageWords :
    /\ \E s \in WriteByteFailed(Before(word), c.addr, c.data, garbage) : After(s)
    /\ Fails("L1_DCACHE", c.addr)

\* The writes whose new entry is not allocated, which nobody is told.
WriteUncached(c) ==
  \E word \in GarbageWords :
    /\ WriteMisses(Before(word), c.addr)
    /\ After(WriteUnallocated(Before(word), c.addr, c.data))
    /\ Wrote(c.addr, c.data)

WriteByteUncached(c) ==
  \E garbage \in Garbage, word \in GarbageWords :
    LET s == CacheRead(Before(word), "L1_DCACHE", c.addr, garbage)
    IN /\ WriteMisses(s, c.addr)
       /\ After(WriteUnallocated(s, c.addr, OrByte(s.word, c.addr, c.data)))
       /\ Wrote(c.addr, [b \in {c.addr.byte} |-> c.data])

Invalidated_FirstWay(cache) ==  \* mutant: the loop strides over the lines only
  [i \in DOMAIN cache |-> [cache[i] EXCEPT ![0].v = INVALID]]

(***************************************************************************)
(* cache_flush.  The loop ends with i one past the last entry, and tag and *)
(* age are cleared only there, in the first entry of the array that        *)
(* follows; only the first entry's line is cleared.                        *)
(***************************************************************************)
Invalidated(cache) == [i \in DOMAIN cache |-> [w \in DOMAIN cache[i] |->
                         [cache[i][w] EXCEPT !.v = INVALID]]]
Flushed(cache) == [Invalidated(cache) EXCEPT ![0][0].line = ZeroLine]
Overrun(cache) == [cache EXCEPT ![0][0].tag = 0, ![0][0].age = 0]

Flush(k) ==
  /\ l1' = [j \in L1Kinds |-> IF j = k THEN Flushed(l1[j])
                              ELSE IF k = "L1_ICACHE" THEN Overrun(l1[j])
                              ELSE l1[j]]
  /\ l2' = CASE k = "L2_CACHE"  -> Flushed(l2)
             [] k = "L1_DCACHE" -> Overrun(l2)
             [] OTHER           -> l2
  /\ ret' = [op |-> "FLUSH", cache |-> k]
  /\ UNCHANGED mem

\* cache_entry_init, then cache_insert in L2, by a caller of the interface.
Preload(p) ==
  /\ l2' = [l2 EXCEPT ![Index2(p.addr)] =
              Insert(@, p.way, EntryInit(mem, p.addr, TagOf2(p.addr), ZeroEntry))]
  /\ ret' = [op |-> "INSERT", cache |-> "L2_CACHE", addr |-> p.addr]
  /\ UNCHANGED <<l1, mem>>

Init ==
  /\ l1 = [k \in L1Kinds |-> [i \in Line1 |-> [w \in Way1 |-> ZeroEntry]]]
  /\ l2 = [i \in Line2 |-> [w \in Way2 |-> ZeroEntry]]
  /\ mem \in InitMems
  /\ ret = [op |-> "NONE"]

Next ==
  \/ \E c \in Reads : Read(c) \/ ReadFails(c)
  \/ \E c \in Writes : Write(c) \/ WriteUncached(c) \/ WriteFails(c)
  \/ \E c \in ByteWrites : WriteByte(c) \/ WriteByteUncached(c) \/ WriteByteFails(c)
  \/ \E k \in Flushes : Flush(k)
  \/ \E p \in Preloads : Preload(p)

Spec == Init /\ [][Next]_vars

(***************************************************************************)
(* What a caller may pass, and the regime the strong properties need:      *)
(* every address 16-byte aligned, instructions never written, no entry     *)
(* inserted in L2 from outside, and no flush of the instruction L1 after   *)
(* the start (it overruns into the data L1).                               *)
(***************************************************************************)
ASSUME GeometryAssumption ==
  /\ L1Lines \in Nat \ {0} /\ L1Ways \in Nat \ {0}
  /\ L2Lines \in Nat /\ L2Ways \in Nat
  /\ L1Lines <= L2Lines /\ L2Lines % L1Lines = 0 /\ L1Ways <= L2Ways
  /\ LineWords \in Nat \ {0} /\ WordBytes \in Nat \ {0}
  /\ MaxBlock \in Nat

ASSUME CallsAssumption ==
  /\ InitMems \subseteq Memory
  /\ \A c \in Reads : /\ c.type \in {"INSTRUCTION", "DATA"}
                      /\ c.size \in {"word", "byte"}
                      /\ InMemory(c.addr)
  /\ \A c \in Writes : InMemory(c.addr) /\ c.data \in Word
  /\ \A c \in ByteWrites : InMemory(c.addr) /\ c.data \in Byte
  /\ Flushes \subseteq CacheKinds
  /\ \A p \in Preloads : InMemory(p.addr) /\ Aligned(p.addr) /\ p.way \in Way2
  /\ Garbage \subseteq Entry1
  /\ GarbageWords \subseteq Word

WordAligned ==
  \A c \in Reads \cup Writes \cup ByteWrites : Aligned(c.addr)

-----------------------------------------------------------------------------
\* Every field stays inside its bit field, through every reinterpretation.
TypeOK ==
  /\ l1 \in [L1Kinds -> [Line1 -> [Way1 -> Entry1]]]
  /\ l2 \in [Line2 -> [Way2 -> Entry2]]
  /\ mem \in Memory

(***************************************************************************)
(* No call ever leaves a valid entry in L2: cache_read drops its victims   *)
(* and cache_write stores them INVALID, so the L2 of the program never     *)
(* hits and every L2-hit branch of cache_mng.c is dead.                    *)
(***************************************************************************)
L2NeverValid == \A i \in Line2, w \in Way2 : l2[i][w].v = INVALID

(***************************************************************************)
(* `hit' stops at the first invalid way, which is right only if the valid  *)
(* ways of a set always come first.                                        *)
(***************************************************************************)
ValidPrefix ==
  \A k \in L1Kinds, i \in Line1, w \in Way1 :
    l1[k][i][w].v = VALID => \A u \in 0 .. (w - 1) : l1[k][i][u].v = VALID

\* A block is cached at most once, so a write cannot leave an older copy behind.
UniqueTags ==
  \A k \in L1Kinds, i \in Line1, w, u \in Way1 :
    /\ l1[k][i][w].v = VALID /\ l1[k][i][u].v = VALID
    /\ l1[k][i][w].tag = l1[k][i][u].tag
    => w = u

(***************************************************************************)
(* Write-through: what a valid entry of L1 holds is what memory holds at   *)
(* the block its tag and index name.                                       *)
(***************************************************************************)
Coherent ==
  \A k \in L1Kinds, i \in Line1, w \in Way1, b \in Block :
    /\ l1[k][i][w].v = VALID
    /\ l1[k][i][w].tag = b \div L1Lines
    /\ i = b % L1Lines
    => l1[k][i][w].line = mem[b]

\* A read returns the bytes memory holds at its address.
ReadsReturnMemory ==
  ret.op = "READ" =>
    \A b \in DOMAIN ret.data : ret.data[b] = mem[ret.addr.blk][ret.addr.word][b]

(***************************************************************************)
(* Only a write makes the entries of a set age, and the instruction cache  *)
(* is never written: its ages are 0 for ever, so its replacement is not    *)
(* LRU at all.                                                             *)
(***************************************************************************)
ICacheNeverAges ==
  \A i \in Line1, w \in Way1 : l1["L1_ICACHE"][i][w].age = 0

-----------------------------------------------------------------------------
(***************************************************************************)
(* Action properties.                                                      *)
(***************************************************************************)

(***************************************************************************)
(* A set that is full with all its ages 0 (what reads alone produce) is    *)
(* stuck: until a flush no age changes and every miss takes the last way,  *)
(* the others keeping their blocks for ever.                               *)
(***************************************************************************)
Stuck(set) == \A w \in Way1 : set[w].v = VALID /\ set[w].age = 0

StuckSetsStayStuck ==
  [][ret'.op # "FLUSH" =>
       \A k \in L1Kinds, i \in Line1 : Stuck(l1[k][i]) =>
         /\ Stuck(l1'[k][i])
         /\ \A w \in 0 .. (L1Ways - 2) : l1'[k][i][w].tag = l1[k][i][w].tag]_vars

\* The bytes a call of one line's length can reach from its address.
Reach(a) == {Plus(a, w, b) : w \in WordIdx, b \in ByteIdx}

(***************************************************************************)
(* Whatever the alignment, only a write changes memory, and only the       *)
(* sixteen bytes from its address on.                                      *)
(***************************************************************************)
MemoryFootprint ==
  [][\A k \in Block, w \in WordIdx, b \in ByteIdx :
       mem'[k][w][b] # mem[k][w][b] =>
         ret'.op = "WRITE" /\ [blk |-> k, word |-> w, byte |-> b] \in Reach(ret'.addr)]_vars

(***************************************************************************)
(* "Write to cache a byte of data" (cache_mng.h), and a word of it: what a *)
(* write was given is what memory then holds.  The code or's a byte into   *)
(* the one that is there.                                                  *)
(***************************************************************************)
WritesStoreTheirData ==
  [][ret'.op = "WRITE" =>
       \A b \in DOMAIN ret'.data :
         mem'[ret'.addr.blk][ret'.addr.word][b] = ret'.data[b]]_vars

(***************************************************************************)
(* A read or a write, whether it succeeds or not, changes the addressed    *)
(* set of its own L1 only: the two L1s and the sets of one do not disturb  *)
(* each other.                                                             *)
(***************************************************************************)
OtherSetsUntouched ==
  [][ret'.op \in {"READ", "WRITE", "FAILED"} =>
       \A k \in L1Kinds, i \in Line1 :
         k # ret'.cache \/ i # Index1(ret'.addr) => l1'[k][i] = l1[k][i]]_vars

=============================================================================
