--------------------------- MODULE CacheSetProofs ---------------------------
(***************************************************************************)
(* What the primitives of CacheSet return, for any number of ways and any  *)
(* entries.  The proofs about the hierarchy rest on these facts.           *)
(***************************************************************************)
EXTENDS CacheSet, WellFoundedInduction, TLAPS

\* cache_hit returns a valid way that carries the tag.
LEMMA HitWayFacts ==
  ASSUME NEW set, NEW tag, Hit(set, tag)
  PROVE  /\ HitWay(set, tag) \in DOMAIN set
         /\ set[HitWay(set, tag)].v = VALID
         /\ set[HitWay(set, tag)].tag = tag
  BY DEF Hit, HitWay, HitWays

\* find_place returns an invalid way, and every way before it is taken.
LEMMA FindPlaceFacts ==
  ASSUME NEW set, HasPlace(set)
  PROVE  /\ FindPlace(set) \in DOMAIN set
         /\ set[FindPlace(set)].v = INVALID
         /\ \A u \in 0 .. (FindPlace(set) - 1) : set[u].v # INVALID
  BY DEF HasPlace, FindPlace, Places

\* A nonempty set of naturals has a least element.
LEMMA LeastNatural ==
  ASSUME NEW S \in SUBSET Nat, S # {}
  PROVE  \E m \in S : \A k \in S : m <= k
  <1> DEFINE less == {p \in Nat \X Nat : p[1] < p[2]}
  <1>1. IsWellFoundedOn(less, Nat)
    BY NatLessThanWellFounded, Zenon DEF OpToRel
  <1>2. PICK m \in S : \A k \in S : ~(<<k, m>> \in less)
    <2> HIDE DEF less
    <2> QED
      BY <1>1, WFMin
  <1>3. ASSUME NEW k \in S PROVE m <= k
    <2>1. k < m => <<k, m>> \in less
      OBVIOUS
    <2>2. ~(k < m) /\ k \in Nat /\ m \in Nat
      BY <1>2, <2>1
    <2> QED
      BY <2>2
  <1> QED
    BY <1>3

\* A nonempty set of naturals below a bound has a greatest element.
LEMMA GreatestNatural ==
  ASSUME NEW n \in Nat, NEW S \in SUBSET (0 .. n), S # {}
  PROVE  \E m \in S : \A k \in S : k <= m
  <1> DEFINE T == {n - k : k \in S}
  <1>1. T \in SUBSET Nat /\ T # {}
    <2>1. ASSUME NEW k \in S PROVE n - k \in Nat
      BY SMT
    <2> QED
      BY <2>1
  <1>2. PICK t \in T : \A x \in T : t <= x
    BY <1>1, LeastNatural
  <1>3. PICK m \in S : t = n - m
    BY <1>2
  <1>4. ASSUME NEW k \in S PROVE k <= m
    <2>1. n - m <= n - k
      BY <1>2, <1>3
    <2> QED
      BY <2>1
  <1> QED
    BY <1>4

\* Without an invalid way, every way is valid (the scan cannot miss one).
LEMMA NoPlaceMeansFull ==
  ASSUME NEW n \in Nat, NEW set, DOMAIN set = 0 .. (n - 1),
         \A w \in 0 .. (n - 1) : set[w].v \in {INVALID, VALID},
         ~HasPlace(set)
  PROVE  \A w \in 0 .. (n - 1) : set[w].v = VALID
  <1> SUFFICES ASSUME NEW w \in 0 .. (n - 1), set[w].v = INVALID PROVE FALSE
    OBVIOUS
  <1> DEFINE S == {u \in 0 .. (n - 1) : set[u].v = INVALID}
  <1>1. S \in SUBSET Nat /\ S # {}
    OBVIOUS
  <1>2. PICK u \in S : \A x \in S : u <= x
    BY <1>1, LeastNatural
  <1>3. \A x \in 0 .. (u - 1) : set[x].v # INVALID
    BY <1>2
  <1> QED
    BY <1>2, <1>3 DEF HasPlace, Places

\* apply_lru returns a way, and the last one among those of greatest age.
LEMMA ApplyLruFacts ==
  ASSUME NEW n \in Nat \ {0}, NEW set, DOMAIN set = 0 .. (n - 1),
         NEW a \in Nat, \A w \in 0 .. (n - 1) : set[w].age \in 0 .. a
  PROVE  ApplyLru(set) \in 0 .. (n - 1) /\ IsOldest(set, ApplyLru(set))
  <1> DEFINE ages == {set[w].age : w \in 0 .. (n - 1)}
  <1>1. PICK m \in ages : \A x \in ages : x <= m
    <2>1. ages \in SUBSET (0 .. a) /\ ages # {}
      <3>1. 0 \in 0 .. (n - 1)
        OBVIOUS
      <3> QED
        BY <3>1
    <2> QED
      BY <2>1, GreatestNatural
  <1> DEFINE oldest == {w \in 0 .. (n - 1) : set[w].age = m}
  <1>2. PICK w \in oldest : \A u \in oldest : u <= w
    <2>1. oldest \in SUBSET (0 .. (n - 1)) /\ oldest # {} /\ n - 1 \in Nat
      BY <1>1
    <2> QED
      BY <2>1, GreatestNatural
  <1>3. ASSUME NEW u \in 0 .. (n - 1)
        PROVE  set[u].age <= set[w].age /\ (u > w => set[u].age < set[w].age)
    <2>1. set[u].age \in ages /\ set[u].age <= m /\ set[w].age = m
      BY <1>1, <1>2
    <2>2. u > w => u \notin oldest
      BY <1>2
    <2>3. set[u].age \in Nat /\ m \in Nat
      BY <1>1
    <2> QED
      BY <2>1, <2>2, <2>3
  <1>4. w \in DOMAIN set /\ IsOldest(set, w)
    BY <1>2, <1>3 DEF IsOldest
  <1> QED
    BY <1>4 DEF ApplyLru

-----------------------------------------------------------------------------
\* The entries of a set of n ways with the given tags and lines.
Entries(n, tags, lines) ==
  [v : {INVALID, VALID}, age : 0 .. (n - 1), tag : tags, line : lines]

\* LRU_age_update keeps every field in range and touches nothing but ages.
LEMMA AgeUpdateFacts ==
  ASSUME NEW n \in Nat \ {0}, NEW tags, NEW lines,
         NEW set \in [0 .. (n - 1) -> Entries(n, tags, lines)], NEW way \in 0 .. (n - 1)
  PROVE  /\ AgeUpdate(set, way) \in [0 .. (n - 1) -> Entries(n, tags, lines)]
         /\ AgeUpdate(set, way)[way].age = 0
         /\ \A w \in 0 .. (n - 1) : /\ AgeUpdate(set, way)[w].v = set[w].v
                                    /\ AgeUpdate(set, way)[w].tag = set[w].tag
                                    /\ AgeUpdate(set, way)[w].line = set[w].line
                                    /\ set[way].age = 0 /\ w # way =>
                                         AgeUpdate(set, way)[w].age = set[w].age
  <1> DEFINE new == AgeUpdate(set, way)
  <1>1. ASSUME NEW w \in 0 .. (n - 1)
        PROVE  /\ new[w] \in Entries(n, tags, lines)
               /\ new[w].v = set[w].v /\ new[w].tag = set[w].tag /\ new[w].line = set[w].line
               /\ w = way => new[w].age = 0
               /\ set[way].age = 0 /\ w # way => new[w].age = set[w].age
    BY DEF AgeUpdate, Entries
  <1>2. new = [w \in 0 .. (n - 1) |-> new[w]]
    BY DEF AgeUpdate
  <1> QED
    BY <1>1, <1>2

\* So does LRU_age_increase.
LEMMA AgeIncreaseFacts ==
  ASSUME NEW n \in Nat \ {0}, NEW tags, NEW lines,
         NEW set \in [0 .. (n - 1) -> Entries(n, tags, lines)], NEW way \in 0 .. (n - 1)
  PROVE  /\ AgeIncrease(set, n, way) \in [0 .. (n - 1) -> Entries(n, tags, lines)]
         /\ \A w \in 0 .. (n - 1) : /\ AgeIncrease(set, n, way)[w].v = set[w].v
                                    /\ AgeIncrease(set, n, way)[w].tag = set[w].tag
                                    /\ AgeIncrease(set, n, way)[w].line = set[w].line
  <1> DEFINE new == AgeIncrease(set, n, way)
  <1>1. ASSUME NEW w \in 0 .. (n - 1)
        PROVE  /\ new[w] \in Entries(n, tags, lines)
               /\ new[w].v = set[w].v /\ new[w].tag = set[w].tag /\ new[w].line = set[w].line
    BY DEF AgeIncrease, Entries
  <1>2. new = [w \in 0 .. (n - 1) |-> new[w]]
    BY DEF AgeIncrease
  <1> QED
    BY <1>1, <1>2

=============================================================================
