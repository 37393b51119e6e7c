------------------------------ MODULE CacheSet ------------------------------
(***************************************************************************)
(* One set (a "line index") of a set-associative cache, and the primitives *)
(* of cache.h and lru.h that work on it.  A set is a function from the     *)
(* ways 0 .. ways-1 to entries [v, age, tag, line].  The entry types of    *)
(* the three caches differ only in the widths of age and tag.              *)
(***************************************************************************)
EXTENDS Naturals

VALID == 1
INVALID == 0

HitWays_FirstOnly(set, tag) ==  \* mutant: only way 0 is looked at
  {w \in DOMAIN set : w = 0 /\ set[w].v = VALID /\ set[w].tag = tag}

(***************************************************************************)
(* The way `hit' stops at: the scan gives up at the first invalid way, so  *)
(* a way counts only when every way before it is valid and does not match. *)
(***************************************************************************)
HitWays(set, tag) ==
  {w \in DOMAIN set : /\ set[w].v = VALID /\ set[w].tag = tag
                      /\ \A u \in 0 .. (w - 1) : set[u].v = VALID /\ set[u].tag # tag}

Hit(set, tag) == HitWays(set, tag) # {}

HitWay(set, tag) == CHOOSE w \in HitWays(set, tag) : TRUE

(***************************************************************************)
(* find_place: the first invalid way; with none it returns HIT_WAY_MISS,   *)
(* which is "~HasPlace" here.                                              *)
(***************************************************************************)
Places(set) ==
  {w \in DOMAIN set : set[w].v = INVALID /\ \A u \in 0 .. (w - 1) : set[u].v # INVALID}

HasPlace(set) == Places(set) # {}

FindPlace(set) == CHOOSE w \in Places(set) : TRUE

IsOldest_First(set, w) ==  \* mutant: ">" for ">=", the first of the oldest
  \A u \in DOMAIN set : /\ set[u].age <= set[w].age
                        /\ u < w => set[u].age < set[w].age

(***************************************************************************)
(* apply_lru: the scan keeps the last way whose age is maximal (">=");     *)
(* validity is not looked at.                                              *)
(***************************************************************************)
IsOldest(set, w) ==
  \A u \in DOMAIN set : /\ set[u].age <= set[w].age
                        /\ u > w => set[u].age < set[w].age

ApplyLru(set) == CHOOSE w \in DOMAIN set : IsOldest(set, w)

AgeIncrease_Unbounded(set, ways, way) ==  \* mutant: no "< WAYS-1"
  [w \in DOMAIN set |-> [set[w] EXCEPT !.age = IF w = way THEN 0 ELSE @ + 1]]

(***************************************************************************)
(* LRU_age_increase: every way grows older up to ways-1, `way' becomes the *)
(* youngest.  LRU_age_update: only the ways younger than `way' do.         *)
(***************************************************************************)
AgeIncrease(set, ways, way) ==
  [w \in DOMAIN set |->
     [set[w] EXCEPT !.age = IF w = way THEN 0 ELSE IF @ < ways - 1 THEN @ + 1 ELSE @]]

AgeUpdate(set, way) ==
  [w \in DOMAIN set |->
     [set[w] EXCEPT !.age = IF w = way THEN 0 ELSE IF @ < set[way].age THEN @ + 1 ELSE @]]

\* cache_insert: all four fields of the entry are copied into the way.
Insert(set, way, entry) == [set EXCEPT ![way] = entry]

=============================================================================
