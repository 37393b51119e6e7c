-------------------------- MODULE SimpleTLBProofs ---------------------------
(***************************************************************************)
(* Theorems about LinkedList and SimpleTLB, for every number of lines,     *)
(* every page table and whatever malloc gives.                             *)
(***************************************************************************)
EXTENDS SimpleTLBRefinement, FunctionTheorems, FiniteSetTheorems, WellFoundedInduction, TLAPS

\* Two functions of 0 .. n that agree at 0, and from each number to the next.
LEMMA SameSteps ==
  ASSUME NEW n \in Nat, NEW f, NEW g, f[0] = g[0],
         \A k \in 1 .. n : f[k - 1] = g[k - 1] => f[k] = g[k]
  PROVE  \A k \in 0 .. n : f[k] = g[k]
<1> SUFFICES ASSUME NEW j \in 0 .. n, f[j] # g[j] PROVE FALSE
  OBVIOUS
<1> DEFINE less == {p \in Nat \X Nat : p[1] < p[2]}
           S == {k \in 0 .. n : f[k] # g[k]}
<1>1. IsWellFoundedOn(less, Nat)
  BY NatLessThanWellFounded, Zenon DEF OpToRel
<1>2. S \subseteq Nat /\ S # {}
  OBVIOUS
<1>3. PICK m \in S : \A k \in S : ~ (<<k, m>> \in less)
  <2> HIDE DEF less, S
  <2> QED
    BY <1>1, <1>2, WFMin
<1>4. m \in 1 .. n /\ m - 1 \in 0 .. n /\ <<m - 1, m>> \in less
  OBVIOUS
<1>5. m - 1 \notin S
  BY <1>3, <1>4
<1> QED
  BY <1>3, <1>4, <1>5

-----------------------------------------------------------------------------
(***************************************************************************)
(* Lists.  The nodes of a list l, in order, are q[1] .. q[n]: each has a   *)
(* value, and points to the one after it and to the one before it.         *)
(***************************************************************************)
Orders(n) == {q \in [1 .. n -> Nodes] : \A i, j \in 1 .. n : q[i] = q[j] => i = j}

On(q, n) == {q[k] : k \in 1 .. n}

\* What a node can hold; the driver puts line numbers in them.
Contents == Nat

NodeRecords == [value : Contents, previous : Nodes \cup {NULL}, next : Nodes \cup {NULL}]

Chain(l, q, n) ==
  /\ n \in Nat \ {0} /\ q \in Orders(n)
  /\ l = [front |-> q[1], back |-> q[n], node |-> l.node]
  /\ l.node \in [On(q, n) -> NodeRecords]
  /\ \A k \in 1 .. n : /\ l.node[q[k]].next = IF k = n THEN NULL ELSE q[k + 1]
                       /\ l.node[q[k]].previous = IF k = 1 THEN NULL ELSE q[k - 1]

\* The first n steps of following a field of the nodes from a start.
Steps(l, start, field, n, f) ==
  [k \in 0 .. n |-> IF k = 0 THEN start
                    ELSE IF f[k - 1] = NULL THEN NULL ELSE l.node[f[k - 1]][field]]

Visits(n, f) == [k \in 1 .. Cardinality({j \in 0 .. n : f[j] # NULL}) |-> f[k - 1]]

IsWalk(l, start, field, n, f) == f = Steps(l, start, field, n, f)

LEMMA WalkIsUnique ==
  ASSUME NEW l, NEW start, NEW field, NEW n \in Nat, NEW f, NEW g,
         IsWalk(l, start, field, n, f), IsWalk(l, start, field, n, g)
  PROVE  f = g
<1>1. f[0] = g[0]
  BY DEF IsWalk, Steps
<1>2. \A k \in 1 .. n : f[k - 1] = g[k - 1] => f[k] = g[k]
  BY DEF IsWalk, Steps
<1>3. \A k \in 0 .. n : f[k] = g[k]
  BY <1>1, <1>2, SameSteps
<1>4. f = [k \in 0 .. n |-> f[k]] /\ g = [k \in 0 .. n |-> g[k]]
  BY DEF IsWalk, Steps
<1> QED
  BY <1>3, <1>4

\* Follow is the only function of its recursive definition.
LEMMA FollowIs ==
  ASSUME NEW l, NEW start, NEW field, NEW n \in Nat, n = Cardinality(DOMAIN l.node),
         NEW w, IsWalk(l, start, field, n, w)
  PROVE  Follow(l, start, field) = Visits(n, w)
<1> DEFINE at == CHOOSE f : f = Steps(l, start, field, n, f)
<1>1. IsWalk(l, start, field, n, at)
  BY DEF IsWalk
<1>2. at = w
  <2> HIDE DEF at
  <2> QED
    BY <1>1, WalkIsUnique
<1>3. DOMAIN at = 0 .. n
  BY <1>1 DEF IsWalk, Steps
<1>4. Follow(l, start, field) =
        [k \in 1 .. Cardinality({j \in DOMAIN at : at[j] # NULL}) |-> at[k - 1]]
  BY DEF Follow, Steps
<1> HIDE DEF at
<1>5. Follow(l, start, field) = Visits(n, at)
  BY <1>3, <1>4, Zenon DEF Visits
<1> QED
  BY <1>2, <1>5

LEMMA OnCount ==
  ASSUME NEW n \in Nat \ {0}, NEW q \in Orders(n)
  PROVE  Cardinality(On(q, n)) = n
<1>1. q \in Bijection(1 .. n, On(q, n))
  <2>1. q \in [1 .. n -> On(q, n)]
    BY DEF Orders, On
  <2>2. \A i, j \in 1 .. n : q[i] = q[j] => i = j
    BY DEF Orders
  <2>3. \A x \in On(q, n) : \E k \in 1 .. n : q[k] = x
    BY DEF On
  <2>4. q \in Injection(1 .. n, On(q, n))
    BY <2>1, <2>2 DEF Injection, IsInjective
  <2>5. q \in Surjection(1 .. n, On(q, n))
    BY <2>1, <2>3 DEF Surjection
  <2> QED
    BY <2>4, <2>5 DEF Bijection
<1>2. IsFiniteSet(1 .. n) /\ Cardinality(1 .. n) = n
  BY FS_Interval
<1> QED
  BY <1>1, <1>2, FS_Bijection DEF ExistsBijection

\* A walk that meets n nodes and then NULL visits just these.
LEMMA VisitsOf ==
  ASSUME NEW n \in Nat \ {0}, NEW w, \A k \in 0 .. (n - 1) : w[k] # NULL, w[n] = NULL
  PROVE  Visits(n, w) = [k \in 1 .. n |-> w[k - 1]]
<1>1. {j \in 0 .. n : w[j] # NULL} = 0 .. (n - 1)
  OBVIOUS
<1>2. Cardinality(0 .. (n - 1)) = n
  BY FS_Interval
<1> QED
  BY <1>1, <1>2 DEF Visits

\* The search follows the chain forwards and backwards, and comes by all of it.
LEMMA ChainForward ==
  ASSUME NEW l, NEW q, NEW n, Chain(l, q, n)
  PROVE  Forward(l) = q
<1> DEFINE w == [k \in 0 .. n |-> IF k < n THEN q[k + 1] ELSE NULL]
<1>1. n \in Nat \ {0} /\ q \in Orders(n) /\ l.front = q[1] /\ DOMAIN l.node = On(q, n)
  BY DEF Chain
<1>2. \A k \in 0 .. (n - 1) : w[k] = q[k + 1] /\ q[k + 1] \in Nodes
  BY <1>1 DEF Orders
<1>3. w[n] = NULL /\ \A k \in 0 .. (n - 1) : w[k] # NULL
  <2>1. w[n] = NULL
    BY <1>1
  <2> HIDE DEF w
  <2> QED
    BY <1>2, <2>1, LinesAssumption
<1>4. IsWalk(l, l.front, "next", n, w)
  <2>1. \A k \in 1 .. n : l.node[q[k]].next = IF k = n THEN NULL ELSE q[k + 1]
    BY DEF Chain
  <2>2. ASSUME NEW k \in 0 .. n PROVE w[k] = Steps(l, l.front, "next", n, w)[k]
    <3>1. CASE k = 0
      BY <1>1, <1>2, <3>1 DEF Steps
    <3>2. CASE k # 0
      <4>1. k \in 1 .. n /\ k - 1 \in 0 .. (n - 1) /\ w[k - 1] = q[k] /\ w[k - 1] # NULL
        BY <1>1, <1>2, <1>3, <3>2
      <4>2. w[k] = IF k = n THEN NULL ELSE q[k + 1]
        BY <1>1, <4>1
      <4> HIDE DEF w
      <4> QED
        BY <2>1, <3>2, <4>1, <4>2 DEF Steps
    <3> QED
      BY <3>1, <3>2
  <2>3. Steps(l, l.front, "next", n, w) =
          [k \in 0 .. n |-> Steps(l, l.front, "next", n, w)[k]]
    BY DEF Steps
  <2> QED
    BY <2>2, <2>3 DEF IsWalk
<1> HIDE DEF w
<1>5. Forward(l) = [k \in 1 .. n |-> w[k - 1]]
  <2>1. n = Cardinality(DOMAIN l.node)
    BY <1>1, OnCount
  <2> QED
    BY <1>1, <1>3, <1>4, <2>1, FollowIs, VisitsOf DEF Forward
<1> QED
  BY <1>1, <1>2, <1>5 DEF Orders

LEMMA ChainBackward ==
  ASSUME NEW l, NEW q, NEW n, Chain(l, q, n)
  PROVE  Backward(l) = [k \in 1 .. n |-> q[n + 1 - k]]
<1> DEFINE w == [k \in 0 .. n |-> IF k < n THEN q[n - k] ELSE NULL]
<1>1. n \in Nat \ {0} /\ q \in Orders(n) /\ l.back = q[n] /\ DOMAIN l.node = On(q, n)
  BY DEF Chain
<1>2. \A k \in 0 .. (n - 1) : w[k] = q[n - k] /\ q[n - k] \in Nodes
  BY <1>1 DEF Orders
<1>3. w[n] = NULL /\ \A k \in 0 .. (n - 1) : w[k] # NULL
  <2>1. w[n] = NULL
    BY <1>1
  <2> HIDE DEF w
  <2> QED
    BY <1>2, <2>1, LinesAssumption
<1>4. IsWalk(l, l.back, "previous", n, w)
  <2>1. \A k \in 1 .. n : l.node[q[k]].previous = IF k = 1 THEN NULL ELSE q[k - 1]
    BY DEF Chain
  <2>2. ASSUME NEW k \in 0 .. n PROVE w[k] = Steps(l, l.back, "previous", n, w)[k]
    <3>1. CASE k = 0
      BY <1>1, <1>2, <3>1 DEF Steps
    <3>2. CASE k # 0
      <4>1. /\ n + 1 - k \in 1 .. n /\ k - 1 \in 0 .. (n - 1)
            /\ w[k - 1] = q[n + 1 - k] /\ w[k - 1] # NULL
        <5>1. n + 1 - k \in 1 .. n /\ k - 1 \in 0 .. (n - 1) /\ n - (k - 1) = n + 1 - k
          BY <1>1, <3>2
        <5> QED
          BY <1>2, <1>3, <5>1
      <4>2. w[k] = l.node[w[k - 1]].previous
        <5> DEFINE m == n + 1 - k
        <5>1. l.node[q[m]].previous = IF m = 1 THEN NULL ELSE q[m - 1]
          BY <2>1, <4>1
        <5>2. (m = 1 <=> ~ (k < n)) /\ m - 1 = n - k
          BY <1>1, <4>1
        <5>3. w[k] = IF k < n THEN q[n - k] ELSE NULL
          OBVIOUS
        <5> HIDE DEF w
        <5> QED
          BY <4>1, <5>1, <5>2, <5>3
      <4> HIDE DEF w
      <4> QED
        BY <3>2, <4>1, <4>2 DEF Steps
    <3> QED
      BY <3>1, <3>2
  <2>3. Steps(l, l.back, "previous", n, w) =
          [k \in 0 .. n |-> Steps(l, l.back, "previous", n, w)[k]]
    BY DEF Steps
  <2> QED
    BY <2>2, <2>3 DEF IsWalk
<1> HIDE DEF w
<1>5. Backward(l) = [k \in 1 .. n |-> w[k - 1]]
  <2>1. n = Cardinality(DOMAIN l.node)
    BY <1>1, OnCount
  <2>2. Backward(l) = Visits(n, w)
    BY <1>1, <1>4, <2>1, FollowIs DEF Backward
  <2> QED
    BY <1>1, <1>3, <2>2, VisitsOf
<1>6. \A k \in 1 .. n : w[k - 1] = q[n + 1 - k]
  <2>1. \A k \in 1 .. n : k - 1 \in 0 .. (n - 1) /\ n - (k - 1) = n + 1 - k
    BY <1>1
  <2> QED
    BY <1>2, <2>1
<1> QED
  BY <1>5, <1>6

LEMMA ChainValues ==
  ASSUME NEW l, NEW q, NEW n, Chain(l, q, n)
  PROVE  Values(l) = [k \in 1 .. n |-> l.node[q[k]].value]
<1>1. Forward(l) = q
  BY ChainForward
<1>2. DOMAIN q = 1 .. n
  BY DEF Chain, Orders
<1> QED
  BY <1>1, <1>2 DEF Values

LEMMA ChainWellLinked ==
  ASSUME NEW l, NEW q, NEW n, Chain(l, q, n)
  PROVE  WellLinked(l) /\ ~ IsEmpty(l)
<1> DEFINE b == [k \in 1 .. n |-> q[n + 1 - k]]
<1>1. n \in Nat \ {0} /\ q \in Orders(n) /\ DOMAIN l.node = On(q, n)
      /\ l.front = q[1] /\ l.back = q[n]
  BY DEF Chain
<1>2. Forward(l) = q /\ Backward(l) = b
  BY ChainForward, ChainBackward
<1>3. Len(q) = n /\ Len(b) = n /\ DOMAIN q = 1 .. n
  BY <1>1 DEF Orders
<1>4. \A k \in 1 .. n : q[k] = b[n + 1 - k]
  BY <1>1
<1>5. {q[k] : k \in DOMAIN q} = On(q, n) /\ Cardinality(On(q, n)) = n
  BY <1>1, <1>3, OnCount DEF On
<1> HIDE DEF b
<1>6. WellLinked(l)
  BY <1>1, <1>2, <1>3, <1>4, <1>5 DEF WellLinked
<1>7. ~ IsEmpty(l)
  BY <1>1, LinesAssumption DEF IsEmpty, Orders
<1> QED
  BY <1>6, <1>7

-----------------------------------------------------------------------------
(* What the operations of list.c make of a chain, and of its values. *)

ValueOf(l, q, k) == l.node[q[k]].value

LEMMA ChainValuesOf ==
  ASSUME NEW l, NEW q, NEW n, Chain(l, q, n)
  PROVE  Values(l) = [k \in 1 .. n |-> ValueOf(l, q, k)]
BY ChainValues DEF ValueOf

\* push_back appends the new node.
LEMMA PushBackChain ==
  ASSUME NEW l, NEW q, NEW n, Chain(l, q, n), NEW new \in Nodes \ DOMAIN l.node,
         NEW value \in Contents, NEW r, r = PushBack(l, new, value),
         NEW p, p = [k \in 1 .. (n + 1) |-> IF k = n + 1 THEN new ELSE q[k]]
  PROVE  /\ Chain(r, p, n + 1)
         /\ \A k \in 1 .. n : ValueOf(r, p, k) = ValueOf(l, q, k)
         /\ ValueOf(r, p, n + 1) = value
<1>1. /\ n \in Nat \ {0} /\ q \in Orders(n) /\ l.front = q[1] /\ l.back = q[n]
      /\ l.node \in [On(q, n) -> NodeRecords] /\ DOMAIN l.node = On(q, n)
  BY DEF Chain
<1>2. /\ \A k \in 1 .. n : q[k] \in On(q, n) /\ q[k] \in Nodes /\ q[k] # new
      /\ new # NULL /\ \A i, j \in 1 .. n : q[i] = q[j] => i = j
  BY <1>1, LinesAssumption DEF On, Orders
<1>3. ~ IsEmpty(l)
  BY ChainWellLinked
<1> DEFINE node == [x \in On(q, n) \cup {new} |->
                      CASE x = new -> [value |-> value, previous |-> q[n], next |-> NULL]
                        [] x = q[n] /\ x # new -> [l.node[x] EXCEPT !.next = new]
                        [] OTHER -> l.node[x]]
<1>4. r = [front |-> q[1], back |-> new, node |-> node]
  BY <1>1, <1>2, <1>3 DEF PushBack
<1>5. /\ p \in Orders(n + 1) /\ On(p, n + 1) = On(q, n) \cup {new}
      /\ p[n + 1] = new /\ \A k \in 1 .. n : p[k] = q[k]
  <2>1. p[n + 1] = new /\ \A k \in 1 .. n : p[k] = q[k]
    BY <1>1
  <2>2. p \in [1 .. (n + 1) -> Nodes]
    BY <1>1, <1>2
  <2>3. \A i, j \in 1 .. (n + 1) : p[i] = p[j] => i = j
    BY <1>1, <1>2
  <2>4. On(p, n + 1) \subseteq On(q, n) \cup {new}
    BY <1>1, <1>2 DEF On
  <2>5. On(q, n) \cup {new} \subseteq On(p, n + 1)
    <3>1. \A k \in 1 .. n : k \in 1 .. (n + 1) /\ n + 1 \in 1 .. (n + 1)
      BY <1>1
    <3> QED
      BY <1>1, <2>1, <3>1 DEF On
  <2> QED
    BY <2>1, <2>2, <2>3, <2>4, <2>5 DEF Orders
<1>6. ASSUME NEW k \in 1 .. n
      PROVE  /\ node[q[k]] \in NodeRecords
             /\ node[q[k]].value = l.node[q[k]].value
             /\ node[q[k]].next = IF k = n THEN new ELSE q[k + 1]
             /\ node[q[k]].previous = IF k = 1 THEN NULL ELSE q[k - 1]
  <2>1. /\ l.node[q[k]] \in NodeRecords
        /\ l.node[q[k]].next = IF k = n THEN NULL ELSE q[k + 1]
        /\ l.node[q[k]].previous = IF k = 1 THEN NULL ELSE q[k - 1]
    BY <1>1, <1>2 DEF Chain
  <2>2. node[q[k]] = IF k = n THEN [l.node[q[k]] EXCEPT !.next = new] ELSE l.node[q[k]]
    BY <1>1, <1>2
  <2> HIDE DEF node
  <2> QED
    BY <1>1, <2>1, <2>2 DEF NodeRecords
<1>7. node[new] = [value |-> value, previous |-> q[n], next |-> NULL]
  OBVIOUS
<1>8. node \in [On(q, n) \cup {new} -> NodeRecords]
  <2>1. \A x \in On(q, n) : node[x] \in NodeRecords
    BY <1>6 DEF On
  <2>2. node[new] \in NodeRecords
    BY <1>1, <1>2, <1>7 DEF NodeRecords
  <2>3. node = [x \in On(q, n) \cup {new} |-> node[x]]
    OBVIOUS
  <2> HIDE DEF node
  <2> QED
    BY <2>1, <2>2, <2>3
<1> HIDE DEF node
<1>9. r.node = node /\ r = [front |-> p[1], back |-> p[n + 1], node |-> r.node]
  BY <1>1, <1>4, <1>5
<1>10. ASSUME NEW k \in 1 .. (n + 1)
       PROVE  /\ node[p[k]].next = IF k = n + 1 THEN NULL ELSE p[k + 1]
              /\ node[p[k]].previous = IF k = 1 THEN NULL ELSE p[k - 1]
  <2>1. CASE k = n + 1
    BY <1>1, <1>5, <1>7, <2>1
  <2>2. CASE k # n + 1
    <3>1. k \in 1 .. n /\ (k # n => k + 1 \in 1 .. n) /\ (k # 1 => k - 1 \in 1 .. n)
      BY <1>1, <2>2
    <3> QED
      BY <1>1, <1>5, <1>6, <2>2, <3>1
  <2> QED
    BY <2>1, <2>2
<1>11. n + 1 \in Nat \ {0}
  BY <1>1
<1>12. Chain(r, p, n + 1)
  BY <1>5, <1>8, <1>9, <1>10, <1>11 DEF Chain
<1>13. \A k \in 1 .. n : ValueOf(r, p, k) = ValueOf(l, q, k)
  <2>1. \A k \in 1 .. n : p[k] = q[k]
    BY <1>5
  <2> QED
    BY <1>6, <1>9, <2>1 DEF ValueOf
<1>14. ValueOf(r, p, n + 1) = value
  BY <1>5, <1>7, <1>9 DEF ValueOf
<1> QED
  BY <1>12, <1>13, <1>14

\* pop_front drops the first node, of two or more.
LEMMA PopFrontChain ==
  ASSUME NEW l, NEW q, NEW n, Chain(l, q, n), n # 1, NEW r, r = PopFront(l),
         NEW p, p = [k \in 1 .. (n - 1) |-> q[k + 1]]
  PROVE  /\ Chain(r, p, n - 1)
         /\ \A k \in 1 .. (n - 1) : ValueOf(r, p, k) = ValueOf(l, q, k + 1)
<1>1. /\ n \in Nat \ {0} /\ n - 1 \in Nat \ {0} /\ q \in Orders(n)
      /\ l.front = q[1] /\ l.back = q[n] /\ 1 \in 1 .. n /\ 2 \in 1 .. n
      /\ l.node \in [On(q, n) -> NodeRecords] /\ DOMAIN l.node = On(q, n)
  BY DEF Chain
<1>2. /\ \A k \in 1 .. n : q[k] \in On(q, n) /\ q[k] \in Nodes
      /\ \A i, j \in 1 .. n : q[i] = q[j] => i = j
  BY <1>1 DEF On, Orders
<1>3. l.node[l.front].next = q[2]
  BY <1>1 DEF Chain
<1> DEFINE node == [x \in On(q, n) \ {q[1]} |->
                      IF x = q[2] THEN [l.node[x] EXCEPT !.previous = NULL] ELSE l.node[x]]
<1>4. r = [front |-> q[2], back |-> q[n], node |-> node]
  BY <1>1, <1>3 DEF PopFront
<1>5. \A k \in 1 .. (n - 1) : k + 1 \in 1 .. n /\ k + 1 # 1 /\ p[k] = q[k + 1]
  BY <1>1
<1>6. p \in Orders(n - 1) /\ On(p, n - 1) = On(q, n) \ {q[1]}
  <2>1. p \in [1 .. (n - 1) -> Nodes]
    BY <1>2, <1>5
  <2>2. \A i, j \in 1 .. (n - 1) : p[i] = p[j] => i = j
    BY <1>2, <1>5
  <2>3. On(p, n - 1) \subseteq On(q, n) \ {q[1]}
    BY <1>1, <1>2, <1>5 DEF On
  <2>4. ASSUME NEW x \in On(q, n) \ {q[1]} PROVE x \in On(p, n - 1)
    <3>1. PICK j \in 1 .. n : q[j] = x
      BY DEF On
    <3>2. j - 1 \in 1 .. (n - 1) /\ j - 1 + 1 = j
      BY <1>1, <3>1
    <3> QED
      BY <1>5, <3>1, <3>2 DEF On
  <2> QED
    BY <2>1, <2>2, <2>3, <2>4 DEF Orders
<1>7. ASSUME NEW k \in 1 .. (n - 1)
      PROVE  /\ node[p[k]] \in NodeRecords
             /\ node[p[k]].value = l.node[q[k + 1]].value
             /\ node[p[k]].next = IF k = n - 1 THEN NULL ELSE p[k + 1]
             /\ node[p[k]].previous = IF k = 1 THEN NULL ELSE p[k - 1]
  <2> DEFINE x == q[k + 1]
  <2>1. /\ l.node[x] \in NodeRecords
        /\ l.node[x].next = IF k + 1 = n THEN NULL ELSE q[k + 1 + 1]
        /\ l.node[x].previous = IF k + 1 = 1 THEN NULL ELSE q[k + 1 - 1]
    BY <1>1, <1>2, <1>5 DEF Chain
  <2>2. node[x] = IF k = 1 THEN [l.node[x] EXCEPT !.previous = NULL] ELSE l.node[x]
    BY <1>1, <1>2, <1>5
  <2>3. p[k] = x
    BY <1>5
  <2>4. k # n - 1 => k + 1 \in 1 .. (n - 1) /\ p[k + 1] = q[k + 1 + 1]
    BY <1>1, <1>5
  <2>5. k # 1 => k - 1 \in 1 .. (n - 1) /\ p[k - 1] = q[k - 1 + 1] /\ k - 1 + 1 = k + 1 - 1
    BY <1>1, <1>5
  <2>6. (k + 1 = n <=> k = n - 1) /\ k + 1 # 1
    BY <1>1
  <2> HIDE DEF node, x
  <2> QED
    BY <2>1, <2>2, <2>3, <2>4, <2>5, <2>6 DEF NodeRecords, x
<1>8. node \in [On(p, n - 1) -> NodeRecords]
  <2>1. \A x \in On(p, n - 1) : node[x] \in NodeRecords
    BY <1>7 DEF On
  <2>2. node = [x \in On(p, n - 1) |-> node[x]]
    BY <1>6
  <2> HIDE DEF node
  <2> QED
    BY <2>1, <2>2
<1> HIDE DEF node
<1>9. r.node = node /\ r = [front |-> p[1], back |-> p[n - 1], node |-> r.node]
  BY <1>1, <1>4, <1>5
<1>10. Chain(r, p, n - 1)
  BY <1>1, <1>6, <1>7, <1>8, <1>9 DEF Chain
<1> QED
  BY <1>7, <1>9, <1>10 DEF ValueOf

\* The j-th of n goes to the end.
Moved(f, n, j) == [k \in 1 .. n |-> IF k < j THEN f[k] ELSE IF k < n THEN f[k + 1] ELSE f[j]]

\* The index of f that the k-th of Moved comes from.
From(k, n, j) == IF k < j THEN k ELSE IF k < n THEN k + 1 ELSE j

LEMMA MovedFrom ==
  ASSUME NEW n \in Nat \ {0}, NEW j \in 1 .. n, NEW f
  PROVE  /\ \A k \in 1 .. n : From(k, n, j) \in 1 .. n /\ Moved(f, n, j)[k] = f[From(k, n, j)]
         /\ \A k, m \in 1 .. n : From(k, n, j) = From(m, n, j) => k = m
         /\ \A m \in 1 .. n : \E k \in 1 .. n : From(k, n, j) = m
<1>1. \A k \in 1 .. n : From(k, n, j) \in 1 .. n /\ Moved(f, n, j)[k] = f[From(k, n, j)]
  BY DEF From, Moved
<1>2. \A k, m \in 1 .. n : From(k, n, j) = From(m, n, j) => k = m
  BY DEF From
<1>3. ASSUME NEW m \in 1 .. n PROVE \E k \in 1 .. n : From(k, n, j) = m
  <2>1. CASE m < j
    BY <2>1 DEF From
  <2>2. CASE m = j
    <3>1. n \in 1 .. n /\ From(n, n, j) = j
      BY DEF From
    <3> QED
      BY <2>2, <3>1
  <2>3. CASE j < m
    <3>1. m - 1 \in 1 .. n /\ From(m - 1, n, j) = m
      BY <2>3 DEF From
    <3> QED
      BY <3>1
  <2> QED
    BY <2>1, <2>2, <2>3
<1> QED
  BY <1>1, <1>2, <1>3

\* Moving keeps an order an order, of the same nodes.
LEMMA MovedOrders ==
  ASSUME NEW n \in Nat \ {0}, NEW j \in 1 .. n, NEW q \in Orders(n)
  PROVE  Moved(q, n, j) \in Orders(n) /\ On(Moved(q, n, j), n) = On(q, n)
<1> DEFINE p == Moved(q, n, j)
<1>1. \A k \in 1 .. n : From(k, n, j) \in 1 .. n /\ p[k] = q[From(k, n, j)]
  BY MovedFrom
<1>2. \A k, m \in 1 .. n : From(k, n, j) = From(m, n, j) => k = m
  BY MovedFrom
<1>3. \A m \in 1 .. n : \E k \in 1 .. n : From(k, n, j) = m
  BY MovedFrom
<1>4. p = [k \in 1 .. n |-> p[k]]
  BY DEF Moved
<1> HIDE DEF p
<1>5. p \in [1 .. n -> Nodes]
  BY <1>1, <1>4 DEF Orders
<1>6. \A i, k \in 1 .. n : p[i] = p[k] => i = k
  BY <1>1, <1>2 DEF Orders
<1>7. On(p, n) = On(q, n)
  BY <1>1, <1>3 DEF On
<1>8. p \in Orders(n)
  BY <1>5, <1>6 DEF Orders
<1> QED
  BY <1>7, <1>8 DEF p

\* The last branch of move_back takes a node from between the ends to the end.
LEMMA RelinkChain ==
  ASSUME NEW l, NEW q, NEW n, Chain(l, q, n), NEW j \in 1 .. n, j # 1, j # n,
         NEW r, r = Relink(l, q[j]), NEW p, p = Moved(q, n, j)
  PROVE  /\ Chain(r, p, n)
         /\ \A k \in 1 .. n : ValueOf(r, p, k) = ValueOf(l, q, From(k, n, j))
<1>1. /\ n \in Nat \ {0} /\ q \in Orders(n) /\ l.front = q[1] /\ l.back = q[n]
      /\ l.node \in [On(q, n) -> NodeRecords] /\ DOMAIN l.node = On(q, n)
      /\ l = [front |-> q[1], back |-> q[n], node |-> l.node]
  BY DEF Chain
<1>2. /\ \A k \in 1 .. n : q[k] \in On(q, n) /\ q[k] \in Nodes
      /\ \A i, k \in 1 .. n : q[i] = q[k] => i = k
  BY <1>1 DEF On, Orders
<1>3. j - 1 \in 1 .. n /\ j + 1 \in 1 .. n /\ n \in 1 .. n /\ 1 \in 1 .. n
  BY <1>1
<1>4. l.node[q[j]].previous = q[j - 1] /\ l.node[q[j]].next = q[j + 1]
  BY <1>3 DEF Chain
<1> DEFINE node == [l.node EXCEPT ![q[j - 1]].next = q[j + 1],
                                  ![q[j + 1]].previous = q[j - 1],
                                  ![q[n]].next = q[j],
                                  ![q[j]].previous = q[n],
                                  ![q[j]].next = NULL]
<1>5. r = [front |-> q[1], back |-> q[j], node |-> node]
  BY <1>1, <1>4 DEF Relink
<1>6. ASSUME NEW k \in 1 .. n
      PROVE  /\ node[q[k]] \in NodeRecords
             /\ node[q[k]].value = l.node[q[k]].value
             /\ node[q[k]].next = IF k = j THEN NULL ELSE IF k = n THEN q[j]
                                  ELSE IF k = j - 1 THEN q[j + 1] ELSE q[k + 1]
             /\ node[q[k]].previous = IF k = j THEN q[n] ELSE IF k = j + 1 THEN q[j - 1]
                                      ELSE IF k = 1 THEN NULL ELSE q[k - 1]
  <2> DEFINE x == l.node[q[k]]
  <2>1. /\ x \in NodeRecords
        /\ x.next = IF k = n THEN NULL ELSE q[k + 1]
        /\ x.previous = IF k = 1 THEN NULL ELSE q[k - 1]
    BY <1>1, <1>2 DEF Chain
  <2>2. /\ q[k] = q[j] <=> k = j
        /\ q[k] = q[j - 1] <=> k = j - 1
        /\ q[k] = q[j + 1] <=> k = j + 1
        /\ q[k] = q[n] <=> k = n
    BY <1>2, <1>3
  <2>3. node[q[k]] = [value |-> x.value,
                      previous |-> IF k = j THEN q[n]
                                   ELSE IF k = j + 1 THEN q[j - 1] ELSE x.previous,
                      next |-> IF k = j THEN NULL ELSE IF k = n THEN q[j]
                               ELSE IF k = j - 1 THEN q[j + 1] ELSE x.next]
    BY <1>1, <1>2, <2>1, <2>2 DEF NodeRecords
  <2> HIDE DEF node
  <2> QED
    BY <1>1, <1>2, <1>3, <2>1, <2>3 DEF NodeRecords
<1>7. DOMAIN node = On(q, n) /\ node = [x \in On(q, n) |-> node[x]]
  BY <1>1
<1> HIDE DEF node
<1>8. node \in [On(q, n) -> NodeRecords]
  <2>1. \A x \in On(q, n) : node[x] \in NodeRecords
    BY <1>6 DEF On
  <2> QED
    BY <1>7, <2>1
<1>9. p \in Orders(n) /\ On(p, n) = On(q, n)
  BY <1>1, MovedOrders
<1>10. \A k \in 1 .. n : p[k] = IF k < j THEN q[k] ELSE IF k < n THEN q[k + 1] ELSE q[j]
  BY DEF Moved
<1>11. ASSUME NEW k \in 1 .. n
       PROVE  /\ node[p[k]].next = IF k = n THEN NULL ELSE p[k + 1]
              /\ node[p[k]].previous = IF k = 1 THEN NULL ELSE p[k - 1]
  <2>1. CASE k < j
    <3>1. p[k] = q[k] /\ k # j /\ k # n /\ k # j + 1 /\ k + 1 \in 1 .. n
      BY <1>1, <1>10, <2>1
    <3>2. p[k + 1] = IF k = j - 1 THEN q[j + 1] ELSE q[k + 1]
      BY <1>1, <1>10, <2>1, <3>1
    <3>3. k # 1 => k - 1 \in 1 .. n /\ p[k - 1] = q[k - 1]
      BY <1>1, <1>10, <2>1
    <3> QED
      BY <1>6, <3>1, <3>2, <3>3
  <2>2. CASE ~ (k < j) /\ k < n
    <3>1. /\ p[k] = q[k + 1] /\ k + 1 \in 1 .. n /\ k + 1 # j /\ k + 1 # j - 1 /\ k + 1 # 1
          /\ k - 1 \in 1 .. n /\ (k + 1 = j + 1 <=> k = j) /\ k # 1 /\ k # n
      BY <1>1, <1>10, <2>2
    <3>2. p[k + 1] = IF k + 1 = n THEN q[j] ELSE q[k + 1 + 1]
      BY <1>1, <1>10, <2>2, <3>1
    <3>3. p[k - 1] = IF k = j THEN q[j - 1] ELSE q[k + 1 - 1]
      BY <1>1, <1>10, <2>2, <3>1
    <3> QED
      BY <1>6, <3>1, <3>2, <3>3
  <2>3. CASE k = n
    <3>1. p[k] = q[j] /\ k # 1 /\ k - 1 \in 1 .. n /\ p[k - 1] = q[n]
      BY <1>1, <1>10, <2>3
    <3> QED
      BY <1>6, <2>3, <3>1
  <2> QED
    BY <1>1, <2>1, <2>2, <2>3
<1>12. r.node = node /\ r = [front |-> p[1], back |-> p[n], node |-> r.node]
  BY <1>1, <1>3, <1>5, <1>10
<1>13. Chain(r, p, n)
  BY <1>1, <1>8, <1>9, <1>11, <1>12 DEF Chain
<1>14. \A k \in 1 .. n : ValueOf(r, p, k) = ValueOf(l, q, From(k, n, j))
  <2>1. \A k \in 1 .. n : From(k, n, j) \in 1 .. n /\ p[k] = q[From(k, n, j)]
    BY <1>1, MovedFrom
  <2> QED
    BY <1>6, <1>12, <2>1 DEF ValueOf
<1> QED
  BY <1>13, <1>14

\* move_back takes a node to the end, or, at the front when malloc fails, loses it.
Reordered(l, q, n, j, r) ==
  \E p : /\ Chain(r, p, n)
         /\ \A k \in 1 .. n : ValueOf(r, p, k) = ValueOf(l, q, From(k, n, j))

Shortened(l, q, n, r) ==
  /\ n # 1
  /\ \E p : /\ Chain(r, p, n - 1)
            /\ \A k \in 1 .. (n - 1) : ValueOf(r, p, k) = ValueOf(l, q, k + 1)

LEMMA MoveBackChain ==
  ASSUME NEW l, NEW q, NEW n, Chain(l, q, n), NEW j \in 1 .. n,
         NEW new \in (Nodes \ DOMAIN l.node) \cup {NULL}, NEW r, r = MoveBack(l, q[j], new)
  PROVE  Reordered(l, q, n, j, r) \/ (j = 1 /\ Shortened(l, q, n, r))
<1>1. /\ n \in Nat \ {0} /\ q \in Orders(n) /\ l.front = q[1] /\ l.back = q[n]
      /\ 1 \in 1 .. n /\ n \in 1 .. n
      /\ l.node \in [On(q, n) -> NodeRecords] /\ DOMAIN l.node = On(q, n)
  BY DEF Chain
<1>2. /\ \A k \in 1 .. n : q[k] \in On(q, n) /\ q[k] \in Nodes
      /\ \A i, k \in 1 .. n : q[i] = q[k] => i = k
  BY <1>1 DEF On, Orders
<1>3. ~ IsEmpty(l)
  BY ChainWellLinked
<1>4. CASE n = 1 \/ j = n
  <2>1. r = l
    BY <1>1, <1>4 DEF MoveBack
  <2>2. \A k \in 1 .. n : From(k, n, j) = k
    BY <1>1, <1>4 DEF From
  <2> QED
    BY <2>1, <2>2 DEF Reordered
<1>5. CASE n # 1 /\ j # n /\ j # 1
  <2>1. l.front # l.back /\ l.back # q[j] /\ l.front # q[j]
    BY <1>1, <1>2, <1>5
  <2>2. l.node[q[j]].next # NULL
    <3>1. j + 1 \in 1 .. n /\ l.node[q[j]].next = q[j + 1]
      BY <1>1, <1>5 DEF Chain
    <3> QED
      BY <1>2, <3>1, LinesAssumption
  <2>3. r = Relink(l, q[j])
    BY <1>3, <2>1, <2>2 DEF MoveBack
  <2> QED
    BY <1>5, <2>3, RelinkChain DEF Reordered
<1>6. CASE n # 1 /\ j = 1
  <2> DEFINE value == l.node[q[1]].value
             s == PushBack(l, new, value)
  <2>1. l.front # l.back /\ l.back # q[j] /\ l.front = q[j]
    BY <1>1, <1>2, <1>6
  <2>2. r = PopFront(s)
    BY <1>3, <1>6, <2>1 DEF MoveBack
  <2>3. value \in Contents /\ value = ValueOf(l, q, 1)
    BY <1>1, <1>2 DEF NodeRecords, ValueOf
  <2>4. CASE new = NULL
    <3>1. s = l
      BY <2>4 DEF PushBack
    <3> DEFINE p == [k \in 1 .. (n - 1) |-> q[k + 1]]
    <3>2. /\ Chain(r, p, n - 1)
          /\ \A k \in 1 .. (n - 1) : ValueOf(r, p, k) = ValueOf(l, q, k + 1)
      <4> HIDE DEF s
      <4> QED
        BY <1>6, <2>2, <3>1, PopFrontChain
    <3> QED
      BY <1>6, <3>2 DEF Shortened
  <2>5. CASE new # NULL
    <3> DEFINE m == n + 1
               u == [k \in 1 .. (n + 1) |-> IF k = n + 1 THEN new ELSE q[k]]
               p == [k \in 1 .. (m - 1) |-> u[k + 1]]
    <3>1. new \in Nodes \ DOMAIN l.node
      BY <2>5
    <3> HIDE DEF value
    <3>2. /\ Chain(s, u, n + 1)
          /\ \A k \in 1 .. n : ValueOf(s, u, k) = ValueOf(l, q, k)
          /\ ValueOf(s, u, n + 1) = value
      BY <2>3, <3>1, PushBackChain
    <3> HIDE DEF s, u
    <3>3. /\ Chain(r, p, m - 1)
          /\ \A k \in 1 .. (m - 1) : ValueOf(r, p, k) = ValueOf(s, u, k + 1)
      <4>1. m # 1 /\ Chain(s, u, m)
        BY <1>1, <3>2
      <4> HIDE DEF m
      <4> QED
        BY <2>2, <4>1, PopFrontChain
    <3> HIDE DEF p
    <3>4. m - 1 = n
      BY <1>1
    <3> HIDE DEF m
    <3>5. ASSUME NEW k \in 1 .. n PROVE ValueOf(r, p, k) = ValueOf(l, q, From(k, n, j))
      <4>1. ValueOf(r, p, k) = ValueOf(s, u, k + 1)
        BY <3>3, <3>4
      <4>2. CASE k = n
        <5>1. From(k, n, j) = 1
          BY <1>1, <1>6, <4>2 DEF From
        <5> QED
          BY <2>3, <3>2, <4>1, <4>2, <5>1
      <4>3. CASE k # n
        <5>1. From(k, n, j) = k + 1 /\ k + 1 \in 1 .. n
          BY <1>1, <1>6, <4>3 DEF From
        <5> QED
          BY <3>2, <4>1, <5>1
      <4> QED
        BY <4>2, <4>3
    <3> QED
      BY <3>3, <3>4, <3>5 DEF Reordered
  <2> QED
    BY <2>4, <2>5
<1> QED
  BY <1>4, <1>5, <1>6

\* The same, of the values that a search of the list comes by.
Listed(l) == \E q, n : Chain(l, q, n)

LEMMA ReorderedValues ==
  ASSUME NEW l, NEW q, NEW n, Chain(l, q, n), NEW j \in 1 .. n,
         NEW r, Reordered(l, q, n, j, r)
  PROVE  Listed(r) /\ Values(r) = Moved(Values(l), n, j)
<1>1. n \in Nat \ {0}
  BY DEF Chain
<1>2. Values(l) = [k \in 1 .. n |-> ValueOf(l, q, k)]
  BY ChainValuesOf
<1>3. PICK p : /\ Chain(r, p, n)
               /\ \A k \in 1 .. n : ValueOf(r, p, k) = ValueOf(l, q, From(k, n, j))
  BY DEF Reordered
<1>4. Values(r) = [k \in 1 .. n |-> ValueOf(r, p, k)]
  BY <1>3, ChainValuesOf
<1>5. \A k \in 1 .. n : /\ From(k, n, j) \in 1 .. n
                        /\ Moved(Values(l), n, j)[k] = Values(l)[From(k, n, j)]
  BY <1>1, MovedFrom
<1>6. \A k \in 1 .. n : Moved(Values(l), n, j)[k] = ValueOf(r, p, k)
  BY <1>2, <1>3, <1>5
<1>7. Moved(Values(l), n, j) = [k \in 1 .. n |-> Moved(Values(l), n, j)[k]]
  BY DEF Moved
<1>8. Values(r) = Moved(Values(l), n, j)
  BY <1>4, <1>6, <1>7
<1> QED
  BY <1>3, <1>8 DEF Listed

LEMMA ShortenedValues ==
  ASSUME NEW l, NEW q, NEW n, Chain(l, q, n), NEW r, Shortened(l, q, n, r)
  PROVE  Listed(r) /\ n # 1 /\ Values(r) = [k \in 1 .. (n - 1) |-> Values(l)[k + 1]]
<1>1. n \in Nat \ {0}
  BY DEF Chain
<1>2. Values(l) = [k \in 1 .. n |-> ValueOf(l, q, k)]
  BY ChainValuesOf
<1>3. PICK p : /\ Chain(r, p, n - 1)
               /\ \A k \in 1 .. (n - 1) : ValueOf(r, p, k) = ValueOf(l, q, k + 1)
  BY DEF Shortened
<1>4. Values(r) = [k \in 1 .. (n - 1) |-> ValueOf(r, p, k)]
  BY <1>3, ChainValuesOf
<1>5. \A k \in 1 .. (n - 1) : k + 1 \in 1 .. n
  BY <1>1
<1>6. \A k \in 1 .. (n - 1) : Values(l)[k + 1] = ValueOf(r, p, k)
  BY <1>2, <1>3, <1>5
<1>7. Values(r) = [k \in 1 .. (n - 1) |-> Values(l)[k + 1]]
  BY <1>4, <1>6
<1> QED
  BY <1>3, <1>7 DEF Listed, Shortened

-----------------------------------------------------------------------------
(* The list the driver makes: the line numbers, in order. *)

Addrs == {node \in [LineIdx -> Nodes] : \A i, j \in LineIdx : node[i] = node[j] => i = j}

Used(node, k) == {node[i] : i \in 0 .. (k - 1)}

\* The node of line i in a list of k lines, and that list.
LineNode(node, k, i) ==
  [value |-> i,
   previous |-> IF i = 0 THEN NULL ELSE node[i - 1],
   next |-> IF i = k - 1 THEN NULL ELSE node[i + 1]]

LineOf(node, k, x) == CHOOSE i \in 0 .. (k - 1) : node[i] = x

LineList(node, k) ==
  IF k = 0 THEN EmptyList
  ELSE [front |-> node[0], back |-> node[k - 1],
        node |-> [x \in Used(node, k) |-> LineNode(node, k, LineOf(node, k, x))]]

LEMMA LineListNodes ==
  ASSUME NEW node \in Addrs, NEW k \in 1 .. TLB_LINES
  PROVE  /\ LineList(node, k).front = node[0] /\ LineList(node, k).back = node[k - 1]
         /\ DOMAIN LineList(node, k).node = Used(node, k)
         /\ \A i \in 0 .. (k - 1) : LineList(node, k).node[node[i]] = LineNode(node, k, i)
         /\ \A i \in 0 .. (k - 1) : node[i] \in Nodes /\ node[i] # NULL
         /\ \A i, j \in 0 .. (k - 1) : node[i] = node[j] => i = j
<1> DEFINE f == [x \in Used(node, k) |-> LineNode(node, k, LineOf(node, k, x))]
<1>1. LineList(node, k) = [front |-> node[0], back |-> node[k - 1], node |-> f]
  BY DEF LineList
<1>2. \A i \in 0 .. (k - 1) : i \in LineIdx
  BY LinesAssumption DEF LineIdx
<1>3. \A i \in 0 .. (k - 1) : node[i] \in Nodes /\ node[i] # NULL
  BY <1>2, LinesAssumption DEF Addrs
<1>4. \A i, j \in 0 .. (k - 1) : node[i] = node[j] => i = j
  BY <1>2 DEF Addrs
<1>5. ASSUME NEW i \in 0 .. (k - 1) PROVE f[node[i]] = LineNode(node, k, i)
  <2>1. LineOf(node, k, node[i]) = i
    BY <1>4 DEF LineOf
  <2>2. node[i] \in Used(node, k)
    BY DEF Used
  <2> QED
    BY <2>1, <2>2
<1>6. DOMAIN f = Used(node, k)
  OBVIOUS
<1> HIDE DEF f
<1> QED
  BY <1>1, <1>3, <1>4, <1>5, <1>6

\* One more push_back makes it the list of one more line.
LEMMA LineListPush ==
  ASSUME NEW node \in Addrs, NEW k \in 1 .. TLB_LINES
  PROVE  LineList(node, k) = PushBack(LineList(node, k - 1), node[k - 1], k - 1)
<1> DEFINE l == LineList(node, k - 1)
           new == node[k - 1]
           f == LineList(node, k).node
           g == [x \in DOMAIN l.node \cup {new} |->
                   CASE x = new -> [value |-> k - 1, previous |-> l.back, next |-> NULL]
                     [] x = l.back /\ x # new -> [l.node[x] EXCEPT !.next = new]
                     [] OTHER -> l.node[x]]
<1>1. /\ DOMAIN f = Used(node, k)
      /\ \A i \in 0 .. (k - 1) : f[node[i]] = LineNode(node, k, i)
      /\ \A i \in 0 .. (k - 1) : node[i] \in Nodes /\ node[i] # NULL
      /\ \A i, j \in 0 .. (k - 1) : node[i] = node[j] => i = j
  BY LineListNodes
<1>2. LineList(node, k) = [front |-> node[0], back |-> new, node |-> f]
  BY DEF LineList
<1>3. f = [x \in Used(node, k) |-> f[x]]
  BY DEF LineList
<1>4. k - 1 \in 0 .. (k - 1) /\ new # NULL
  BY <1>1
<1>5. CASE k = 1
  <2>1. l = EmptyList /\ DOMAIN l.node = {} /\ l.back = NULL /\ IsEmpty(l)
    BY <1>5 DEF LineList, EmptyList, IsEmpty
  <2>2. Used(node, k) = {new}
    BY <1>5 DEF Used
  <2>3. g = [x \in {new} |-> [value |-> 0, previous |-> NULL, next |-> NULL]]
    BY <1>5, <2>1
  <2>4. f[new] = [value |-> 0, previous |-> NULL, next |-> NULL]
    BY <1>1, <1>4, <1>5 DEF LineNode
  <2>5. PushBack(l, new, k - 1) = [front |-> new, back |-> new, node |-> g]
    BY <1>4, <2>1 DEF PushBack
  <2>6. new = node[0]
    BY <1>5
  <2> HIDE DEF f, g, l, new
  <2>7. f = g
    BY <1>3, <2>2, <2>3, <2>4
  <2>8. PushBack(l, new, k - 1) = LineList(node, k)
    BY <1>2, <2>5, <2>6, <2>7
  <2> QED
    BY <2>8 DEF l, new
<1>6. CASE k # 1
  <2>1. k - 1 \in 1 .. TLB_LINES
    BY <1>6, LinesAssumption
  <2>2. /\ l.front = node[0] /\ l.back = node[k - 2]
        /\ DOMAIN l.node = Used(node, k - 1)
        /\ \A i \in 0 .. (k - 2) : l.node[node[i]] = LineNode(node, k - 1, i)
        /\ \A i \in 0 .. (k - 2) : node[i] \in Nodes /\ node[i] # NULL
    <3>1. k - 1 - 1 = k - 2
      OBVIOUS
    <3> QED
      BY <2>1, <3>1, LineListNodes
  <2>3. ~ IsEmpty(l)
    BY <1>6, <2>2 DEF IsEmpty
  <2> HIDE DEF l
  <2>4. PushBack(l, new, k - 1) = [front |-> node[0], back |-> new, node |-> g]
    BY <1>4, <2>2, <2>3 DEF PushBack
  <2>5. Used(node, k - 1) \cup {new} = Used(node, k)
    <3>1. Used(node, k) \subseteq Used(node, k - 1) \cup {new}
      BY DEF Used
    <3>2. Used(node, k - 1) \cup {new} \subseteq Used(node, k)
      BY <1>4 DEF Used
    <3> QED
      BY <3>1, <3>2
  <2>6. DOMAIN g = Used(node, k) /\ g = [x \in Used(node, k) |-> g[x]]
    BY <2>2, <2>5
  <2>7. ASSUME NEW i \in 0 .. (k - 1) PROVE g[node[i]] = LineNode(node, k, i)
    <3>1. node[i] \in Used(node, k)
      BY DEF Used
    <3>2. CASE i = k - 1
      <4>1. g[node[i]] = [value |-> k - 1, previous |-> l.back, next |-> NULL]
        BY <2>2, <2>5, <3>1, <3>2
      <4>2. i # 0 /\ i - 1 = k - 2
        BY <1>6, <3>2
      <4> HIDE DEF g
      <4> QED
        BY <2>2, <3>2, <4>1, <4>2 DEF LineNode
    <3>3. CASE i = k - 2
      <4>1. node[i] # new /\ i \in 0 .. (k - 2) /\ i # k - 1 /\ i + 1 = k - 1 /\ i = k - 1 - 1
        BY <1>1, <1>4, <1>6, <3>3
      <4>2. g[node[i]] = [l.node[node[i]] EXCEPT !.next = new]
        BY <2>2, <2>5, <3>1, <3>3, <4>1
      <4>3. l.node[node[i]] = LineNode(node, k - 1, i)
        BY <2>2, <4>1
      <4>4. LineNode(node, k - 1, i) =
              [value |-> i, previous |-> IF i = 0 THEN NULL ELSE node[i - 1], next |-> NULL]
        BY <4>1 DEF LineNode
      <4>5. LineNode(node, k, i) =
              [value |-> i, previous |-> IF i = 0 THEN NULL ELSE node[i - 1], next |-> new]
        BY <4>1 DEF LineNode
      <4> HIDE DEF g, new
      <4> QED
        BY <4>2, <4>3, <4>4, <4>5
    <3>4. CASE i # k - 1 /\ i # k - 2
      <4>1. /\ i \in 0 .. (k - 2) /\ k - 2 \in 0 .. (k - 1) /\ i # k - 1 - 1
            /\ node[i] # new /\ node[i] # node[k - 2]
        BY <1>1, <1>4, <1>6, <3>4
      <4>2. g[node[i]] = l.node[node[i]]
        BY <2>2, <2>5, <3>1, <4>1
      <4> HIDE DEF g, new
      <4> QED
        BY <2>2, <3>4, <4>1, <4>2 DEF LineNode
    <3> QED
      BY <3>2, <3>3, <3>4
  <2> HIDE DEF f, g, new
  <2>8. f = g
    <3>1. \A x \in Used(node, k) : f[x] = g[x]
      BY <1>1, <2>7 DEF Used
    <3> QED
      BY <1>3, <2>6, <3>1
  <2>9. PushBack(l, new, k - 1) = LineList(node, k)
    BY <1>2, <2>4, <2>8
  <2> QED
    BY <2>9 DEF l, new
<1> QED
  BY <1>5, <1>6

\* The recursive definition of FullList, and its only solution.
Pushed(node, f) ==
  [k \in 0 .. TLB_LINES |->
     IF k = 0 THEN EmptyList ELSE PushBack(f[k - 1], node[k - 1], k - 1)]

IsFilling(node, f) == f = Pushed(node, f)

LEMMA FillingIs ==
  ASSUME NEW node \in Addrs, NEW f, IsFilling(node, f)
  PROVE  f[TLB_LINES] = LineList(node, TLB_LINES)
<1> DEFINE g == [k \in 0 .. TLB_LINES |-> LineList(node, k)]
<1>1. f[0] = g[0]
  BY LinesAssumption DEF IsFilling, Pushed, LineList
<1>2. ASSUME NEW k \in 1 .. TLB_LINES, f[k - 1] = g[k - 1] PROVE f[k] = g[k]
  <2>1. k \in 0 .. TLB_LINES /\ k - 1 \in 0 .. TLB_LINES /\ k # 0
    BY LinesAssumption
  <2>2. f[k] = PushBack(f[k - 1], node[k - 1], k - 1)
    BY <2>1, Zenon DEF IsFilling, Pushed
  <2>3. g[k - 1] = LineList(node, k - 1) /\ g[k] = LineList(node, k)
    BY <2>1
  <2> HIDE DEF g
  <2> QED
    BY <1>2, <2>2, <2>3, LineListPush
<1>3. TLB_LINES \in Nat /\ TLB_LINES \in 0 .. TLB_LINES
  BY LinesAssumption
<1> HIDE DEF g
<1>4. \A k \in 0 .. TLB_LINES : f[k] = g[k]
  BY <1>1, <1>2, <1>3, SameSteps
<1> QED
  BY <1>3, <1>4 DEF g

\* The list a run starts with: a chain of all the lines, in order.
LEMMA FullListChain ==
  ASSUME FullList
  PROVE  /\ \E q : Chain(ll, q, TLB_LINES)
         /\ Values(ll) = [k \in 1 .. TLB_LINES |-> k - 1]
<1> DEFINE L == TLB_LINES
<1>1. \E node \in Addrs : ll = (CHOOSE f : f = Pushed(node, f))[L]
  BY DEF FullList, Addrs, Pushed
<1>2. PICK node \in Addrs : ll = (CHOOSE f : f = Pushed(node, f))[L]
  BY <1>1
<1> DEFINE filled == CHOOSE f : f = Pushed(node, f)
           q == [k \in 1 .. L |-> node[k - 1]]
<1>3. IsFilling(node, filled)
  <2> DEFINE g == [k \in 0 .. L |-> LineList(node, k)]
  <2>1. g = Pushed(node, g)
    <3>1. ASSUME NEW k \in 0 .. L PROVE g[k] = Pushed(node, g)[k]
      <4>1. CASE k = 0
        BY <4>1 DEF Pushed, LineList
      <4>2. CASE k # 0
        <5>1. k \in 1 .. L /\ k - 1 \in 0 .. L
          BY <4>2, LinesAssumption
        <5>2. g[k - 1] = LineList(node, k - 1) /\ g[k] = LineList(node, k)
          BY <5>1
        <5>3. Pushed(node, g)[k] = PushBack(g[k - 1], node[k - 1], k - 1)
          BY <4>2, Zenon DEF Pushed
        <5> HIDE DEF g
        <5> QED
          BY <5>1, <5>2, <5>3, LineListPush
      <4> QED
        BY <4>1, <4>2
    <3>2. Pushed(node, g) = [k \in 0 .. L |-> Pushed(node, g)[k]]
      BY DEF Pushed
    <3>3. g = [k \in 0 .. L |-> g[k]]
      OBVIOUS
    <3> HIDE DEF g
    <3> QED
      BY <3>1, <3>2, <3>3
  <2> HIDE DEF g
  <2>2. filled = Pushed(node, filled)
    BY <2>1, Zenon
  <2> QED
    BY <2>2 DEF IsFilling
<1> HIDE DEF filled
<1>4. ll = LineList(node, L)
  BY <1>2, <1>3, FillingIs DEF filled
<1>5. L \in Nat \ {0} /\ L \in 1 .. L
  BY LinesAssumption
<1>6. /\ ll.front = node[0] /\ ll.back = node[L - 1]
      /\ DOMAIN ll.node = Used(node, L)
      /\ \A i \in 0 .. (L - 1) : ll.node[node[i]] = LineNode(node, L, i)
      /\ \A i \in 0 .. (L - 1) : node[i] \in Nodes /\ node[i] # NULL
      /\ \A i, j \in 0 .. (L - 1) : node[i] = node[j] => i = j
  BY <1>4, <1>5, LineListNodes
<1>7. ll = [front |-> node[0], back |-> node[L - 1], node |-> ll.node]
      /\ ll.node = [x \in Used(node, L) |-> ll.node[x]]
  BY <1>4, <1>5 DEF LineList
<1> HIDE DEF L
<1>8. \A k \in 1 .. L : k - 1 \in 0 .. (L - 1) /\ q[k] = node[k - 1]
  BY <1>5
<1>9. q \in Orders(L)
  <2>1. q \in [1 .. L -> Nodes]
    BY <1>6, <1>8
  <2>2. \A i, j \in 1 .. L : q[i] = q[j] => i = j
    BY <1>6, <1>8
  <2> QED
    BY <2>1, <2>2 DEF Orders
<1>10. On(q, L) = Used(node, L)
  <2>1. On(q, L) \subseteq Used(node, L)
    BY <1>8 DEF On, Used
  <2>2. ASSUME NEW i \in 0 .. (L - 1) PROVE node[i] \in On(q, L)
    <3>1. i + 1 \in 1 .. L /\ i + 1 - 1 = i
      BY <1>5
    <3> QED
      BY <1>8, <3>1 DEF On
  <2> QED
    BY <2>1, <2>2 DEF Used
<1> HIDE DEF q
<1>11. ASSUME NEW k \in 1 .. L
       PROVE  /\ ll.node[q[k]] \in NodeRecords
              /\ ll.node[q[k]].value = k - 1
              /\ ll.node[q[k]].next = IF k = L THEN NULL ELSE q[k + 1]
              /\ ll.node[q[k]].previous = IF k = 1 THEN NULL ELSE q[k - 1]
  <2> DEFINE i == k - 1
  <2>1. ll.node[q[k]] = LineNode(node, L, i)
    BY <1>6, <1>8
  <2>2. i = L - 1 <=> k = L
    BY <1>5
  <2>3. i = 0 <=> k = 1
    BY <1>5
  <2>4. k # 1 => i - 1 \in 0 .. (L - 1) /\ q[k - 1] = node[i - 1]
    <3>1. k # 1 => k - 1 \in 1 .. L
      BY <1>5
    <3> QED
      BY <1>5, <1>8, <3>1
  <2>5. k # L => i + 1 \in 0 .. (L - 1) /\ q[k + 1] = node[i + 1]
    <3>1. k # L => k + 1 \in 1 .. L /\ k + 1 - 1 = i + 1
      BY <1>5
    <3> QED
      BY <1>5, <1>8, <3>1
  <2>6. i \in LineIdx /\ i \in Contents /\ i = k - 1
    BY <1>5 DEF LineIdx, L, Contents
  <2> HIDE DEF i
  <2> QED
    BY <1>6, <2>1, <2>2, <2>3, <2>4, <2>5, <2>6 DEF LineNode, NodeRecords
<1>12. ll.node \in [On(q, L) -> NodeRecords]
  <2>1. \A x \in On(q, L) : ll.node[x] \in NodeRecords
    BY <1>11 DEF On
  <2> QED
    BY <1>7, <1>10, <2>1
<1>13. ll = [front |-> q[1], back |-> q[L], node |-> ll.node]
  <2>1. q[1] = node[0] /\ q[L] = node[L - 1]
    BY <1>5, <1>8
  <2> QED
    BY <1>7, <2>1
<1>14. Chain(ll, q, L)
  BY <1>5, <1>9, <1>11, <1>12, <1>13 DEF Chain
<1>15. Values(ll) = [k \in 1 .. L |-> k - 1]
  <2>1. Values(ll) = [k \in 1 .. L |-> ValueOf(ll, q, k)]
    BY <1>14, ChainValuesOf
  <2> QED
    BY <1>11, <2>1 DEF ValueOf
<1> QED
  BY <1>14, <1>15 DEF L

-----------------------------------------------------------------------------
(***************************************************************************)
(* The searches.  An order o of n lines, with the entries t: no line is    *)
(* twice on it, no free line comes after one in use, and no page has two   *)
(* of its lines.                                                           *)
(***************************************************************************)
Order(o, n, t) ==
  /\ n \in Nat \ {0} /\ o \in [1 .. n -> LineIdx]
  /\ \A i, j \in 1 .. n : o[i] = o[j] => i = j
  /\ \A i, j \in 1 .. n : i < j /\ t[o[i]].v = 1 => t[o[j]].v = 1
  /\ \A i, j \in 1 .. n :
       t[o[i]].v = 1 /\ t[o[j]].v = 1 /\ t[o[i]].tag = t[o[j]].tag => i = j

\* What a move_back of the j-th makes of an order of n.
MovedTo(o, n, j, w) ==
  \/ w = Moved(o, n, j)
  \/ n # 1 /\ j = 1 /\ w = [k \in 1 .. (n - 1) |-> o[k + 1]]

\* A used line may move, or be lost: the rest keeps its order.
LEMMA UseKeepsOrder ==
  ASSUME NEW o, NEW n, NEW t, Order(o, n, t), NEW j \in 1 .. n, t[o[j]].v = 1,
         NEW w, MovedTo(o, n, j, w)
  PROVE  \E m : Order(w, m, t)
<1>1. n \in Nat \ {0} /\ o \in [1 .. n -> LineIdx]
  BY DEF Order
<1>2. CASE w = Moved(o, n, j)
  <2>1. /\ \A k \in 1 .. n : From(k, n, j) \in 1 .. n /\ w[k] = o[From(k, n, j)]
        /\ \A k, m \in 1 .. n : From(k, n, j) = From(m, n, j) => k = m
    <3>1. \A k \in 1 .. n : /\ From(k, n, j) \in 1 .. n
                            /\ Moved(o, n, j)[k] = o[From(k, n, j)]
      BY <1>1, MovedFrom
    <3>2. \A k, m \in 1 .. n : From(k, n, j) = From(m, n, j) => k = m
      BY <1>1, MovedFrom
    <3> QED
      BY <1>2, <3>1, <3>2
  <2>2. w \in [1 .. n -> LineIdx]
    <3>1. w = [k \in 1 .. n |-> w[k]]
      BY <1>2 DEF Moved
    <3> QED
      BY <1>1, <2>1, <3>1
  <2>3. \A i, k \in 1 .. n : w[i] = w[k] => i = k
    BY <2>1 DEF Order
  <2>4. ASSUME NEW i \in 1 .. n, NEW k \in 1 .. n, i < k, t[w[i]].v = 1 PROVE t[w[k]].v = 1
    <3>1. From(i, n, j) < From(k, n, j) \/ From(k, n, j) = j
      BY <1>1, <2>4 DEF From
    <3>2. CASE From(k, n, j) = j
      BY <2>1, <3>2
    <3>3. CASE From(i, n, j) < From(k, n, j)
      <4>1. /\ From(i, n, j) \in 1 .. n /\ w[i] = o[From(i, n, j)]
            /\ From(k, n, j) \in 1 .. n /\ w[k] = o[From(k, n, j)]
        BY <2>1
      <4>2. t[o[From(i, n, j)]].v = 1 => t[o[From(k, n, j)]].v = 1
        BY <3>3, <4>1 DEF Order
      <4> QED
        BY <2>4, <4>1, <4>2
    <3> QED
      BY <3>1, <3>2, <3>3
  <2>5. \A i, k \in 1 .. n :
          t[w[i]].v = 1 /\ t[w[k]].v = 1 /\ t[w[i]].tag = t[w[k]].tag => i = k
    BY <2>1 DEF Order
  <2> QED
    BY <1>1, <2>2, <2>3, <2>4, <2>5 DEF Order
<1>3. CASE n # 1 /\ j = 1 /\ w = [k \in 1 .. (n - 1) |-> o[k + 1]]
  <2>1. \A k \in 1 .. (n - 1) : k + 1 \in 1 .. n /\ w[k] = o[k + 1]
    BY <1>1, <1>3
  <2>2. w \in [1 .. (n - 1) -> LineIdx]
    BY <1>1, <1>3, <2>1
  <2>3. n - 1 \in Nat \ {0}
    BY <1>1, <1>3
  <2>4. \A i, k \in 1 .. (n - 1) : (i + 1 = k + 1 => i = k) /\ (i < k => i + 1 < k + 1)
    BY <1>1
  <2>5. \A i, k \in 1 .. (n - 1) : w[i] = w[k] => i = k
    BY <2>1, <2>4 DEF Order
  <2>6. \A i, k \in 1 .. (n - 1) : i < k /\ t[w[i]].v = 1 => t[w[k]].v = 1
    BY <2>1, <2>4 DEF Order
  <2>7. \A i, k \in 1 .. (n - 1) :
          t[w[i]].v = 1 /\ t[w[k]].v = 1 /\ t[w[i]].tag = t[w[k]].tag => i = k
    BY <2>1, <2>4 DEF Order
  <2> QED
    BY <2>2, <2>3, <2>5, <2>6, <2>7 DEF Order
<1> QED
  BY <1>2, <1>3 DEF MovedTo

\* The line at the front, rewritten for a page that no line has, likewise.
LEMMA LoadKeepsOrder ==
  ASSUME NEW o, NEW n, NEW t \in [LineIdx -> Entry], Order(o, n, t),
         NEW e \in Entry, e.v = 1,
         \A i \in 1 .. n : ~ (t[o[i]].v = 1 /\ t[o[i]].tag = e.tag),
         NEW w, MovedTo(o, n, 1, w)
  PROVE  \E m : Order(w, m, [t EXCEPT ![o[1]] = e])
<1> DEFINE u == [t EXCEPT ![o[1]] = e]
<1>1. n \in Nat \ {0} /\ o \in [1 .. n -> LineIdx] /\ 1 \in 1 .. n
  BY DEF Order
<1>2. u[o[1]] = e /\ \A k \in 1 .. n : k # 1 => u[o[k]] = t[o[k]]
  <2>1. \A k \in 1 .. n : o[k] \in LineIdx /\ (o[k] = o[1] => k = 1)
    BY <1>1 DEF Order
  <2> QED
    BY <1>1, <2>1
<1> HIDE DEF u
<1>3. \A i, k \in 1 .. n : o[i] = o[k] => i = k
  BY DEF Order
<1>4. \A i, k \in 1 .. n : i # 1 /\ i < k /\ u[o[i]].v = 1 => u[o[k]].v = 1
  <2>1. \A i, k \in 1 .. n : i < k => k # 1
    OBVIOUS
  <2> QED
    BY <1>2, <2>1 DEF Order
<1>5. \A i, k \in 1 .. n :
        u[o[i]].v = 1 /\ u[o[k]].v = 1 /\ u[o[i]].tag = u[o[k]].tag => i = k
  BY <1>2 DEF Order
<1>6. CASE w = Moved(o, n, 1)
  <2>1. /\ \A k \in 1 .. n : From(k, n, 1) \in 1 .. n /\ w[k] = o[From(k, n, 1)]
        /\ \A k, m \in 1 .. n : From(k, n, 1) = From(m, n, 1) => k = m
    <3>1. \A k \in 1 .. n : /\ From(k, n, 1) \in 1 .. n
                            /\ Moved(o, n, 1)[k] = o[From(k, n, 1)]
      BY <1>1, MovedFrom
    <3>2. \A k, m \in 1 .. n : From(k, n, 1) = From(m, n, 1) => k = m
      BY <1>1, MovedFrom
    <3> QED
      BY <1>6, <3>1, <3>2
  <2>2. w \in [1 .. n -> LineIdx]
    <3>1. w = [k \in 1 .. n |-> w[k]]
      BY <1>6 DEF Moved
    <3> QED
      BY <1>1, <2>1, <3>1
  <2>3. \A i, k \in 1 .. n : w[i] = w[k] => i = k
    BY <1>3, <2>1
  <2>4. ASSUME NEW i \in 1 .. n, NEW k \in 1 .. n, i < k, u[w[i]].v = 1 PROVE u[w[k]].v = 1
    <3>1. /\ From(i, n, 1) # 1
          /\ From(i, n, 1) < From(k, n, 1) \/ From(k, n, 1) = 1
      BY <1>1, <2>4 DEF From
    <3>2. CASE From(k, n, 1) = 1
      BY <1>2, <2>1, <3>2
    <3>3. CASE From(i, n, 1) < From(k, n, 1)
      BY <1>4, <2>1, <2>4, <3>1, <3>3
    <3> QED
      BY <3>1, <3>2, <3>3
  <2>5. \A i, k \in 1 .. n :
          u[w[i]].v = 1 /\ u[w[k]].v = 1 /\ u[w[i]].tag = u[w[k]].tag => i = k
    BY <1>5, <2>1
  <2>6. Order(w, n, u)
    BY <1>1, <2>2, <2>3, <2>4, <2>5 DEF Order
  <2> QED
    BY <2>6 DEF u
<1>7. CASE n # 1 /\ w = [k \in 1 .. (n - 1) |-> o[k + 1]]
  <2>1. \A k \in 1 .. (n - 1) : k + 1 \in 1 .. n /\ k + 1 # 1 /\ w[k] = o[k + 1]
    BY <1>1, <1>7
  <2>2. w \in [1 .. (n - 1) -> LineIdx]
    BY <1>1, <1>7, <2>1
  <2>3. n - 1 \in Nat \ {0}
    BY <1>1, <1>7
  <2>4. \A i, k \in 1 .. (n - 1) : (i + 1 = k + 1 => i = k) /\ (i < k => i + 1 < k + 1)
    BY <1>1
  <2>5. \A i, k \in 1 .. (n - 1) : w[i] = w[k] => i = k
    BY <1>3, <2>1, <2>4
  <2>6. \A i, k \in 1 .. (n - 1) : i < k /\ u[w[i]].v = 1 => u[w[k]].v = 1
    BY <1>4, <2>1, <2>4
  <2>7. \A i, k \in 1 .. (n - 1) :
          u[w[i]].v = 1 /\ u[w[k]].v = 1 /\ u[w[i]].tag = u[w[k]].tag => i = k
    BY <1>5, <2>1, <2>4
  <2>8. Order(w, n - 1, u)
    BY <2>2, <2>3, <2>5, <2>6, <2>7 DEF Order
  <2> QED
    BY <2>8 DEF u
<1> QED
  BY <1>6, <1>7 DEF MovedTo

\* A chain holds the order of its values.
LEMMA ChainHolds ==
  ASSUME NEW q, NEW n, Chain(ll, q, n)
  PROVE  /\ n \in Nat \ {0} /\ q \in Orders(n) /\ DOMAIN ll.node = On(q, n) /\ ll.front = q[1]
         /\ Backward(ll) = [k \in 1 .. n |-> q[n + 1 - k]]
         /\ Values(ll) \in [1 .. n -> Contents]
         /\ \A k \in 1 .. n : Values(ll)[k] = ll.node[q[k]].value
         /\ \A m \in DOMAIN ll.node : \E k \in 1 .. n : q[k] = m
<1>1. /\ n \in Nat \ {0} /\ q \in Orders(n) /\ DOMAIN ll.node = On(q, n) /\ ll.front = q[1]
      /\ ll.node \in [On(q, n) -> NodeRecords]
  BY DEF Chain
<1>2. Backward(ll) = [k \in 1 .. n |-> q[n + 1 - k]]
  BY ChainBackward
<1>3. Values(ll) = [k \in 1 .. n |-> ll.node[q[k]].value]
  BY ChainValues
<1>4. \A k \in 1 .. n : ll.node[q[k]].value \in Contents
  BY <1>1 DEF On, NodeRecords
<1>5. Values(ll) \in [1 .. n -> Contents]
  BY <1>3, <1>4
<1>6. \A k \in 1 .. n : Values(ll)[k] = ll.node[q[k]].value
  BY <1>3
<1>7. \A m \in DOMAIN ll.node : \E k \in 1 .. n : q[k] = m
  BY <1>1 DEF On
<1> QED
  BY <1>1, <1>2, <1>5, <1>6, <1>7

Uses(k, vpn) == tlb[Values(ll)[k]].v = 1 /\ tlb[Values(ll)[k]].tag = vpn

\* A search that hits finds a line in use for its page; one that misses, none.
LEMMA HitsAre ==
  ASSUME NEW q, NEW n, Chain(ll, q, n), NEW vpn
  PROVE  /\ Hits(vpn) = {} => \A k \in 1 .. n : ~ Uses(k, vpn)
         /\ Hits(vpn) # {} => \E k \in 1 .. n : HitNode(vpn) = q[k] /\ Uses(k, vpn)
<1> DEFINE b == Backward(ll)
           H == Hits(vpn)
<1>1. n \in Nat \ {0} /\ DOMAIN b = 1 .. n /\ \A k \in 1 .. n : b[k] = q[n + 1 - k]
  BY ChainHolds
<1>2. \A k \in 1 .. n : n + 1 - k \in 1 .. n /\ n + 1 - (n + 1 - k) = k
  BY <1>1
<1>3. \A k \in 1 .. n : Values(ll)[k] = ll.node[q[k]].value
  BY ChainHolds
<1>4. \A k \in 1 .. n : k \in H <=> Uses(n + 1 - k, vpn)
  <2>1. \A k \in 1 .. n : ll.node[b[k]].value = Values(ll)[n + 1 - k]
    BY <1>1, <1>2, <1>3
  <2> QED
    BY <1>1, <2>1 DEF Hits, Matches, Uses
<1>5. H \subseteq 1 .. n
  BY <1>1 DEF Hits
<1>6. ASSUME H = {} PROVE \A k \in 1 .. n : ~ Uses(k, vpn)
  <2> HIDE DEF H
  <2> QED
    BY <1>2, <1>4, <1>6
<1>7. ASSUME H # {} PROVE \E k \in 1 .. n : HitNode(vpn) = q[k] /\ Uses(k, vpn)
  <2> DEFINE less == {p \in Nat \X Nat : p[1] < p[2]}
             first == CHOOSE k \in H : \A j \in H : k <= j
  <2>1. IsWellFoundedOn(less, Nat)
    BY NatLessThanWellFounded, Zenon DEF OpToRel
  <2>2. H \subseteq Nat
    BY <1>1, <1>5
  <2>3. PICK m \in H : \A k \in H : ~ (<<k, m>> \in less)
    <3> HIDE DEF less, H
    <3> QED
      BY <1>7, <2>1, <2>2, WFMin
  <2>4. ASSUME NEW k \in H PROVE m <= k
    <3>1. k \in Nat /\ m \in Nat
      BY <2>2
    <3>2. k < m => <<k, m>> \in less
      BY <3>1
    <3> HIDE DEF less, H
    <3> QED
      BY <2>3, <3>1, <3>2
  <2> HIDE DEF H
  <2>5. first \in H
    BY <2>3, <2>4
  <2>6. HitNode(vpn) = b[first]
    BY Zenon DEF HitNode, H
  <2> HIDE DEF first, b
  <2>7. /\ n + 1 - first \in 1 .. n /\ Uses(n + 1 - first, vpn)
        /\ HitNode(vpn) = q[n + 1 - first]
    BY <1>1, <1>2, <1>4, <1>5, <2>5, <2>6
  <2> QED
    BY <2>7
<1> QED
  BY <1>6, <1>7

\* What a move_back does to the order of the lines.
LEMMA MoveBackMoves ==
  ASSUME NEW q, NEW n, Chain(ll, q, n), NEW j \in 1 .. n, NEW new \in Mallocs,
         ll' = MoveBack(ll, q[j], new)
  PROVE  Listed(ll') /\ MovedTo(Values(ll), n, j, Values(ll'))
<1> DEFINE r == MoveBack(ll, q[j], new)
<1>1. Reordered(ll, q, n, j, r) \/ (j = 1 /\ Shortened(ll, q, n, r))
  BY MoveBackChain DEF Mallocs
<1>2. ll' = r
  OBVIOUS
<1> HIDE DEF r
<1>3. CASE Reordered(ll, q, n, j, r)
  <2>1. Listed(r) /\ Values(r) = Moved(Values(ll), n, j)
    BY <1>3, ReorderedValues
  <2> QED
    BY <1>2, <2>1 DEF MovedTo
<1>4. CASE j = 1 /\ Shortened(ll, q, n, r)
  <2>1. Listed(r) /\ n # 1 /\ Values(r) = [k \in 1 .. (n - 1) |-> Values(ll)[k + 1]]
    BY <1>4, ShortenedValues
  <2> QED
    BY <1>2, <1>4, <2>1 DEF MovedTo
<1> QED
  BY <1>1, <1>3, <1>4

-----------------------------------------------------------------------------
(***************************************************************************)
(* The inductive invariant.  ListOK and FreeLinesFirst say of the list     *)
(* what a search reads; that a step keeps them needs the nodes to form a   *)
(* chain, and each page to have one line at most.                          *)
(***************************************************************************)
TLBInv ==
  /\ TypeOK /\ Translated
  /\ Listed(ll) /\ \E n : Order(Values(ll), n, tlb)

LEMMA SameLength ==
  ASSUME NEW q, NEW n, Chain(ll, q, n), \E m : Order(Values(ll), m, tlb)
  PROVE  Order(Values(ll), n, tlb)
<1>1. PICK m : Order(Values(ll), m, tlb)
  OBVIOUS
<1>2. m \in Nat \ {0} /\ DOMAIN Values(ll) = 1 .. m
  BY <1>1 DEF Order
<1>3. n \in Nat \ {0} /\ DOMAIN Values(ll) = 1 .. n
  BY ChainHolds
<1>4. m \in 1 .. m /\ n \in 1 .. n /\ 1 .. m = 1 .. n
  BY <1>2, <1>3
<1>5. m = n
  BY <1>2, <1>3, <1>4
<1> QED
  BY <1>1, <1>5

LEMMA InvImplies ==
  ASSUME TLBInv
  PROVE  ListOK /\ FreeLinesFirst
<1>1. PICK q, n : Chain(ll, q, n)
  BY DEF TLBInv, Listed
<1>2. Order(Values(ll), n, tlb)
  BY <1>1, SameLength DEF TLBInv
<1>3. WellLinked(ll) /\ ~ IsEmpty(ll)
  BY <1>1, ChainWellLinked
<1>4. \A m \in DOMAIN ll.node : \E k \in 1 .. n : q[k] = m
  BY <1>1, ChainHolds
<1>5. \A k \in 1 .. n : Values(ll)[k] = ll.node[q[k]].value
  BY <1>1, ChainHolds
<1>6. \A i, j \in 1 .. n : Values(ll)[i] = Values(ll)[j] => i = j
  BY <1>2 DEF Order
<1>7. Values(ll) \in [1 .. n -> LineIdx]
  BY <1>2 DEF Order
<1>8. \A x, y \in DOMAIN ll.node : ll.node[x].value = ll.node[y].value => x = y
  BY <1>4, <1>5, <1>6
<1>9. \A x \in DOMAIN ll.node : ll.node[x].value \in LineIdx
  BY <1>4, <1>5, <1>7
<1>10. ListOK
  BY <1>3, <1>8, <1>9 DEF ListOK
<1>11. FreeLinesFirst
  BY <1>2, <1>7 DEF FreeLinesFirst, Order
<1> QED
  BY <1>10, <1>11

LEMMA TLBInit == Init => TLBInv
<1> SUFFICES ASSUME Init PROVE TLBInv
  OBVIOUS
<1>1. TypeOK /\ Translated
  BY LinesAssumption, PageTableAssumption
     DEF Init, TypeOK, Translated, Entry, ZeroEntry, Result, Vpn
<1>2. /\ \E q : Chain(ll, q, TLB_LINES)
      /\ Values(ll) = [k \in 1 .. TLB_LINES |-> k - 1]
  BY FullListChain DEF Init
<1>3. Listed(ll)
  BY <1>2 DEF Listed
<1>4. \A i \in LineIdx : tlb[i].v = 0
  BY DEF Init, ZeroEntry
<1>5. Order(Values(ll), TLB_LINES, tlb)
  <2> DEFINE o == [k \in 1 .. TLB_LINES |-> k - 1]
  <2>1. o \in [1 .. TLB_LINES -> LineIdx]
    BY LinesAssumption DEF LineIdx
  <2>2. \A i, j \in 1 .. TLB_LINES : o[i] = o[j] => i = j
    BY LinesAssumption
  <2>3. \A i \in 1 .. TLB_LINES : tlb[o[i]].v = 0
    BY <1>4, <2>1
  <2> HIDE DEF o
  <2>4. Order(o, TLB_LINES, tlb)
    BY <2>1, <2>2, <2>3, LinesAssumption DEF Order
  <2> QED
    BY <1>2, <2>4 DEF o
<1> QED
  BY <1>1, <1>3, <1>5 DEF TLBInv

LEMMA TLBFound ==
  ASSUME TLBInv, NEW vpn \in Searches, Found(vpn)
  PROVE  TLBInv'
<1>1. PICK q, n : Chain(ll, q, n)
  BY DEF TLBInv, Listed
<1>2. Order(Values(ll), n, tlb)
  BY <1>1, SameLength DEF TLBInv
<1>3. PICK j \in 1 .. n : HitNode(vpn) = q[j] /\ Uses(j, vpn)
  BY <1>1, HitsAre DEF Found
<1>4. PICK new \in Mallocs : ll' = MoveBack(ll, q[j], new)
  BY <1>3 DEF Found
<1>5. Listed(ll') /\ MovedTo(Values(ll), n, j, Values(ll'))
  BY <1>1, <1>4, MoveBackMoves
<1>6. \E m : Order(Values(ll'), m, tlb)
  BY <1>2, <1>3, <1>5, UseKeepsOrder DEF Uses
<1>7. tlb' = tlb /\ ret' = Result(vpn, 1, TRUE, tlb[Values(ll)[j]].ppn)
  <2>1. Values(ll)[j] = ll.node[q[j]].value
    BY <1>1, ChainHolds
  <2> QED
    BY <1>3, <2>1 DEF Found
<1>8. Values(ll)[j] \in LineIdx /\ vpn \in Vpn
  BY <1>2, PageTableAssumption DEF Order
<1>9. TypeOK' /\ Translated'
  <2>1. tlb[Values(ll)[j]] \in Entry /\ PageTable[vpn] = tlb[Values(ll)[j]].ppn
    BY <1>3, <1>8 DEF TLBInv, TypeOK, Translated, Uses
  <2>2. ret' = [vpn |-> vpn, hit |-> 1, ok |-> TRUE, ppn |-> PageTable[vpn]]
        /\ PageTable[vpn] \in PageNums
    BY <1>7, <2>1 DEF Result, Entry
  <2>3. TypeOK'
    <3>1. tlb' \in [LineIdx -> Entry]
      BY <1>7 DEF TLBInv, TypeOK
    <3> QED
      BY <1>8, <2>2, <3>1 DEF TypeOK
  <2>4. Translated'
    <3>1. \A i \in LineIdx : tlb'[i].v = 1 => PageTable[tlb'[i].tag] = tlb'[i].ppn
      BY <1>7 DEF TLBInv, Translated
    <3> QED
      BY <2>2, <3>1 DEF Translated
  <2> QED
    BY <2>3, <2>4
<1> QED
  BY <1>5, <1>6, <1>7, <1>9 DEF TLBInv

LEMMA TLBWalked ==
  ASSUME TLBInv, NEW vpn \in Searches, Walked(vpn)
  PROVE  TLBInv'
<1>1. PICK q, n : Chain(ll, q, n)
  BY DEF TLBInv, Listed
<1>2. Order(Values(ll), n, tlb)
  BY <1>1, SameLength DEF TLBInv
<1> DEFINE e == EntryInit(vpn, PageTable[vpn])
           line == Values(ll)[1]
<1>3. 1 \in 1 .. n /\ ll.front = q[1] /\ line = ll.node[q[1]].value /\ line \in LineIdx
  <2>1. 1 \in 1 .. n /\ ll.front = q[1] /\ line = ll.node[q[1]].value
    BY <1>1, ChainHolds
  <2> QED
    BY <1>2, <2>1 DEF Order
<1>4. vpn \in Vpn /\ PageTable[vpn] \in PageNums
  BY PageTableAssumption DEF Walked
<1>5. e \in Entry /\ e = [v |-> 1, tag |-> vpn, ppn |-> PageTable[vpn]]
  BY <1>4 DEF EntryInit, Entry
<1>6. PICK new \in Mallocs : ll' = MoveBack(ll, q[1], new)
  BY <1>3 DEF Walked
<1>7. tlb' = [tlb EXCEPT ![line] = e]
  BY <1>3 DEF Walked
<1>8. Listed(ll') /\ MovedTo(Values(ll), n, 1, Values(ll'))
  BY <1>1, <1>3, <1>6, MoveBackMoves
<1>9. \E m : Order(Values(ll'), m, tlb')
  <2>1. \A k \in 1 .. n : ~ Uses(k, vpn)
    BY <1>1, HitsAre DEF Walked, Missed
  <2>2. \A k \in 1 .. n : ~ (tlb[Values(ll)[k]].v = 1 /\ tlb[Values(ll)[k]].tag = e.tag)
    BY <1>5, <2>1 DEF Uses
  <2>3. e.v = 1 /\ tlb \in [LineIdx -> Entry]
    BY <1>5 DEF TLBInv, TypeOK
  <2>4. tlb' = [tlb EXCEPT ![Values(ll)[1]] = e]
    BY <1>7
  <2> HIDE DEF e
  <2> QED
    BY <1>2, <1>5, <1>8, <2>2, <2>3, <2>4, LoadKeepsOrder
<1>10. ret' = [vpn |-> vpn, hit |-> 0, ok |-> TRUE, ppn |-> PageTable[vpn]]
  BY DEF Walked, Result
<1>11. TypeOK'
  <2>1. tlb' \in [LineIdx -> Entry]
    BY <1>3, <1>5, <1>7 DEF TLBInv, TypeOK
  <2> QED
    BY <1>4, <1>10, <2>1 DEF TypeOK
<1>12. Translated'
  <2>1. ASSUME NEW i \in LineIdx, tlb'[i].v = 1 PROVE PageTable[tlb'[i].tag] = tlb'[i].ppn
    <3>1. CASE i = line
      BY <1>3, <1>5, <1>7, <3>1 DEF TLBInv, TypeOK
    <3>2. CASE i # line
      BY <1>7, <2>1, <3>2 DEF TLBInv, TypeOK, Translated
    <3> QED
      BY <3>1, <3>2
  <2> QED
    BY <1>10, <2>1 DEF Translated
<1> QED
  BY <1>8, <1>9, <1>11, <1>12 DEF TLBInv

LEMMA TLBStep == TLBInv /\ [Next]_vars => TLBInv'
<1> SUFFICES ASSUME TLBInv, [Next]_vars PROVE TLBInv'
  OBVIOUS
<1>1. ASSUME NEW vpn \in Searches, NoMemory(vpn) PROVE TLBInv'
  <2>1. vpn \in Vpn /\ PageTable[vpn] \in PageNums
    BY <1>1, PageTableAssumption DEF NoMemory
  <2>2. TypeOK' /\ Translated'
    BY <1>1, <2>1 DEF NoMemory, TLBInv, TypeOK, Translated, Result
  <2> QED
    BY <1>1, <2>2 DEF NoMemory, TLBInv
<1>2. ASSUME NEW vpn \in Searches, Fault(vpn) PROVE TLBInv'
  <2>1. vpn \in Vpn
    BY PageTableAssumption
  <2>2. TypeOK' /\ Translated'
    BY <1>2, <2>1 DEF Fault, TLBInv, TypeOK, Translated, Result
  <2> QED
    BY <1>2, <2>2 DEF Fault, TLBInv
<1>3. CASE Flush
  <2>1. ZeroEntry \in Entry /\ ZeroEntry.v = 0
    BY LinesAssumption, PageTableAssumption DEF ZeroEntry, Entry, Vpn
  <2>2. tlb' = [i \in LineIdx |-> ZeroEntry] /\ ll' = ll /\ ret' = ret
    BY <1>3 DEF Flush
  <2>3. TypeOK' /\ Translated'
    BY <2>1, <2>2 DEF TLBInv, TypeOK, Translated
  <2>4. PICK n : Order(Values(ll), n, tlb)
    BY DEF TLBInv
  <2>5. Order(Values(ll), n, tlb')
    <3>1. \A i \in 1 .. n : tlb'[Values(ll)[i]].v = 0
      BY <2>1, <2>2, <2>4 DEF Order
    <3> QED
      BY <2>4, <3>1 DEF Order
  <2> QED
    BY <2>2, <2>3, <2>5 DEF TLBInv
<1>4. CASE UNCHANGED vars
  BY <1>4 DEF vars, TLBInv, TypeOK, Translated
<1> QED
  BY <1>1, <1>2, <1>3, <1>4, TLBFound, TLBWalked DEF Next, Search

THEOREM TLBInvariant == Spec => []TLBInv
<1> QED
  BY TLBInit, TLBStep, PTL DEF Spec

\* tlb_search, tlb_flush and tlb_entry_init keep the fields in their ranges.
THEOREM FieldsInRange == Spec => []TypeOK
<1>1. TLBInv => TypeOK
  BY DEF TLBInv
<1> QED
  BY <1>1, TLBInvariant, PTL

\* move_back leaves a list whose two directions agree, failed mallocs or not.
THEOREM ListIsWhole == Spec => []ListOK
<1>1. TLBInv => ListOK
  BY InvImplies
<1> QED
  BY <1>1, TLBInvariant, PTL

\* tlb_search gives what page_walk gives of the page, from a line or from a walk.
THEOREM SearchTranslates == Spec => []Translated
<1>1. TLBInv => Translated
  BY DEF TLBInv
<1> QED
  BY <1>1, TLBInvariant, PTL

\* The line that a miss overwrites is free as long as one on the list is.
THEOREM FreeLinesGoFirst == Spec => []FreeLinesFirst
<1>1. TLBInv => FreeLinesFirst
  BY InvImplies
<1> QED
  BY <1>1, TLBInvariant, PTL

-----------------------------------------------------------------------------
(***************************************************************************)
(* Least recently used.  The pages of an order o with the entries t: the   *)
(* first F lines of it are free, the others hold the pages, in order.      *)
(***************************************************************************)
Page(t, i) == [page |-> t[i].tag, ppn |-> t[i].ppn]

FreeOf(o, t) == Cardinality({k \in DOMAIN o : t[o[k]].v = 0})

RecentOf(o, t) == [k \in 1 .. (Len(o) - FreeOf(o, t)) |-> Page(t, o[FreeOf(o, t) + k])]

FreeUpTo(o, n, t, F) == F \in 0 .. n /\ \A k \in 1 .. n : t[o[k]].v = 0 <=> k <= F

LEMMA RecentIs ==
  ASSUME NEW o, NEW n \in Nat, NEW t, NEW F, o \in [1 .. n -> LineIdx], FreeUpTo(o, n, t, F)
  PROVE  Len(o) = n /\ RecentOf(o, t) = [k \in 1 .. (n - F) |-> Page(t, o[F + k])]
<1>1. Len(o) = n
  OBVIOUS
<1>2. FreeOf(o, t) = F
  <2>1. {k \in DOMAIN o : t[o[k]].v = 0} = 1 .. F
    BY DEF FreeUpTo
  <2>2. Cardinality(1 .. F) = F
    BY FS_Interval DEF FreeUpTo
  <2> QED
    BY <2>1, <2>2 DEF FreeOf
<1> QED
  BY <1>1, <1>2 DEF RecentOf

LEMMA FreeLinesBefore ==
  ASSUME NEW o, NEW n, NEW t \in [LineIdx -> Entry], Order(o, n, t)
  PROVE  \E F : FreeUpTo(o, n, t, F)
<1> DEFINE S == {k \in 1 .. n : t[o[k]].v = 1}
           less == {p \in Nat \X Nat : p[1] < p[2]}
<1>1. n \in Nat \ {0} /\ o \in [1 .. n -> LineIdx]
  BY DEF Order
<1>2. \A k \in 1 .. n : t[o[k]].v \in {0, 1}
  BY <1>1 DEF Entry
<1>3. CASE S = {}
  <2>1. \A k \in 1 .. n : t[o[k]].v = 0 /\ k <= n
    BY <1>1, <1>2, <1>3
  <2>2. FreeUpTo(o, n, t, n)
    BY <1>1, <2>1 DEF FreeUpTo
  <2> QED
    BY <2>2
<1>4. CASE S # {}
  <2>1. IsWellFoundedOn(less, Nat)
    BY NatLessThanWellFounded, Zenon DEF OpToRel
  <2>2. S \subseteq Nat
    BY <1>1
  <2>3. PICK m \in S : \A k \in S : ~ (<<k, m>> \in less)
    <3> HIDE DEF less, S
    <3> QED
      BY <1>4, <2>1, <2>2, WFMin
  <2>4. ASSUME NEW k \in S PROVE m <= k
    <3>1. k \in Nat /\ m \in Nat
      BY <2>2
    <3>2. k < m => <<k, m>> \in less
      BY <3>1
    <3> HIDE DEF less, S
    <3> QED
      BY <2>3, <3>1, <3>2
  <2>5. m \in 1 .. n /\ t[o[m]].v = 1
    BY <2>3
  <2>6. \A k \in 1 .. n : m < k => t[o[k]].v = 1
    BY <2>5 DEF Order
  <2>7. \A k \in 1 .. n : t[o[k]].v = 1 => m <= k
    BY <2>4
  <2> HIDE DEF S, less
  <2>8. \A k \in 1 .. n : t[o[k]].v = 0 <=> k <= m - 1
    <3> SUFFICES ASSUME NEW k \in 1 .. n PROVE t[o[k]].v = 0 <=> k <= m - 1
      OBVIOUS
    <3>1. t[o[k]].v = 1 <=> m <= k
      <4>1. k = m \/ k < m \/ m < k
        BY <1>1, <2>5
      <4> QED
        BY <1>1, <2>5, <2>6, <2>7, <4>1
    <3>2. k <= m - 1 <=> ~ (m <= k)
      BY <1>1, <2>5
    <3>3. t[o[k]].v = 0 <=> ~ (t[o[k]].v = 1)
      BY <1>2
    <3> QED
      BY <3>1, <3>2, <3>3
  <2>9. m - 1 \in 0 .. n
    BY <1>1, <2>5
  <2>10. FreeUpTo(o, n, t, m - 1)
    BY <2>8, <2>9 DEF FreeUpTo
  <2> QED
    BY <2>10
<1> QED
  BY <1>3, <1>4

\* The operations of LruTLB on the pages held, as functions.
LEMMA LruOperations ==
  ASSUME NEW n \in Nat \ {0}, NEW f, NEW s, s = [k \in 1 .. n |-> f[k]], NEW e
  PROVE  /\ Len(s) = n
         /\ Tail(s) = [k \in 1 .. (n - 1) |-> s[k + 1]]
         /\ Append(s, e) = [k \in 1 .. (n + 1) |-> IF k = n + 1 THEN e ELSE s[k]]
<1>1. Len(s) = n
  OBVIOUS
<1>2. Tail(s) = [k \in 1 .. (n - 1) |-> s[k + 1]]
  OBVIOUS
<1>3. Append(s, e) = [k \in 1 .. (n + 1) |-> IF k = n + 1 THEN e ELSE s[k]]
  OBVIOUS
<1> QED
  BY <1>1, <1>2, <1>3

LEMMA LruUse ==
  ASSUME NEW n \in Nat \ {0}, NEW f, NEW s, s = [k \in 1 .. n |-> f[k]], NEW i \in 1 .. n
  PROVE  Append(Lru!RemoveAt(s, i), s[i]) = Moved(s, n, i)
<1> DEFINE r == Lru!RemoveAt(s, i)
<1>1. r = [k \in 1 .. (n - 1) |-> IF k < i THEN s[k] ELSE s[k + 1]]
  BY DEF Lru!RemoveAt
<1> HIDE DEF r
<1>2. Append(r, s[i]) = [k \in 1 .. (n - 1 + 1) |-> IF k = n - 1 + 1 THEN s[i] ELSE r[k]]
  BY <1>1
<1>3. n - 1 + 1 = n
  OBVIOUS
<1>4. \A k \in 1 .. n : (IF k = n THEN s[i] ELSE r[k]) = Moved(s, n, i)[k]
  BY <1>1 DEF Moved
<1>5. Moved(s, n, i) = [k \in 1 .. n |-> Moved(s, n, i)[k]]
  BY DEF Moved
<1>6. Append(r, s[i]) = Moved(s, n, i)
  BY <1>2, <1>3, <1>4, <1>5
<1> QED
  BY <1>6 DEF r

LEMMA RecentNow ==
  /\ Recent = RecentOf(Values(ll), tlb)
  /\ Recent' = RecentOf(Values(ll'), tlb')
<1>1. Recent = RecentOf(Values(ll), tlb)
  BY DEF Recent, RecentOf, FreeLines, FreeOf, PageOf, Page
<1>2. Recent' = RecentOf(Values(ll'), tlb')
  BY DEF Recent, RecentOf, FreeLines, FreeOf, PageOf, Page
<1> QED
  BY <1>1, <1>2

\* A hit: the page found goes to the end of the pages, or, first of all, is lost.
LEMMA UseIsLru ==
  ASSUME NEW o, NEW n, NEW t, Order(o, n, t), NEW F, FreeUpTo(o, n, t, F),
         NEW j \in 1 .. n, t[o[j]].v = 1, NEW w, MovedTo(o, n, j, w)
  PROVE  /\ j - F \in 1 .. (n - F)
         /\ \/ Len(w) = n /\ RecentOf(w, t) = Moved(RecentOf(o, t), n - F, j - F)
            \/ /\ n # 1 /\ F = 0 /\ j = 1 /\ Len(w) = n - 1
               /\ RecentOf(w, t) = [i \in 1 .. (n - 1) |-> RecentOf(o, t)[i + 1]]
<1> DEFINE R == RecentOf(o, t)
<1>1. n \in Nat \ {0} /\ o \in [1 .. n -> LineIdx]
  BY DEF Order
<1>2. F \in 0 .. n
  BY DEF FreeUpTo
<1>3. F < j
  <2>1. t[o[j]].v # 0
    OBVIOUS
  <2> QED
    BY <1>1, <1>2, <2>1 DEF FreeUpTo
<1>4. j - F \in 1 .. (n - F) /\ n - F \in Nat \ {0}
  BY <1>1, <1>2, <1>3
<1>5. R = [i \in 1 .. (n - F) |-> Page(t, o[F + i])]
  BY <1>1, RecentIs
<1>6. \A k \in 1 .. n : t[o[k]].v = 0 <=> k <= F
  BY DEF FreeUpTo
<1> HIDE DEF R
<1>7. CASE w = Moved(o, n, j)
  <2>1. \A k \in 1 .. n : From(k, n, j) \in 1 .. n /\ Moved(o, n, j)[k] = o[From(k, n, j)]
    BY <1>1, MovedFrom
  <2>2. w \in [1 .. n -> LineIdx]
    <3>1. w = [k \in 1 .. n |-> w[k]]
      BY <1>7 DEF Moved
    <3> QED
      BY <1>1, <1>7, <2>1, <3>1
  <2>3. \A k \in 1 .. n : From(k, n, j) <= F <=> k <= F
    BY <1>1, <1>2, <1>3 DEF From
  <2>4. FreeUpTo(w, n, t, F)
    BY <1>2, <1>6, <1>7, <2>1, <2>3 DEF FreeUpTo
  <2>5. Len(w) = n /\ RecentOf(w, t) = [i \in 1 .. (n - F) |-> Page(t, w[F + i])]
    BY <1>1, <2>2, <2>4, RecentIs
  <2>6. ASSUME NEW i \in 1 .. (n - F) PROVE Page(t, w[F + i]) = Moved(R, n - F, j - F)[i]
    <3>1. F + i \in 1 .. n
      BY <1>1, <1>2
    <3>2. From(F + i, n, j) = F + From(i, n - F, j - F)
      BY <1>1, <1>2, <1>3 DEF From
    <3>3. /\ From(i, n - F, j - F) \in 1 .. (n - F)
          /\ Moved(R, n - F, j - F)[i] = R[From(i, n - F, j - F)]
      BY <1>4, MovedFrom
    <3>4. w[F + i] = o[From(F + i, n, j)]
      BY <1>7, <2>1, <3>1
    <3> QED
      BY <1>5, <3>2, <3>3, <3>4
  <2>7. Moved(R, n - F, j - F) = [i \in 1 .. (n - F) |-> Moved(R, n - F, j - F)[i]]
    BY DEF Moved
  <2>8. RecentOf(w, t) = Moved(R, n - F, j - F)
    BY <2>5, <2>6, <2>7
  <2> QED
    BY <1>4, <2>5, <2>8 DEF R
<1>8. CASE n # 1 /\ j = 1 /\ w = [k \in 1 .. (n - 1) |-> o[k + 1]]
  <2>1. F = 0 /\ n - 1 \in Nat
    BY <1>1, <1>2, <1>3, <1>8
  <2>2. \A k \in 1 .. (n - 1) : k + 1 \in 1 .. n /\ ~ (k + 1 <= F) /\ ~ (k <= F)
    BY <1>1, <2>1
  <2>3. w \in [1 .. (n - 1) -> LineIdx] /\ \A k \in 1 .. (n - 1) : w[k] = o[k + 1]
    BY <1>1, <1>8, <2>2
  <2>4. FreeUpTo(w, n - 1, t, F)
    <3>1. F \in 0 .. (n - 1)
      BY <2>1
    <3>2. \A k \in 1 .. (n - 1) : t[w[k]].v = 0 <=> k <= F
      BY <1>6, <2>2, <2>3
    <3> QED
      BY <3>1, <3>2 DEF FreeUpTo
  <2>5. Len(w) = n - 1 /\ RecentOf(w, t) = [i \in 1 .. (n - 1 - F) |-> Page(t, w[F + i])]
    BY <2>1, <2>3, <2>4, RecentIs
  <2>6. \A i \in 1 .. (n - 1) : Page(t, w[F + i]) = R[i + 1]
    <3>1. \A i \in 1 .. (n - 1) : F + i = i /\ i + 1 \in 1 .. (n - F) /\ F + (i + 1) = i + 1
      BY <1>1, <2>1
    <3>2. \A i \in 1 .. (n - 1) : R[i + 1] = Page(t, o[i + 1])
      BY <1>5, <3>1
    <3> QED
      BY <2>3, <3>1, <3>2
  <2>7. RecentOf(w, t) = [i \in 1 .. (n - 1) |-> R[i + 1]]
    BY <2>1, <2>5, <2>6
  <2> QED
    BY <1>4, <1>8, <2>1, <2>5, <2>7 DEF R
<1> QED
  BY <1>7, <1>8 DEF MovedTo

\* The free lines left by a load, and the pages it keeps.
LeftFree(F) == IF F = 0 THEN 0 ELSE F - 1

KeptOf(o, n, t, F) ==
  [i \in 1 .. (n - 1 - LeftFree(F)) |-> Page(t, o[LeftFree(F) + 1 + i])]

LoadedOf(o, n, t, F, e) ==
  [i \in 1 .. (n - LeftFree(F)) |->
     IF i = n - LeftFree(F) THEN [page |-> e.tag, ppn |-> e.ppn] ELSE KeptOf(o, n, t, F)[i]]

\* A miss: the oldest page goes, if no line is free, and the one loaded is last.
LEMMA LoadIsLru ==
  ASSUME NEW o, NEW n, NEW t \in [LineIdx -> Entry], Order(o, n, t),
         NEW F, FreeUpTo(o, n, t, F), NEW e \in Entry, e.v = 1,
         NEW w, MovedTo(o, n, 1, w),
         NEW u, u[o[1]] = e, \A i \in LineIdx : i # o[1] => u[i] = t[i]
  PROVE  \/ Len(w) = n /\ RecentOf(w, u) = LoadedOf(o, n, t, F, e)
         \/ n # 1 /\ Len(w) = n - 1 /\ RecentOf(w, u) = KeptOf(o, n, t, F)
<1> DEFINE G == LeftFree(F)
           kept == KeptOf(o, n, t, F)
<1>1. n \in Nat \ {0} /\ o \in [1 .. n -> LineIdx] /\ 1 \in 1 .. n
  BY DEF Order
<1>2. /\ F \in 0 .. n /\ G \in 0 .. (n - 1) /\ G = (IF F = 0 THEN 0 ELSE F - 1)
      /\ kept = [i \in 1 .. (n - 1 - G) |-> Page(t, o[G + 1 + i])]
  BY <1>1 DEF FreeUpTo, LeftFree, KeptOf
<1> HIDE DEF G, kept
<1>3. u[o[1]] = e /\ \A k \in 1 .. n : k # 1 => u[o[k]] = t[o[k]]
  <2>1. \A k \in 1 .. n : o[k] \in LineIdx /\ (o[k] = o[1] => k = 1)
    BY <1>1 DEF Order
  <2> QED
    BY <1>1, <2>1
<1>4. \A k \in 1 .. n : t[o[k]].v = 0 <=> k <= F
  BY DEF FreeUpTo
<1>5. \A k \in 1 .. n : k # 1 => (u[o[k]].v = 0 <=> k <= G + 1)
  <2>1. \A k \in 1 .. n : k # 1 => (k <= F <=> k <= G + 1)
    BY <1>1, <1>2
  <2> QED
    BY <1>3, <1>4, <2>1
<1>6. \A k \in 1 .. n : k # 1 => Page(u, o[k]) = Page(t, o[k])
  BY <1>3 DEF Page
<1>7. u[o[1]].v # 0 /\ Page(u, o[1]) = [page |-> e.tag, ppn |-> e.ppn]
  BY <1>3 DEF Page
<1>8. CASE w = Moved(o, n, 1)
  <2>1. \A k \in 1 .. n : w[k] = IF k < n THEN o[k + 1] ELSE o[1]
    BY <1>1, <1>8 DEF Moved
  <2>2. \A k \in 1 .. n : k < n => k + 1 \in 1 .. n
    BY <1>1
  <2>3. w \in [1 .. n -> LineIdx]
    <3>1. w = [k \in 1 .. n |-> w[k]]
      BY <1>8 DEF Moved
    <3>2. \A k \in 1 .. n : w[k] \in LineIdx
      BY <1>1, <2>1, <2>2
    <3> QED
      BY <3>1, <3>2
  <2>4. ASSUME NEW k \in 1 .. n PROVE u[w[k]].v = 0 <=> k <= G
    <3>1. CASE k < n
      <4>1. w[k] = o[k + 1] /\ k + 1 \in 1 .. n /\ k + 1 # 1 /\ (k + 1 <= G + 1 <=> k <= G)
        BY <1>1, <1>2, <2>1, <3>1
      <4> QED
        BY <1>5, <4>1
    <3>2. CASE k = n
      <4>1. w[k] = o[1] /\ ~ (k <= G)
        BY <1>1, <1>2, <2>1, <3>2
      <4> QED
        BY <1>7, <4>1
    <3> QED
      BY <1>1, <3>1, <3>2
  <2>5. FreeUpTo(w, n, u, G)
    BY <1>1, <1>2, <2>4 DEF FreeUpTo
  <2>6. Len(w) = n /\ RecentOf(w, u) = [i \in 1 .. (n - G) |-> Page(u, w[G + i])]
    <3>1. n \in Nat
      BY <1>1
    <3> QED
      BY <2>3, <2>5, <3>1, RecentIs
  <2>7. ASSUME NEW i \in 1 .. (n - G)
        PROVE  Page(u, w[G + i]) = IF i = n - G THEN [page |-> e.tag, ppn |-> e.ppn]
                                   ELSE kept[i]
    <3>1. CASE i = n - G
      <4>1. G + i = n /\ n \in 1 .. n
        BY <1>1, <1>2, <3>1
      <4>2. w[G + i] = o[1]
        BY <2>1, <4>1
      <4> QED
        BY <1>7, <3>1, <4>2
    <3>2. CASE i # n - G
      <4>1. /\ i \in 1 .. (n - 1 - G) /\ G + i \in 1 .. n /\ G + i < n
            /\ (G + i) + 1 = (G + 1) + i /\ (G + 1) + i \in 1 .. n /\ (G + 1) + i # 1
        <5>1. n \in Nat /\ G \in Nat /\ i \in Nat /\ 1 <= i /\ i < n - G /\ G < n
          BY <1>1, <1>2, <3>2
        <5>2. i \in 1 .. (n - 1 - G)
          BY <5>1
        <5>3. G + i \in 1 .. n /\ G + i < n
          BY <5>1
        <5>4. (G + 1) + i \in 1 .. n /\ (G + 1) + i # 1
          BY <5>1
        <5>5. (G + i) + 1 = (G + 1) + i
          BY <5>1
        <5> QED
          BY <5>2, <5>3, <5>4, <5>5
      <4>2. w[G + i] = o[(G + 1) + i]
        BY <2>1, <4>1
      <4>3. kept[i] = Page(t, o[(G + 1) + i])
        BY <1>2, <4>1
      <4> QED
        BY <1>6, <3>2, <4>1, <4>2, <4>3
    <3> QED
      BY <3>1, <3>2
  <2> QED
    BY <2>6, <2>7 DEF LoadedOf, G, kept
<1>9. CASE n # 1 /\ w = [k \in 1 .. (n - 1) |-> o[k + 1]]
  <2>1. \A k \in 1 .. (n - 1) : /\ k + 1 \in 1 .. n /\ k + 1 # 1 /\ w[k] = o[k + 1]
                                /\ (k + 1 <= G + 1 <=> k <= G)
    BY <1>1, <1>2, <1>9
  <2>2. w \in [1 .. (n - 1) -> LineIdx] /\ n - 1 \in Nat
    BY <1>1, <1>9, <2>1
  <2>3. \A k \in 1 .. (n - 1) : u[w[k]].v = 0 <=> k <= G
    BY <1>5, <2>1
  <2>4. FreeUpTo(w, n - 1, u, G)
    BY <1>2, <2>3 DEF FreeUpTo
  <2>5. Len(w) = n - 1 /\ RecentOf(w, u) = [i \in 1 .. (n - 1 - G) |-> Page(u, w[G + i])]
    BY <2>2, <2>4, RecentIs
  <2>6. ASSUME NEW i \in 1 .. (n - 1 - G) PROVE Page(u, w[G + i]) = Page(t, o[(G + 1) + i])
    <3>1. G + i \in 1 .. (n - 1) /\ (G + i) + 1 = (G + 1) + i
      BY <1>1, <1>2
    <3> QED
      BY <1>6, <2>1, <3>1
  <2>7. RecentOf(w, u) = kept
    BY <1>2, <2>5, <2>6
  <2> QED
    BY <1>9, <2>5, <2>7 DEF kept
<1> QED
  BY <1>8, <1>9 DEF MovedTo

\* The list and its free lines, in a state of the invariant.
LEMMA InvPicture ==
  ASSUME TLBInv
  PROVE  \E q, n, F : /\ Chain(ll, q, n) /\ Order(Values(ll), n, tlb)
                      /\ FreeUpTo(Values(ll), n, tlb, F) /\ Len(Values(ll)) = n
                      /\ Recent = [k \in 1 .. (n - F) |-> Page(tlb, Values(ll)[F + k])]
<1>1. PICK q, n : Chain(ll, q, n)
  BY DEF TLBInv, Listed
<1>2. Order(Values(ll), n, tlb)
  BY <1>1, SameLength DEF TLBInv
<1>3. tlb \in [LineIdx -> Entry]
  BY DEF TLBInv, TypeOK
<1>4. PICK F : FreeUpTo(Values(ll), n, tlb, F)
  BY <1>2, <1>3, FreeLinesBefore
<1>5. n \in Nat /\ Values(ll) \in [1 .. n -> LineIdx]
  BY <1>2 DEF Order
<1>6. /\ Len(Values(ll)) = n
      /\ RecentOf(Values(ll), tlb) = [k \in 1 .. (n - F) |-> Page(tlb, Values(ll)[F + k])]
  BY <1>4, <1>5, RecentIs
<1> QED
  BY <1>1, <1>2, <1>4, <1>6, RecentNow

\* The pages held are those of the lines in use.
LEMMA HeldIs ==
  ASSUME TLBInv, NEW vpn, Hits(vpn) = {}
  PROVE  ~ Lru!Held(vpn)
<1>1. PICK q, n, F : /\ Chain(ll, q, n) /\ FreeUpTo(Values(ll), n, tlb, F)
                     /\ Order(Values(ll), n, tlb)
                     /\ Recent = [k \in 1 .. (n - F) |-> Page(tlb, Values(ll)[F + k])]
  BY InvPicture
<1>2. \A k \in 1 .. n : ~ Uses(k, vpn)
  BY <1>1, HitsAre
<1>3. n \in Nat /\ F \in 0 .. n /\ \A k \in 1 .. n : Values(ll)[k] \in LineIdx
  BY <1>1 DEF Order, FreeUpTo
<1>4. ASSUME NEW k \in DOMAIN Recent, Recent[k].page = vpn PROVE FALSE
  <2>1. k \in 1 .. (n - F) /\ F + k \in 1 .. n /\ ~ (F + k <= F)
    BY <1>1, <1>3
  <2>2. tlb[Values(ll)[F + k]].tag = vpn
    BY <1>1, <1>4, <2>1 DEF Page
  <2>3. tlb[Values(ll)[F + k]].v # 0
    BY <1>1, <2>1 DEF FreeUpTo
  <2>4. tlb[Values(ll)[F + k]].v \in {0, 1}
    BY <1>3, <2>1 DEF TLBInv, TypeOK, Entry
  <2> QED
    BY <1>2, <2>1, <2>2, <2>3, <2>4 DEF Uses
<1> QED
  BY <1>4 DEF Lru!Held

LEMMA LruFound ==
  ASSUME TLBInv, NEW vpn \in Searches, Found(vpn)
  PROVE  Lru!Found(vpn)
<1>1. PICK q, n, F : /\ Chain(ll, q, n) /\ Order(Values(ll), n, tlb)
                     /\ FreeUpTo(Values(ll), n, tlb, F) /\ Len(Values(ll)) = n
                     /\ Recent = [k \in 1 .. (n - F) |-> Page(tlb, Values(ll)[F + k])]
  BY InvPicture
<1>2. PICK j \in 1 .. n : HitNode(vpn) = q[j] /\ Uses(j, vpn)
  BY <1>1, HitsAre DEF Found
<1>3. PICK new \in Mallocs : ll' = MoveBack(ll, q[j], new)
  BY <1>2 DEF Found
<1>4. MovedTo(Values(ll), n, j, Values(ll'))
  BY <1>1, <1>3, MoveBackMoves
<1>5. tlb' = tlb /\ ret' = Result(vpn, 1, TRUE, tlb[Values(ll)[j]].ppn)
  <2>1. Values(ll)[j] = ll.node[q[j]].value
    BY <1>1, ChainHolds
  <2> QED
    BY <1>2, <2>1 DEF Found
<1> DEFINE k == j - F
           w == Values(ll')
           R == RecentOf(Values(ll), tlb)
<1>6. tlb[Values(ll)[j]].v = 1 /\ tlb[Values(ll)[j]].tag = vpn
  BY <1>2 DEF Uses
<1>7. /\ k \in 1 .. (n - F)
      /\ \/ Len(w) = n /\ RecentOf(w, tlb) = Moved(R, n - F, k)
         \/ /\ n # 1 /\ F = 0 /\ j = 1 /\ Len(w) = n - 1
            /\ RecentOf(w, tlb) = [i \in 1 .. (n - 1) |-> R[i + 1]]
  <2> HIDE DEF w
  <2> QED
    BY <1>1, <1>4, <1>6, UseIsLru DEF w
<1>8. R = Recent /\ RecentOf(w, tlb) = Recent'
  BY <1>5, RecentNow
<1>9. n \in Nat \ {0} /\ F \in 0 .. n
  BY <1>1 DEF Order, FreeUpTo
<1>10. /\ k \in 1 .. (n - F) /\ F + k = j /\ n - F \in Nat \ {0}
       /\ DOMAIN Recent = 1 .. (n - F)
       /\ Recent[k] = Page(tlb, Values(ll)[j])
  BY <1>1, <1>7, <1>9
<1>11. Recent[k].page = vpn /\ Lru!Outcome(vpn, 1, TRUE, Recent[k].ppn)
  BY <1>5, <1>6, <1>10 DEF Page, Result, Lru!Outcome
<1> HIDE DEF k, w, R
<1>12. CASE Len(w) = n /\ RecentOf(w, tlb) = Moved(R, n - F, k)
  <2>1. Append(Lru!RemoveAt(Recent, k), Recent[k]) = Moved(Recent, n - F, k)
    <3>1. Recent = [i \in 1 .. (n - F) |-> Recent[i]]
      BY <1>1
    <3> QED
      BY <1>10, <3>1, LruUse
  <2>2. Recent' = Append(Lru!RemoveAt(Recent, k), Recent[k])
    BY <1>8, <1>12, <2>1
  <2>3. UNCHANGED Len(Values(ll))
    BY <1>1, <1>12 DEF w
  <2> QED
    BY <1>10, <1>11, <2>2, <2>3 DEF Lru!Found
<1>13. CASE /\ n # 1 /\ F = 0 /\ j = 1 /\ Len(w) = n - 1
            /\ RecentOf(w, tlb) = [i \in 1 .. (n - 1) |-> R[i + 1]]
  <2>1. /\ Len(Recent) = n - F
        /\ Tail(Recent) = [i \in 1 .. (n - F - 1) |-> Recent[i + 1]]
    BY <1>1, <1>10, LruOperations
  <2>2. Recent' = Tail(Recent) /\ Len(Recent) = n /\ k = 1
    BY <1>8, <1>9, <1>13, <2>1 DEF k
  <2>3. Len(Values(ll))' = Len(Values(ll)) - 1 /\ Len(Values(ll)) > 1
    BY <1>1, <1>9, <1>13 DEF w
  <2>4. Lru!Full
    BY <1>1, <2>2 DEF Lru!Full
  <2> QED
    BY <1>10, <1>11, <2>2, <2>3, <2>4 DEF Lru!Found
<1> QED
  BY <1>7, <1>12, <1>13

LEMMA LruLoaded ==
  ASSUME TLBInv, NEW vpn \in Searches, Walked(vpn)
  PROVE  Lru!Loaded(vpn)
<1>1. PICK q, n, F : /\ Chain(ll, q, n) /\ Order(Values(ll), n, tlb)
                     /\ FreeUpTo(Values(ll), n, tlb, F) /\ Len(Values(ll)) = n
                     /\ Recent = [k \in 1 .. (n - F) |-> Page(tlb, Values(ll)[F + k])]
  BY InvPicture
<1> DEFINE e == EntryInit(vpn, PageTable[vpn])
           o == Values(ll)
           w == Values(ll')
           G == LeftFree(F)
           kept == KeptOf(o, n, tlb, F)
<1>2. 1 \in 1 .. n /\ ll.front = q[1] /\ o[1] = ll.node[q[1]].value /\ o[1] \in LineIdx
  <2>1. 1 \in 1 .. n /\ ll.front = q[1] /\ o[1] = ll.node[q[1]].value
    BY <1>1, ChainHolds
  <2> QED
    BY <1>1, <2>1 DEF Order
<1>3. vpn \in Vpn /\ PageTable[vpn] \in PageNums
  BY PageTableAssumption DEF Walked
<1>4. e \in Entry /\ e.v = 1 /\ [page |-> e.tag, ppn |-> e.ppn] = Lru!Walk(vpn)
  BY <1>3 DEF EntryInit, Entry, Lru!Walk
<1>5. PICK new \in Mallocs : ll' = MoveBack(ll, q[1], new)
  BY <1>2 DEF Walked
<1>6. tlb \in [LineIdx -> Entry] /\ tlb' = [tlb EXCEPT ![o[1]] = e]
  BY <1>2 DEF Walked, TLBInv, TypeOK
<1>7. MovedTo(o, n, 1, w)
  BY <1>1, <1>2, <1>5, MoveBackMoves
<1>8. tlb'[o[1]] = e /\ \A i \in LineIdx : i # o[1] => tlb'[i] = tlb[i]
  BY <1>2, <1>6
<1>9. n \in Nat \ {0} /\ F \in 0 .. n
  BY <1>1 DEF Order, FreeUpTo
<1> HIDE DEF G, kept
<1>0. /\ G = (IF F = 0 THEN 0 ELSE F - 1)
      /\ kept = [i \in 1 .. (n - 1 - G) |-> Page(tlb, o[G + 1 + i])]
  BY DEF G, kept, LeftFree, KeptOf
<1>10. kept = IF F = 0 THEN Tail(Recent) ELSE Recent
  <2>1. CASE F = 0
    <3>1. Recent = [i \in 1 .. n |-> Page(tlb, o[i])]
      BY <1>1, <1>9, <2>1
    <3>2. Tail(Recent) = [i \in 1 .. (n - 1) |-> Page(tlb, o[i + 1])]
      <4> HIDE DEF o
      <4> QED
        BY <1>9, <3>1
    <3>3. kept = [i \in 1 .. (n - 1) |-> Page(tlb, o[i + 1])]
      <4> HIDE DEF o
      <4>1. n - 1 - G = n - 1 /\ \A i \in 1 .. (n - 1) : G + 1 + i = i + 1
        BY <1>0, <1>9, <2>1
      <4> QED
        BY <1>0, <4>1
    <3> QED
      BY <2>1, <3>2, <3>3
  <2>2. CASE F # 0
    <3>1. G + 1 = F /\ n - 1 - G = n - F
      BY <1>0, <1>9, <2>2
    <3> QED
      BY <1>0, <1>1, <2>2, <3>1
  <2> QED
    BY <2>1, <2>2
<1>11. Len(kept) = n - 1 - G /\ n - 1 - G \in Nat
  <2>1. n - 1 - G \in Nat
    BY <1>0, <1>9
  <2> HIDE DEF o
  <2> QED
    BY <1>0, <2>1
<1>12. Len(Recent) = n <=> F = 0
  <2>1. Len(Recent) = n - F
    <3>1. n - F \in Nat
      BY <1>9
    <3> HIDE DEF o
    <3> QED
      BY <1>1, <3>1
  <2> QED
    BY <1>9, <2>1
<1>13. kept = IF Lru!Full THEN Tail(Recent) ELSE Recent
  BY <1>1, <1>10, <1>12 DEF Lru!Full
<1>14. \/ Len(w) = n /\ RecentOf(w, tlb') = LoadedOf(o, n, tlb, F, e)
       \/ n # 1 /\ Len(w) = n - 1 /\ RecentOf(w, tlb') = kept
  <2> HIDE DEF e, o, w
  <2>1. Order(o, n, tlb) /\ FreeUpTo(o, n, tlb, F)
    BY <1>1 DEF o
  <2>2. tlb \in [LineIdx -> Entry] /\ e \in Entry /\ e.v = 1
    BY <1>4, <1>6
  <2> QED
    BY <1>7, <1>8, <2>1, <2>2, LoadIsLru DEF kept
<1>15. Recent' = RecentOf(w, tlb')
  BY RecentNow
<1>16. ~ Lru!Held(vpn) /\ PageTable[vpn] # NoPage
  BY HeldIs DEF Walked, Missed
<1>17. Lru!Outcome(vpn, 0, TRUE, PageTable[vpn])
  BY DEF Walked, Result, Lru!Outcome
<1>18. \/ Recent' = Append(kept, Lru!Walk(vpn)) /\ UNCHANGED Len(Values(ll))
       \/ /\ Len(Values(ll)) > 1 /\ Recent' = kept
          /\ Len(Values(ll))' = Len(Values(ll)) - 1
  <2>1. CASE Len(w) = n /\ RecentOf(w, tlb') = LoadedOf(o, n, tlb, F, e)
    <3> DEFINE m == n - 1 - G
    <3>1. n - G = m + 1 /\ m \in Nat
      BY <1>0, <1>9
    <3>2. Recent' = [i \in 1 .. (m + 1) |-> IF i = m + 1 THEN Lru!Walk(vpn) ELSE kept[i]]
      <4>1. RecentOf(w, tlb') = [i \in 1 .. (n - G) |->
                                   IF i = n - G THEN [page |-> e.tag, ppn |-> e.ppn]
                                   ELSE kept[i]]
        BY <2>1 DEF LoadedOf, G, kept
      <4> HIDE DEF m, e, w
      <4> QED
        BY <1>4, <1>15, <3>1, <4>1
    <3>3. Append(kept, Lru!Walk(vpn)) =
            [i \in 1 .. (m + 1) |-> IF i = m + 1 THEN Lru!Walk(vpn) ELSE kept[i]]
      <4>1. kept = [i \in 1 .. m |-> Page(tlb, o[G + 1 + i])]
        BY <1>0
      <4> HIDE DEF m, o
      <4> QED
        BY <3>1, <4>1
    <3> QED
      BY <1>1, <2>1, <3>2, <3>3
  <2>2. CASE n # 1 /\ Len(w) = n - 1 /\ RecentOf(w, tlb') = kept
    <3> HIDE DEF kept
    <3> QED
      BY <1>1, <1>9, <1>15, <2>2
  <2> QED
    BY <1>14, <2>1, <2>2
<1> QED
  BY <1>13, <1>16, <1>17, <1>18 DEF Lru!Loaded

LEMMA LruFlush ==
  ASSUME TLBInv, Flush
  PROVE  Lru!Flush
<1>1. PICK n : Order(Values(ll), n, tlb)
  BY DEF TLBInv
<1>2. n \in Nat /\ Values(ll) \in [1 .. n -> LineIdx]
  BY <1>1 DEF Order
<1>3. tlb' = [i \in LineIdx |-> ZeroEntry] /\ ll' = ll /\ ret' = ret
  BY DEF Flush
<1>4. FreeUpTo(Values(ll), n, tlb', n)
  <2>1. \A k \in 1 .. n : tlb'[Values(ll)[k]].v = 0
    BY <1>2, <1>3 DEF ZeroEntry
  <2> QED
    BY <1>2, <2>1 DEF FreeUpTo
<1>5. RecentOf(Values(ll), tlb') = [k \in 1 .. (n - n) |-> Page(tlb', Values(ll)[n + k])]
  BY <1>2, <1>4, RecentIs
<1>6. Recent' = <<>>
  <2>1. 1 .. (n - n) = {}
    BY <1>2
  <2>2. RecentOf(Values(ll), tlb') = <<>>
    BY <1>5, <2>1
  <2> QED
    BY <1>3, <2>2, RecentNow
<1> QED
  BY <1>3, <1>6 DEF Lru!Flush

LEMMA LruInit == Init => Lru!Init
<1> SUFFICES ASSUME Init PROVE Lru!Init
  OBVIOUS
<1> DEFINE L == TLB_LINES
<1>1. L \in Nat
  BY LinesAssumption
<1>2. Values(ll) = [k \in 1 .. L |-> k - 1]
  BY FullListChain DEF Init
<1>3. Values(ll) \in [1 .. L -> LineIdx]
  BY <1>2, LinesAssumption DEF LineIdx
<1>4. FreeUpTo(Values(ll), L, tlb, L)
  <2>1. \A k \in 1 .. L : tlb[Values(ll)[k]].v = 0
    BY <1>3 DEF Init, ZeroEntry
  <2> QED
    BY <1>1, <2>1 DEF FreeUpTo
<1>5. /\ Len(Values(ll)) = L
      /\ RecentOf(Values(ll), tlb) = [k \in 1 .. (L - L) |-> Page(tlb, Values(ll)[L + k])]
  <2> HIDE DEF L
  <2> QED
    BY <1>1, <1>3, <1>4, RecentIs
<1>6. Recent = <<>>
  <2>1. 1 .. (L - L) = {}
    BY <1>1
  <2>2. RecentOf(Values(ll), tlb) = <<>>
    BY <1>5, <2>1
  <2> QED
    BY <2>2, RecentNow
<1> QED
  BY <1>5, <1>6 DEF Init, Result, Lru!Init

LEMMA LruStep ==
  TLBInv /\ [Next]_vars => [Lru!Next]_<<Recent, Len(Values(ll)), ret>>
<1> SUFFICES ASSUME TLBInv, [Next]_vars
             PROVE  Lru!Next \/ UNCHANGED <<Recent, Len(Values(ll)), ret>>
  OBVIOUS
<1>1. ASSUME NEW vpn \in Searches, Found(vpn) PROVE Lru!Next
  BY <1>1, LruFound DEF Lru!Next
<1>2. ASSUME NEW vpn \in Searches, Walked(vpn) PROVE Lru!Next
  BY <1>2, LruLoaded DEF Lru!Next
<1>3. ASSUME tlb' = tlb, ll' = ll PROVE UNCHANGED <<Recent, Len(Values(ll))>>
  <2>1. Recent' = Recent
    BY <1>3, RecentNow
  <2> QED
    BY <1>3, <2>1
<1>4. ASSUME NEW vpn \in Searches, NoMemory(vpn) \/ Fault(vpn) PROVE Lru!Next
  <2>1. /\ UNCHANGED <<tlb, ll>> /\ Missed(vpn)
        /\ ret' = IF PageTable[vpn] = NoPage THEN Result(vpn, 0, FALSE, ret.ppn)
                  ELSE Result(vpn, 0, FALSE, PageTable[vpn])
    BY <1>4 DEF NoMemory, Fault
  <2>2. ~ Lru!Held(vpn)
    BY <2>1, HeldIs DEF Missed
  <2>3. UNCHANGED <<Recent, Len(Values(ll))>>
    BY <1>3, <2>1
  <2>4. Lru!Failed(vpn)
    BY <2>1, <2>2, <2>3 DEF Lru!Failed, Lru!Outcome, Result
  <2> QED
    BY <2>4 DEF Lru!Next
<1>5. CASE Flush
  BY <1>5, LruFlush DEF Lru!Next
<1>6. CASE UNCHANGED vars
  <2>1. tlb' = tlb /\ ll' = ll /\ ret' = ret
    BY <1>6 DEF vars
  <2> QED
    BY <1>3, <2>1
<1> QED
  BY <1>1, <1>2, <1>4, <1>5, <1>6 DEF Next, Search

(***************************************************************************)
(* tlb_search and tlb_flush replace the least recently used page, whatever *)
(* the page table and the sequence of searches, and lose one line of the   *)
(* TLB for each move that finds no memory.                                 *)
(***************************************************************************)
THEOREM ReplacesLeastRecentlyUsed == Spec => LruSpec
<1>1. Init => Lru!Init
  BY LruInit
<1>2. TLBInv /\ [Next]_vars => [Lru!Next]_<<Recent, Len(Values(ll)), ret>>
  BY LruStep
<1> QED
  BY <1>1, <1>2, TLBInvariant, PTL DEF Spec, LruSpec, Lru!Spec

-----------------------------------------------------------------------------
(***************************************************************************)
(* Pushes at either end, and clear_list: the rest of list.c, on the list   *)
(* of the TLB and on an empty one.                                         *)
(***************************************************************************)
IsList(l) == l = EmptyList \/ Listed(l)

LEMMA EmptyListIs ==
  /\ DOMAIN EmptyList.node = {}
  /\ Forward(EmptyList) = <<>> /\ Backward(EmptyList) = <<>>
  /\ Values(EmptyList) = <<>> /\ WellLinked(EmptyList)
<1> DEFINE l == EmptyList
           w == [k \in 0 .. 0 |-> NULL]
<1>1. l.front = NULL /\ l.back = NULL /\ l.node = <<>> /\ DOMAIN l.node = {}
  BY DEF EmptyList
<1>2. Cardinality(DOMAIN l.node) = 0
  BY <1>1, FS_EmptySet
<1>3. 0 .. 0 = {0} /\ w[0] = NULL
  OBVIOUS
<1>4. IsWalk(l, NULL, "next", 0, w) /\ IsWalk(l, NULL, "previous", 0, w)
  BY <1>3 DEF IsWalk, Steps
<1>5. Visits(0, w) = <<>>
  <2>1. {j \in 0 .. 0 : w[j] # NULL} = {}
    BY <1>3
  <2>2. Visits(0, w) = [k \in 1 .. 0 |-> w[k - 1]]
    BY <2>1, FS_EmptySet DEF Visits
  <2> HIDE DEF w
  <2>3. 1 .. 0 = {} /\ DOMAIN <<>> = {}
    OBVIOUS
  <2>4. [k \in 1 .. 0 |-> w[k - 1]] = [k \in {} |-> w[k - 1]] /\ <<>> = [k \in {} |-> w[k - 1]]
    BY <2>3
  <2> QED
    BY <2>2, <2>4
<1> HIDE DEF l, w
<1>6. Forward(l) = <<>> /\ Backward(l) = <<>>
  BY <1>1, <1>2, <1>4, <1>5, FollowIs DEF Forward, Backward
<1>7. Values(l) = <<>>
  BY <1>6 DEF Values
<1>8. WellLinked(l)
  BY <1>1, <1>2, <1>6 DEF WellLinked
<1> QED
  BY <1>1, <1>6, <1>7, <1>8 DEF l

\* The first push on an empty list, at either end.
LEMMA FirstPush ==
  ASSUME NEW new \in Nodes, NEW value \in Contents,
         NEW r, r = PushBack(EmptyList, new, value) \/ r = PushFront(EmptyList, new, value)
  PROVE  \E q : Chain(r, q, 1) /\ On(q, 1) = {new} /\ ValueOf(r, q, 1) = value
<1> DEFINE rec == [value |-> value, previous |-> NULL, next |-> NULL]
           node == [x \in {new} |-> rec]
           q == [k \in 1 .. 1 |-> new]
<1>1. new # NULL /\ IsEmpty(EmptyList)
  BY LinesAssumption DEF IsEmpty, EmptyList
<1>2. DOMAIN EmptyList.node \cup {new} = {new} /\ EmptyList.front = NULL /\ EmptyList.back = NULL
  BY EmptyListIs DEF EmptyList
<1>3. r = [front |-> new, back |-> new, node |-> node]
  <2>1. PushBack(EmptyList, new, value) = [front |-> new, back |-> new, node |-> node]
    BY <1>1, <1>2 DEF PushBack
  <2>2. PushFront(EmptyList, new, value) = [front |-> new, back |-> new, node |-> node]
    BY <1>1, <1>2 DEF PushFront
  <2> QED
    BY <2>1, <2>2
<1>4. rec \in NodeRecords /\ rec.next = NULL /\ rec.previous = NULL /\ rec.value = value
  BY DEF NodeRecords
<1>5. 1 .. 1 = {1} /\ 1 \in 1 .. 1 /\ 1 \in Nat \ {0}
  OBVIOUS
<1>6. q \in Orders(1) /\ On(q, 1) = {new} /\ q[1] = new
  BY <1>5 DEF Orders, On
<1>7. r = [front |-> q[1], back |-> q[1], node |-> r.node] /\ r.node = node
  BY <1>3, <1>6
<1>8. node \in [On(q, 1) -> NodeRecords] /\ node[new] = rec
  BY <1>4, <1>6
<1> HIDE DEF node, q, rec
<1>9. Chain(r, q, 1)
  BY <1>4, <1>5, <1>6, <1>7, <1>8 DEF Chain
<1>10. ValueOf(r, q, 1) = value
  BY <1>4, <1>6, <1>7, <1>8 DEF ValueOf
<1> QED
  BY <1>6, <1>9, <1>10

\* push_front puts the new node before the first.
LEMMA PushFrontChain ==
  ASSUME NEW l, NEW q, NEW n, Chain(l, q, n), NEW new \in Nodes \ DOMAIN l.node,
         NEW value \in Contents, NEW r, r = PushFront(l, new, value),
         NEW p, p = [k \in 1 .. (n + 1) |-> IF k = 1 THEN new ELSE q[k - 1]]
  PROVE  /\ Chain(r, p, n + 1)
         /\ \A k \in 1 .. n : ValueOf(r, p, k + 1) = ValueOf(l, q, k)
         /\ ValueOf(r, p, 1) = value
<1>1. /\ n \in Nat \ {0} /\ q \in Orders(n) /\ l.front = q[1] /\ l.back = q[n]
      /\ l.node \in [On(q, n) -> NodeRecords] /\ DOMAIN l.node = On(q, n)
  BY DEF Chain
<1>2. /\ \A k \in 1 .. n : q[k] \in On(q, n) /\ q[k] \in Nodes /\ q[k] # new
      /\ new # NULL /\ \A i, j \in 1 .. n : q[i] = q[j] => i = j
  BY <1>1, LinesAssumption DEF On, Orders
<1>3. ~ IsEmpty(l)
  BY ChainWellLinked
<1> DEFINE node == [x \in On(q, n) \cup {new} |->
                      CASE x = new -> [value |-> value, previous |-> NULL, next |-> q[1]]
                        [] x = q[1] /\ x # new -> [l.node[x] EXCEPT !.previous = new]
                        [] OTHER -> l.node[x]]
<1>4. r = [front |-> new, back |-> q[n], node |-> node]
  BY <1>1, <1>2, <1>3 DEF PushFront
<1>5. /\ p \in Orders(n + 1) /\ On(p, n + 1) = On(q, n) \cup {new}
      /\ p[1] = new /\ \A k \in 1 .. n : p[k + 1] = q[k]
  <2>1. p[1] = new /\ \A k \in 1 .. n : k + 1 \in 1 .. (n + 1) /\ p[k + 1] = q[k]
    BY <1>1
  <2>2. p \in [1 .. (n + 1) -> Nodes]
    BY <1>1, <1>2
  <2>3. \A i, j \in 1 .. (n + 1) : p[i] = p[j] => i = j
    <3>1. \A i \in 1 .. (n + 1) : i # 1 => i - 1 \in 1 .. n /\ p[i] = q[i - 1]
      BY <1>1
    <3> QED
      BY <1>1, <1>2, <2>1, <3>1
  <2>4. On(p, n + 1) \subseteq On(q, n) \cup {new}
    <3>1. \A i \in 1 .. (n + 1) : i # 1 => i - 1 \in 1 .. n /\ p[i] = q[i - 1]
      BY <1>1
    <3> QED
      BY <1>2, <2>1, <3>1 DEF On
  <2>5. On(q, n) \cup {new} \subseteq On(p, n + 1)
    <3>1. 1 \in 1 .. (n + 1)
      BY <1>1
    <3> QED
      BY <2>1, <3>1 DEF On
  <2> QED
    BY <2>1, <2>2, <2>3, <2>4, <2>5 DEF Orders
<1>6. ASSUME NEW k \in 1 .. n
      PROVE  /\ node[q[k]] \in NodeRecords
             /\ node[q[k]].value = l.node[q[k]].value
             /\ node[q[k]].next = IF k = n THEN NULL ELSE q[k + 1]
             /\ node[q[k]].previous = IF k = 1 THEN new ELSE q[k - 1]
  <2>1. /\ l.node[q[k]] \in NodeRecords
        /\ l.node[q[k]].next = IF k = n THEN NULL ELSE q[k + 1]
        /\ l.node[q[k]].previous = IF k = 1 THEN NULL ELSE q[k - 1]
    BY <1>1, <1>2 DEF Chain
  <2>2. node[q[k]] = IF k = 1 THEN [l.node[q[k]] EXCEPT !.previous = new] ELSE l.node[q[k]]
    BY <1>1, <1>2
  <2> HIDE DEF node
  <2> QED
    BY <1>1, <2>1, <2>2 DEF NodeRecords
<1>7. node[new] = [value |-> value, previous |-> NULL, next |-> q[1]]
  OBVIOUS
<1>8. node \in [On(q, n) \cup {new} -> NodeRecords]
  <2>1. \A x \in On(q, n) : node[x] \in NodeRecords
    BY <1>6 DEF On
  <2>2. node[new] \in NodeRecords
    BY <1>1, <1>2, <1>7 DEF NodeRecords
  <2>3. node = [x \in On(q, n) \cup {new} |-> node[x]]
    OBVIOUS
  <2> HIDE DEF node
  <2> QED
    BY <2>1, <2>2, <2>3
<1> HIDE DEF node
<1>9. r.node = node /\ r = [front |-> p[1], back |-> p[n + 1], node |-> r.node]
  BY <1>1, <1>4, <1>5
<1>10. ASSUME NEW k \in 1 .. (n + 1)
       PROVE  /\ node[p[k]].next = IF k = n + 1 THEN NULL ELSE p[k + 1]
              /\ node[p[k]].previous = IF k = 1 THEN NULL ELSE p[k - 1]
  <2>1. CASE k = 1
    <3>1. p[1 + 1] = q[1] /\ 1 # n + 1
      BY <1>1, <1>5
    <3> QED
      BY <1>5, <1>7, <2>1, <3>1
  <2>2. CASE k # 1
    <3> DEFINE m == k - 1
    <3>1. m \in 1 .. n /\ m + 1 = k /\ (m = n <=> k = n + 1)
      BY <1>1, <2>2
    <3>2. m # n => m + 1 \in 1 .. n
      BY <1>1, <3>1
    <3>3. p[k] = q[m] /\ (m # n => p[k + 1] = q[m + 1])
      BY <1>5, <3>1, <3>2
    <3>4. (m = 1 => p[k - 1] = new) /\ (m # 1 => p[k - 1] = q[m - 1])
      <4>1. m # 1 => m - 1 \in 1 .. n /\ m - 1 + 1 = k - 1
        BY <1>1, <3>1
      <4> QED
        BY <1>5, <4>1
    <3> HIDE DEF m
    <3> QED
      BY <1>6, <2>2, <3>1, <3>2, <3>3, <3>4
  <2> QED
    BY <2>1, <2>2
<1>11. n + 1 \in Nat \ {0}
  BY <1>1
<1>12. Chain(r, p, n + 1)
  BY <1>5, <1>8, <1>9, <1>10, <1>11 DEF Chain
<1>13. \A k \in 1 .. n : ValueOf(r, p, k + 1) = ValueOf(l, q, k)
  <2>1. \A k \in 1 .. n : p[k + 1] = q[k]
    BY <1>5
  <2> QED
    BY <1>6, <1>9, <2>1 DEF ValueOf
<1>14. ValueOf(r, p, 1) = value
  BY <1>5, <1>7, <1>9 DEF ValueOf
<1> QED
  BY <1>12, <1>13, <1>14

Push(l, e, k) == IF e.back THEN PushBack(l, e.node, k) ELSE PushFront(l, e.node, k)
Pushed2(v, e, k) == IF e.back THEN Append(v, k) ELSE <<k>> \o v

\* One push, at either end of any list.
LEMMA PushKeepsList ==
  ASSUME NEW l, IsList(l), NEW e \in [back : BOOLEAN, node : Nodes \ DOMAIN l.node],
         NEW k \in Contents
  PROVE  /\ Listed(Push(l, e, k)) /\ DOMAIN Push(l, e, k).node = DOMAIN l.node \cup {e.node}
         /\ Values(Push(l, e, k)) = Pushed2(Values(l), e, k)
<1> DEFINE r == Push(l, e, k)
<1>1. e.back \in BOOLEAN /\ e.node \in Nodes \ DOMAIN l.node
  OBVIOUS
<1>2. r = IF e.back THEN PushBack(l, e.node, k) ELSE PushFront(l, e.node, k)
  BY DEF Push
<1> HIDE DEF r
<1>3. CASE l = EmptyList
  <2>1. PICK q : Chain(r, q, 1) /\ On(q, 1) = {e.node} /\ ValueOf(r, q, 1) = k
    <3>1. r = PushBack(EmptyList, e.node, k) \/ r = PushFront(EmptyList, e.node, k)
      BY <1>1, <1>2, <1>3
    <3> QED
      BY <1>1, <3>1, FirstPush
  <2>2. Values(r) = [i \in 1 .. 1 |-> ValueOf(r, q, i)]
    <3>1. \A n : Chain(r, q, n) => Values(r) = [i \in 1 .. n |-> ValueOf(r, q, i)]
      BY ChainValuesOf
    <3> QED
      BY <2>1, <3>1, Zenon
  <2>3. Values(r) = <<k>>
    BY <2>1, <2>2
  <2>4. Values(l) = <<>> /\ DOMAIN l.node = {}
    BY <1>3, EmptyListIs
  <2>5. Append(<<>>, k) = <<k>> /\ <<k>> \o <<>> = <<k>>
    OBVIOUS
  <2>6. DOMAIN r.node = On(q, 1)
    BY <2>1 DEF Chain
  <2> QED
    BY <2>1, <2>3, <2>4, <2>5, <2>6 DEF Listed, Pushed2, r
<1>4. CASE Listed(l)
  <2>1. PICK q, n : Chain(l, q, n)
    BY <1>4 DEF Listed
  <2>2. n \in Nat \ {0} /\ DOMAIN l.node = On(q, n) /\ l.node \in [On(q, n) -> NodeRecords]
    BY <2>1 DEF Chain
  <2>3. Values(l) = [i \in 1 .. n |-> ValueOf(l, q, i)]
    BY <2>1, ChainValuesOf
  <2>4. Values(l) \in Seq(Contents) /\ Len(Values(l)) = n
    <3>1. \A i \in 1 .. n : ValueOf(l, q, i) \in Contents
      BY <2>2 DEF ValueOf, NodeRecords, On
    <3> QED
      BY <2>2, <2>3, <3>1
  <2>5. CASE e.back
    <3> DEFINE p == [i \in 1 .. (n + 1) |-> IF i = n + 1 THEN e.node ELSE q[i]]
    <3>1. r = PushBack(l, e.node, k)
      BY <1>2, <2>5
    <3>2. /\ Chain(r, p, n + 1)
          /\ \A i \in 1 .. n : ValueOf(r, p, i) = ValueOf(l, q, i)
          /\ ValueOf(r, p, n + 1) = k
      BY <1>1, <2>1, <3>1, PushBackChain
    <3>3. Values(r) = [i \in 1 .. (n + 1) |-> ValueOf(r, p, i)]
      BY <3>2, ChainValuesOf
    <3>4. DOMAIN r.node = DOMAIN l.node \cup {e.node}
      BY <3>1, <1>1, LinesAssumption DEF PushBack
    <3> HIDE DEF p
    <3>5. Values(r) = Append(Values(l), k)
      BY <2>2, <2>3, <2>4, <3>2, <3>3
    <3> QED
      BY <2>5, <3>2, <3>4, <3>5 DEF Listed, Pushed2, r
  <2>6. CASE ~ e.back
    <3> DEFINE p == [i \in 1 .. (n + 1) |-> IF i = 1 THEN e.node ELSE q[i - 1]]
    <3>1. r = PushFront(l, e.node, k)
      BY <1>2, <2>6
    <3>2. /\ Chain(r, p, n + 1)
          /\ \A i \in 1 .. n : ValueOf(r, p, i + 1) = ValueOf(l, q, i)
          /\ ValueOf(r, p, 1) = k
      BY <1>1, <2>1, <3>1, PushFrontChain
    <3>3. Values(r) = [i \in 1 .. (n + 1) |-> ValueOf(r, p, i)]
      BY <3>2, ChainValuesOf
    <3>4. DOMAIN r.node = DOMAIN l.node \cup {e.node}
      BY <3>1, <1>1, LinesAssumption DEF PushFront
    <3> HIDE DEF p
    <3>5. Values(r) = <<k>> \o Values(l)
      <4> DEFINE v == Values(l)
      <4>1. v \in Seq(Contents) /\ Len(v) = n /\ \A i \in 1 .. n : v[i] = ValueOf(l, q, i)
        BY <2>3, <2>4
      <4> HIDE DEF v
      <4>2. <<k>> \o v = [i \in 1 .. (n + 1) |-> IF i = 1 THEN k ELSE v[i - 1]]
        BY <2>2, <4>1
      <4>3. ASSUME NEW i \in 1 .. (n + 1)
            PROVE  ValueOf(r, p, i) = IF i = 1 THEN k ELSE v[i - 1]
        <5>1. CASE i = 1
          BY <3>2, <5>1
        <5>2. CASE i # 1
          <6>1. i - 1 \in 1 .. n /\ i - 1 + 1 = i
            BY <2>2, <5>2
          <6> QED
            BY <3>2, <4>1, <5>2, <6>1
        <5> QED
          BY <5>1, <5>2
      <4> QED
        BY <3>3, <4>2, <4>3 DEF v
    <3> QED
      BY <2>6, <3>2, <3>4, <3>5 DEF Listed, Pushed2, r
  <2> QED
    BY <1>1, <2>5, <2>6
<1> QED
  BY <1>3, <1>4 DEF IsList

\* What the recursive definitions of Built and Expected give, of up to two pushes.
Twice(x, n, a, b) == [k \in 0 .. n |-> IF k = 0 THEN x ELSE IF k = 1 THEN a ELSE b]

Building(l, s, f) ==
  [k \in 0 .. Len(s) |-> IF k = 0 THEN l
                         ELSE IF s[k].back THEN PushBack(f[k - 1], s[k].node, k)
                         ELSE PushFront(f[k - 1], s[k].node, k)]

LEMMA BuiltIs ==
  ASSUME NEW l, NEW s, Len(s) \in 0 .. 2
  PROVE  /\ Len(s) = 0 => Built(l, s) = l
         /\ Len(s) = 1 => Built(l, s) = Push(l, s[1], 1)
         /\ Len(s) = 2 => Built(l, s) = Push(Push(l, s[1], 1), s[2], 2)
<1> DEFINE n == Len(s)
           l1 == Push(l, s[1], 1)
           l2 == Push(l1, s[2], 2)
           g == Twice(l, n, l1, l2)
           f == CHOOSE b : b = Building(l, s, b)
<1>0. n \in 0 .. 2
  OBVIOUS
<1>1. g = Building(l, s, g)
  <2>1. ASSUME NEW k \in 0 .. n PROVE g[k] = Building(l, s, g)[k]
    <3>1. k = 0 \/ k = 1 \/ k = 2
      <4> HIDE DEF n, g
      <4> QED
        BY <1>0
    <3>2. CASE k = 0
      BY <3>2 DEF Twice, Building
    <3>3. CASE k = 1
      <4>1. g[0] = l /\ g[1] = l1 /\ 1 \in 0 .. n /\ 1 # 0 /\ 1 - 1 = 0
        BY <3>3 DEF Twice
      <4> HIDE DEF g, n
      <4> QED
        BY <3>3, <4>1 DEF Building, Push, n
    <3>4. CASE k = 2
      <4>1. g[1] = l1 /\ g[2] = l2 /\ 2 \in 0 .. n /\ 2 # 0 /\ 2 - 1 = 1
        BY <3>4 DEF Twice
      <4> HIDE DEF g, n, l1
      <4> QED
        BY <3>4, <4>1 DEF Building, Push, n
    <3> QED
      BY <3>1, <3>2, <3>3, <3>4
  <2>2. g = [k \in 0 .. n |-> g[k]] /\ Building(l, s, g) = [k \in 0 .. n |-> Building(l, s, g)[k]]
    BY DEF Twice, Building
  <2> HIDE DEF g, n
  <2> QED
    BY <2>1, <2>2
<1>2. f = Building(l, s, f)
  <2> HIDE DEF g
  <2> QED
    BY <1>1
<1>3. Built(l, s) = f[n]
  BY DEF Built, Building
<1> HIDE DEF f
<1>4. f[0] = l
  BY <1>2 DEF Building
<1>5. n \in 1 .. 2 => f[1] = l1
  BY <1>2, <1>4 DEF Building, Push
<1>6. n = 2 => f[2] = l2
  <2> HIDE DEF l1
  <2> QED
    BY <1>2, <1>5 DEF Building, Push
<1> HIDE DEF n, l1, l2
<1>7. (n = 0 => f[n] = l) /\ (n = 1 => f[n] = l1) /\ (n = 2 => f[n] = l2)
  BY <1>4, <1>5, <1>6
<1> QED
  BY <1>3, <1>7, Zenon DEF n, l1, l2

Expecting(l, s, f) ==
  [k \in 0 .. Len(s) |-> IF k = 0 THEN Values(l)
                         ELSE IF s[k].back THEN Append(f[k - 1], k) ELSE <<k>> \o f[k - 1]]

LEMMA ExpectedIs ==
  ASSUME NEW l, NEW s, Len(s) \in 0 .. 2
  PROVE  /\ Len(s) = 0 => Expected(l, s) = Values(l)
         /\ Len(s) = 1 => Expected(l, s) = Pushed2(Values(l), s[1], 1)
         /\ Len(s) = 2 => Expected(l, s) = Pushed2(Pushed2(Values(l), s[1], 1), s[2], 2)
<1> DEFINE n == Len(s)
           v == Values(l)
           l1 == Pushed2(v, s[1], 1)
           l2 == Pushed2(l1, s[2], 2)
           g == Twice(v, n, l1, l2)
           f == CHOOSE b : b = Expecting(l, s, b)
<1> HIDE DEF v
<1>0. n \in 0 .. 2
  OBVIOUS
<1>1. g = Expecting(l, s, g)
  <2>1. ASSUME NEW k \in 0 .. n PROVE g[k] = Expecting(l, s, g)[k]
    <3>1. k = 0 \/ k = 1 \/ k = 2
      <4> HIDE DEF n, g
      <4> QED
        BY <1>0
    <3>2. CASE k = 0
      BY <3>2 DEF Twice, Expecting, v
    <3>3. CASE k = 1
      <4>1. g[0] = v /\ g[1] = l1 /\ 1 \in 0 .. n /\ 1 # 0 /\ 1 - 1 = 0
        BY <3>3 DEF Twice
      <4> HIDE DEF g, n
      <4> QED
        BY <3>3, <4>1 DEF Expecting, Pushed2, n
    <3>4. CASE k = 2
      <4>1. g[1] = l1 /\ g[2] = l2 /\ 2 \in 0 .. n /\ 2 # 0 /\ 2 - 1 = 1
        BY <3>4 DEF Twice
      <4> HIDE DEF g, n, l1
      <4> QED
        BY <3>4, <4>1 DEF Expecting, Pushed2, n
    <3> QED
      BY <3>1, <3>2, <3>3, <3>4
  <2>2. g = [k \in 0 .. n |-> g[k]] /\ Expecting(l, s, g) = [k \in 0 .. n |-> Expecting(l, s, g)[k]]
    BY DEF Twice, Expecting
  <2> HIDE DEF g, n
  <2> QED
    BY <2>1, <2>2
<1>2. f = Expecting(l, s, f)
  <2> HIDE DEF g
  <2> QED
    BY <1>1
<1>3. Expected(l, s) = f[n]
  BY DEF Expected, Expecting
<1> HIDE DEF f
<1>4. f[0] = v
  BY <1>2 DEF Expecting, v
<1>5. n \in 1 .. 2 => f[1] = l1
  <2>1. n \in 1 .. 2 => 1 \in 0 .. n /\ 1 # 0 /\ 1 - 1 = 0
    OBVIOUS
  <2> HIDE DEF n
  <2>2. n \in 1 .. 2 => f[1] = IF s[1].back THEN Append(v, 1) ELSE <<1>> \o v
    BY <1>2, <1>4, <2>1 DEF Expecting, n
  <2> QED
    BY <2>2 DEF Pushed2
<1>6. n = 2 => f[2] = l2
  <2>1. n = 2 => n \in 1 .. 2 /\ 2 \in 0 .. n /\ 2 # 0 /\ 2 - 1 = 1
    OBVIOUS
  <2> HIDE DEF n, l1
  <2>2. n = 2 => f[2] = IF s[2].back THEN Append(l1, 2) ELSE <<2>> \o l1
    BY <1>2, <1>5, <2>1 DEF Expecting, n
  <2> QED
    BY <2>2 DEF Pushed2
<1> HIDE DEF n, l1, l2
<1>7. (n = 0 => f[n] = v) /\ (n = 1 => f[n] = l1) /\ (n = 2 => f[n] = l2)
  BY <1>4, <1>5, <1>6
<1> QED
  BY <1>3, <1>7, Zenon DEF n, l1, l2, v

LEMMA BuildsLists ==
  ASSUME NEW l, IsList(l), NEW s \in Pushes(l)
  PROVE  IsList(Built(l, s)) /\ Values(Built(l, s)) = Expected(l, s)
<1> DEFINE n == Len(s)
           E == [back : BOOLEAN, node : Nodes \ DOMAIN l.node]
           l1 == Push(l, s[1], 1)
<1>1. /\ n \in 0 .. 2 /\ \A i \in 1 .. n : s[i] \in E
      /\ n = 2 => s[1].node # s[2].node
  <2>1. PICK m \in 0 .. 2 : s \in [1 .. m -> E]
    BY DEF Pushes
  <2>2. n = m /\ DOMAIN s = 1 .. m
    BY <2>1
  <2>3. \A i, j \in DOMAIN s : s[i].node = s[j].node => i = j
    BY DEF Pushes
  <2> QED
    BY <2>1, <2>2, <2>3
<1> HIDE DEF n
<1>2. 1 \in Contents /\ 2 \in Contents
  BY DEF Contents
<1>3. CASE n = 0
  <2>1. Built(l, s) = l /\ Expected(l, s) = Values(l)
    BY <1>1, <1>3, BuiltIs, ExpectedIs DEF n
  <2> QED
    BY <2>1
<1>4. n # 0 => IsList(l1) /\ DOMAIN l1.node = DOMAIN l.node \cup {s[1].node}
               /\ Values(l1) = Pushed2(Values(l), s[1], 1)
  <2>1. n # 0 => s[1] \in E
    BY <1>1
  <2> HIDE DEF E
  <2> QED
    BY <1>2, <2>1, PushKeepsList DEF IsList, E
<1>5. CASE n = 1
  <2>1. Built(l, s) = l1 /\ Expected(l, s) = Pushed2(Values(l), s[1], 1)
    BY <1>1, <1>5, BuiltIs, ExpectedIs DEF n
  <2> QED
    BY <1>4, <1>5, <2>1
<1>6. CASE n = 2
  <2> DEFINE l2 == Push(l1, s[2], 2)
  <2>1. Built(l, s) = l2 /\ Expected(l, s) = Pushed2(Pushed2(Values(l), s[1], 1), s[2], 2)
    BY <1>1, <1>6, BuiltIs, ExpectedIs DEF n
  <2>2. s[2] \in [back : BOOLEAN, node : Nodes \ DOMAIN l1.node]
    <3>1. s[2] \in E /\ s[1].node # s[2].node
      BY <1>1, <1>6
    <3>2. DOMAIN l1.node = DOMAIN l.node \cup {s[1].node}
      BY <1>4, <1>6
    <3> HIDE DEF l1
    <3> QED
      BY <3>1, <3>2
  <2>3. IsList(l1) /\ Values(l1) = Pushed2(Values(l), s[1], 1)
    BY <1>4, <1>6
  <2> HIDE DEF l1
  <2>4. Listed(l2) /\ Values(l2) = Pushed2(Values(l1), s[2], 2)
    BY <1>2, <2>2, <2>3, PushKeepsList
  <2> QED
    BY <2>1, <2>3, <2>4 DEF IsList
<1> QED
  BY <1>1, <1>3, <1>5, <1>6

LEMMA ListsAreWellLinked == ASSUME NEW l, IsList(l) PROVE WellLinked(l)
  BY EmptyListIs, ChainWellLinked DEF IsList, Listed

\* clear_list passes NULL to free, then the nodes in their order.
LEMMA ChainFreed ==
  ASSUME NEW l, NEW q, NEW n, Chain(l, q, n)
  PROVE  FreesEachOnce(l)
<1>1. n \in Nat \ {0} /\ q \in Orders(n) /\ l.back = q[n] /\ ~ IsEmpty(l)
  BY ChainWellLinked DEF Chain
<1>2. Forward(l) = q /\ DOMAIN q = 1 .. n
  BY <1>1, ChainForward DEF Orders
<1> DEFINE before == [k \in 1 .. n |-> l.node[q[k]].previous]
           freed == Freed(l)
<1>3. freed = before \o <<q[n]>>
  BY <1>1, <1>2 DEF Freed
<1>4. \A k \in 1 .. n : before[k] = IF k = 1 THEN NULL ELSE q[k - 1]
  BY DEF Chain
<1>5. before \in Seq({NULL} \cup Nodes) /\ Len(before) = n
  <2>1. \A k \in 1 .. n : before[k] \in {NULL} \cup Nodes
    <3> SUFFICES ASSUME NEW k \in 1 .. n, k # 1 PROVE q[k - 1] \in Nodes
      BY <1>4
    <3>1. k - 1 \in 1 .. n
      BY <1>1
    <3> QED
      BY <1>1, <3>1 DEF Orders
  <2>2. before \in [1 .. n -> {NULL} \cup Nodes]
    BY <2>1
  <2> HIDE DEF before
  <2> QED
    BY <1>1, <2>2
<1> HIDE DEF before
<1>6. /\ DOMAIN freed = 1 .. (n + 1)
      /\ \A i \in 1 .. n : freed[i] = before[i]
      /\ freed[n + 1] = q[n]
  <2>1. q[n] \in Nodes
    BY <1>1 DEF Orders
  <2>2. Len(before \o <<q[n]>>) = n + 1 /\ DOMAIN (before \o <<q[n]>>) = 1 .. (n + 1)
    BY <1>1, <1>5, <2>1
  <2> QED
    BY <1>1, <1>3, <1>5, <2>1, <2>2
<1> HIDE DEF freed
<1>7. ASSUME NEW i \in 1 .. (n + 1)
      PROVE  freed[i] = IF i = 1 THEN NULL ELSE q[i - 1]
  <2>1. CASE i = n + 1
    BY <1>1, <1>6, <2>1
  <2>2. CASE i # n + 1
    <3>1. i \in 1 .. n
      BY <1>1, <2>2
    <3> QED
      BY <1>4, <1>6, <3>1
  <2> QED
    BY <2>1, <2>2
<1>8. ASSUME NEW k \in 1 .. n
      PROVE  /\ \E i \in 1 .. (n + 1) : i > k /\ freed[i] = q[k]
             /\ \A i \in 1 .. (n + 1) : freed[i] = q[k] => i = k + 1
  <2>1. k + 1 \in 1 .. (n + 1) /\ k + 1 > k /\ k + 1 # 1 /\ k + 1 - 1 = k
    BY <1>1
  <2>2. freed[k + 1] = q[k]
    BY <1>7, <2>1
  <2>3. ASSUME NEW i \in 1 .. (n + 1), freed[i] = q[k] PROVE i = k + 1
    <3>1. q[k] # NULL
      BY <1>1, LinesAssumption DEF Orders
    <3>2. i # 1 /\ q[i - 1] = q[k]
      BY <1>7, <2>3, <3>1
    <3>3. i - 1 \in 1 .. n
      BY <1>1, <3>2
    <3>4. i - 1 = k
      BY <1>1, <3>2, <3>3 DEF Orders
    <3> QED
      BY <3>4
  <2> QED
    BY <2>1, <2>2, <2>3
<1> QED
  BY <1>2, <1>6, <1>8 DEF FreesEachOnce, freed

LEMMA ListsAreFreed == ASSUME NEW l, IsList(l) PROVE FreesEachOnce(l)
<1>1. CASE l = EmptyList
  <2>1. Forward(l) = <<>> /\ DOMAIN <<>> = {}
    BY <1>1, EmptyListIs
  <2> QED
    BY <2>1 DEF FreesEachOnce
<1> QED
  BY <1>1, ChainFreed DEF IsList, Listed

LEMMA ListsOfTLB == TLBInv => \A l \in {EmptyList, ll} : IsList(l)
  BY DEF TLBInv, IsList

(***************************************************************************)
(* Pushes at both ends, of an empty list or of the list that the searches  *)
(* have left, give a list whose directions agree and whose values are the  *)
(* pushed ones in their places (push_back, push_front).                    *)
(***************************************************************************)
THEOREM PushesBuild == Spec => []PushesBuildLists
<1>1. TLBInv => PushesBuildLists
  BY ListsOfTLB, BuildsLists, ListsAreWellLinked DEF PushesBuildLists
<1> QED
  BY <1>1, TLBInvariant, PTL

(***************************************************************************)
(* clear_list frees each node of such a list once, and not before its loop *)
(* has gone past it.                                                       *)
(***************************************************************************)
THEOREM ClearFrees == Spec => []ClearFreesEachOnce
<1>1. TLBInv => ClearFreesEachOnce
  BY ListsOfTLB, BuildsLists, ListsAreFreed DEF ClearFreesEachOnce
<1> QED
  BY <1>1, TLBInvariant, PTL

=============================================================================
