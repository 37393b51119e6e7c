----------------------------- MODULE LinkedList -----------------------------
(***************************************************************************)
(* The doubly linked list of list.c; pop_back, which frees the node before *)
(* the last and keeps the last, has no caller and is left out.  A list is  *)
(* a record [front, back, node]: its two end pointers, and the nodes it    *)
(* can reach.  pop_front never frees its node; nothing points to  *)
(* it any more, and it leaves the model.  A malloc is a parameter: the     *)
(* node it gives, one that is not in use, or NULL.  Definitions marked     *)
(* "mutant" are not used by the specification.                             *)
(***************************************************************************)
EXTENDS Integers, Sequences, FiniteSets

CONSTANTS Nodes,   \* the addresses malloc chooses from
          NULL

EmptyList == [front |-> NULL, back |-> NULL, node |-> <<>>]

\* is_empty_list is also "true" for a list with one end only.
IsEmpty(l) == l.front = NULL \/ l.back = NULL

PushBack(l, new, value) ==
  IF new = NULL THEN l
  ELSE [front |-> IF IsEmpty(l) THEN new ELSE l.front,
        back |-> new,
        node |-> [n \in DOMAIN l.node \cup {new} |->
                    CASE n = new -> [value |-> value, previous |-> l.back, next |-> NULL]
                      [] n = l.back /\ n # new -> [l.node[n] EXCEPT !.next = new]
                      [] OTHER -> l.node[n]]]

PushFront_OneWay(l, new, value) ==  \* mutant: the old front has no previous
  IF new = NULL THEN l
  ELSE [front |-> new,
        back |-> IF IsEmpty(l) THEN new ELSE l.back,
        node |-> [n \in DOMAIN l.node \cup {new} |->
                    IF n = new THEN [value |-> value, previous |-> NULL, next |-> l.front]
                    ELSE l.node[n]]]

PushFront(l, new, value) ==
  IF new = NULL THEN l
  ELSE [front |-> new,
        back |-> IF IsEmpty(l) THEN new ELSE l.back,
        node |-> [n \in DOMAIN l.node \cup {new} |->
                    CASE n = new -> [value |-> value, previous |-> NULL, next |-> l.front]
                      [] n = l.front /\ n # new -> [l.node[n] EXCEPT !.previous = new]
                      [] OTHER -> l.node[n]]]

\* pop_front on two nodes or more; with one it would free it twice.
PopFront(l) ==
  LET second == l.node[l.front].next
  IN [front |-> second,
      back |-> l.back,
      node |-> [n \in DOMAIN l.node \ {l.front} |->
                  IF n = second THEN [l.node[n] EXCEPT !.previous = NULL] ELSE l.node[n]]]

Relink_OneWay(l, n) ==  \* mutant: node->next->previous is not updated
  [l EXCEPT !.node = [@ EXCEPT ![l.node[n].previous].next = l.node[n].next,
                               ![l.back].next = n,
                               ![n].previous = l.back,
                               ![n].next = NULL],
            !.back = n]

\* The last branch of move_back: a node between the ends becomes the last.
Relink(l, n) ==
  [l EXCEPT !.node = [@ EXCEPT ![l.node[n].previous].next = l.node[n].next,
                               ![l.node[n].next].previous = l.node[n].previous,
                               ![l.back].next = n,
                               ![n].previous = l.back,
                               ![n].next = NULL],
            !.back = n]

(***************************************************************************)
(* move_back.  The front is moved by copying its value into a new node and *)
(* popping it, and it is popped although malloc may have failed.           *)
(***************************************************************************)
MoveBack(l, n, new) ==
  IF IsEmpty(l) \/ l.front = l.back \/ l.back = n THEN l
  ELSE IF l.front = n THEN PopFront(PushBack(l, new, l.node[n].value))
  ELSE IF l.node[n].next # NULL THEN Relink(l, n) ELSE l

-----------------------------------------------------------------------------
(***************************************************************************)
(* for_all_nodes and for_all_nodes_reverse: the nodes that following       *)
(* `next' from the front, or `previous' from the back, comes by, in order. *)
(***************************************************************************)
Follow(l, start, field) ==
  LET at[k \in 0 .. Cardinality(DOMAIN l.node)] ==
        IF k = 0 THEN start ELSE IF at[k - 1] = NULL THEN NULL ELSE l.node[at[k - 1]][field]
  IN [k \in 1 .. Cardinality({j \in DOMAIN at : at[j] # NULL}) |-> at[k - 1]]

Forward(l) == Follow(l, l.front, "next")
Backward(l) == Follow(l, l.back, "previous")

Values(l) == [k \in DOMAIN Forward(l) |-> l.node[Forward(l)[k]].value]

(***************************************************************************)
(* The two directions of a list list the same nodes, all there are, the    *)
(* one in the reverse order of the other.                                  *)
(***************************************************************************)
WellLinked(l) ==
  LET f == Forward(l) IN
  LET b == Backward(l) IN
  /\ Len(f) = Len(b) /\ \A k \in DOMAIN f : f[k] = b[Len(f) + 1 - k]
  /\ {f[k] : k \in DOMAIN f} = DOMAIN l.node /\ Len(f) = Cardinality(DOMAIN l.node)

-----------------------------------------------------------------------------
Freed_Visited(l) ==  \* mutant: the loop frees the node it stands on
  IF IsEmpty(l) THEN <<>> ELSE Forward(l)

(***************************************************************************)
(* What clear_list passes to free: in its loop the node before each node   *)
(* (nothing before the first), then the last.  The list is then EmptyList. *)
(***************************************************************************)
Freed(l) ==
  IF IsEmpty(l) THEN <<>>
  ELSE [k \in DOMAIN Forward(l) |-> l.node[Forward(l)[k]].previous] \o <<l.back>>

(***************************************************************************)
(* Up to two pushes at either end of a list l, the list they make of it,   *)
(* and the values that list should hold: the k-th push has the value k.    *)
(***************************************************************************)
Pushes(l) ==
  {s \in UNION {[1 .. n -> [back : BOOLEAN, node : Nodes \ DOMAIN l.node]] : n \in 0 .. 2} :
     \A i, j \in DOMAIN s : s[i].node = s[j].node => i = j}

Built(l, s) ==
  LET b[k \in 0 .. Len(s)] ==
        IF k = 0 THEN l
        ELSE IF s[k].back THEN PushBack(b[k - 1], s[k].node, k)
        ELSE PushFront(b[k - 1], s[k].node, k)
  IN b[Len(s)]

Expected(l, s) ==
  LET v[k \in 0 .. Len(s)] ==
        IF k = 0 THEN Values(l) ELSE IF s[k].back THEN Append(v[k - 1], k) ELSE <<k>> \o v[k - 1]
  IN v[Len(s)]

\* Every node is freed once, and not before the loop has followed its next.
FreesEachOnce(l) ==
  LET visits == Forward(l)
      freed == Freed(l)
  IN \A k \in DOMAIN visits :
       /\ \E i \in DOMAIN freed : i > k /\ freed[i] = visits[k]
       /\ \A i, j \in DOMAIN freed : freed[i] = visits[k] /\ freed[j] = visits[k] => i = j

=============================================================================
