------------------------------ MODULE SingleTLB -----------------------------
(***************************************************************************)
(* What the TLB hierarchy promises its caller: the outcomes of one         *)
(* direct-mapped TLB of L2's size.  A search of a page it holds hits; any  *)
(* other walks the page table, and stores what it finds over the one line  *)
(* the page maps to, or fails and changes nothing.  How the two L1s are    *)
(* filled and invalidated is not to be seen, except for one thing: a       *)
(* search that runs out of memory after the line was overwritten may leave *)
(* the displaced page behind, for the searches of its own access to find.  *)
(* While memory lasts nothing is left behind.                              *)
(***************************************************************************)
EXTENDS Integers

CONSTANTS NumLines, NoPage, PageTable, Searches
VARIABLES tlb,    \* the page each line holds, -1 for none, and its translation
          left,   \* the displaced pages the searches of each access may still find
          ret

Accesses == {"INSTRUCTION", "DATA"}
Pages == DOMAIN PageTable

Empty == [page |-> -1, ppn |-> 0]

Line(c) == c.vpn % NumLines
Held(c) == tlb[Line(c)].page = c.vpn
Walks(c) == ~ Held(c) /\ c.vpn \notin left[c.access]

Outcome(c, hit, ok, ppn) ==
  ret' = [access |-> c.access, vpn |-> c.vpn, hit |-> hit, ok |-> ok, ppn |-> ppn]

\* Pages left behind are forgotten at any time, and remembered by no other step.
LeftWithin(bound) == /\ left' \in [Accesses -> SUBSET Pages]
                     /\ \A a \in Accesses : left'[a] \subseteq bound[a]

Store(c) == tlb' = [tlb EXCEPT ![Line(c)] = [page |-> c.vpn, ppn |-> PageTable[c.vpn]]]

\* The entry of the page, or no memory to note that it was found.
Found(c) == /\ \E ok \in BOOLEAN : Outcome(c, 1, ok, tlb[Line(c)].ppn)
            /\ Held(c)
            /\ LeftWithin(left) /\ UNCHANGED tlb

FoundLeft(c) == /\ Outcome(c, 1, TRUE, PageTable[c.vpn])
                /\ ~ Held(c) /\ c.vpn \in left[c.access]
                /\ LeftWithin(left) /\ UNCHANGED tlb

Loaded(c) == /\ Outcome(c, 0, TRUE, PageTable[c.vpn])
             /\ Walks(c) /\ PageTable[c.vpn] # NoPage
             /\ LeftWithin([a \in Accesses |-> left[a] \ {c.vpn}])
             /\ Store(c)

\* No memory, before the line was overwritten or after.
NotStored(c) == /\ Outcome(c, 0, FALSE, PageTable[c.vpn])
                /\ Walks(c) /\ PageTable[c.vpn] # NoPage
                /\ LeftWithin(left) /\ UNCHANGED tlb

HalfLoaded(c) == /\ Outcome(c, 0, FALSE, PageTable[c.vpn])
                 /\ Walks(c) /\ PageTable[c.vpn] # NoPage
                 /\ LeftWithin([a \in Accesses |->
                      (left[a] \cup (IF a = c.access THEN {tlb[Line(c)].page} ELSE {})) \ {c.vpn}])
                 /\ Store(c)

Failed(c) == /\ Outcome(c, 0, FALSE, ret.ppn)
             /\ Walks(c) /\ PageTable[c.vpn] = NoPage
             /\ LeftWithin(left) /\ UNCHANGED tlb

Forget == LeftWithin(left) /\ UNCHANGED <<tlb, ret>>

Init == /\ tlb = [i \in 0 .. (NumLines - 1) |-> Empty]
        /\ left = [a \in Accesses |-> {}]
        /\ ret = [access |-> "NONE", vpn |-> 0, hit |-> 0, ok |-> FALSE, ppn |-> 0]

Next == \/ \E c \in Searches : \/ Found(c) \/ FoundLeft(c) \/ Loaded(c) \/ NotStored(c)
                               \/ HalfLoaded(c) \/ Failed(c)
        \/ Forget

Spec == Init /\ [][Next]_<<tlb, left, ret>>

=============================================================================
