------------------------------- MODULE LruTLB -------------------------------
(***************************************************************************)
(* What the simple TLB promises: to hold the translations of the `size'    *)
(* pages used last, and to drop the one not used for the longest time.     *)
(* When a search cannot allocate, the TLB loses one line of its size and   *)
(* the page on it, and goes on as a smaller LRU TLB; the last line stays.  *)
(***************************************************************************)
EXTENDS Integers, SequencesExt

CONSTANTS Size, NoPage, PageTable, Searches

VARIABLES recent,  \* the pages held, the one used last at the end
          size,    \* the number of lines left
          ret

Held(vpn) == \E k \in DOMAIN recent : recent[k].page = vpn
Walk(vpn) == [page |-> vpn, ppn |-> PageTable[vpn]]
Full == Len(recent) = size

Outcome(vpn, hit, ok, ppn) == ret' = [vpn |-> vpn, hit |-> hit, ok |-> ok, ppn |-> ppn]

Found(vpn) ==
  \E k \in DOMAIN recent :
    /\ recent[k].page = vpn
    /\ Outcome(vpn, 1, TRUE, recent[k].ppn)
    /\ \/ recent' = Append(RemoveAt(recent, k), recent[k]) /\ UNCHANGED size
       \/ /\ size > 1 /\ Full /\ k = 1  \* no memory to move it
          /\ recent' = Tail(recent) /\ size' = size - 1

Loaded(vpn) ==
  /\ ~ Held(vpn) /\ PageTable[vpn] # NoPage
  /\ Outcome(vpn, 0, TRUE, PageTable[vpn])
  /\ LET kept == IF Full THEN Tail(recent) ELSE recent
     IN \/ recent' = Append(kept, Walk(vpn)) /\ UNCHANGED size
        \/ size > 1 /\ recent' = kept /\ size' = size - 1  \* no memory to move it

Failed(vpn) ==
  /\ ~ Held(vpn)
  /\ IF PageTable[vpn] = NoPage THEN Outcome(vpn, 0, FALSE, ret.ppn)
     ELSE Outcome(vpn, 0, FALSE, PageTable[vpn])  \* no memory for the entry
  /\ UNCHANGED <<recent, size>>

Flush == recent' = <<>> /\ UNCHANGED <<size, ret>>

Init == /\ recent = <<>> /\ size = Size
        /\ ret = [vpn |-> 0, hit |-> 0, ok |-> FALSE, ppn |-> 0]

Next == (\E vpn \in Searches : Found(vpn) \/ Loaded(vpn) \/ Failed(vpn)) \/ Flush

Spec == Init /\ [][Next]_<<recent, size, ret>>

=============================================================================
