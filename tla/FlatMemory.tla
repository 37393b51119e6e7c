----------------------------- MODULE FlatMemory -----------------------------
(***************************************************************************)
(* What the caches promise their caller: to be invisible.  A read returns  *)
(* what memory holds, a write changes the bytes it names, and nothing else *)
(* happens to memory.  A byte is written as the code does it, not as its   *)
(* header says: the bits it has are set in the byte of memory, and those   *)
(* it has not are not cleared (Or; Cache!WritesStoreTheirData is what the  *)
(* header says).                                                           *)
(***************************************************************************)
CONSTANTS InitMems,
          ReadCalls,     \* [cache, addr, bytes]
          WriteCalls,    \* [addr, data]
          OrCalls,       \* [addr, data]
          OtherCalls     \* records of calls that leave the memory alone

VARIABLES mem, ret

vars == <<mem, ret>>

Init == mem \in InitMems /\ ret = [op |-> "NONE"]

Read(c) ==
  /\ ret' = [op |-> "READ", cache |-> c.cache, addr |-> c.addr,
             data |-> [b \in c.bytes |-> mem[c.addr.blk][c.addr.word][b]]]
  /\ UNCHANGED mem

Write(c) ==
  /\ mem' = [mem EXCEPT ![c.addr.blk][c.addr.word] =
               [b \in DOMAIN @ |-> IF b \in DOMAIN c.data THEN c.data[b] ELSE @[b]]]
  /\ ret' = [op |-> "WRITE", cache |-> "L1_DCACHE", addr |-> c.addr, data |-> c.data]

Or(c) ==
  /\ mem' = [mem EXCEPT ![c.addr.blk][c.addr.word][c.addr.byte] = @ \cup c.data]
  /\ ret' = [op |-> "WRITE", cache |-> "L1_DCACHE", addr |-> c.addr,
             data |-> [b \in {c.addr.byte} |-> c.data]]

Other(r) == ret' = r /\ UNCHANGED mem

Next ==
  \/ \E c \in ReadCalls : Read(c)
  \/ \E c \in WriteCalls : Write(c)
  \/ \E c \in OrCalls : Or(c)
  \/ \E r \in OtherCalls : Other(r)

Spec == Init /\ [][Next]_vars

=============================================================================
