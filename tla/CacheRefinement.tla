-------------------------- MODULE CacheRefinement --------------------------
(***************************************************************************)
(* The hierarchy as an implementation of a flat memory: the abstract       *)
(* memory is main memory itself, for the caches are write-through.         *)
(***************************************************************************)
EXTENDS Cache

(***************************************************************************)
(* The promise to the caller, for aligned calls: the hierarchy, with its   *)
(* stale entries, its dead L2 and the calls that run out of memory,        *)
(* implements a flat memory.                                               *)
(***************************************************************************)
Flat == INSTANCE FlatMemory WITH
  ReadCalls <- {[cache |-> CacheOf(c.type), addr |-> c.addr,
                 bytes |-> Selected(c.size, c.addr)] : c \in Reads},
  WriteCalls <- Writes,
  OrCalls <- ByteWrites,
  OtherCalls <- {[op |-> "FLUSH", cache |-> k] : k \in Flushes}
                  \cup {[op |-> "INSERT", cache |-> "L2_CACHE", addr |-> p.addr] : p \in Preloads}
                  \cup {[op |-> "FAILED", cache |-> CacheOf(c.type), addr |-> c.addr] : c \in Reads}
                  \cup {[op |-> "FAILED", cache |-> "L1_DCACHE", addr |-> c.addr] : c \in Writes}
                  \cup {[op |-> "FAILED", cache |-> "L1_DCACHE", addr |-> c.addr] : c \in ByteWrites}

FlatSpec == Flat!Spec

=============================================================================
