------------------------------ MODULE MCCache ------------------------------
(***************************************************************************)
(* Instances of Cache for TLC.  The proportions of the code are kept: L2   *)
(* has twice the ways of L1 (8 = 2 * 4), and L1Ways * 2 times its lines    *)
(* (512 = 8 * 64).  Blocks 0, 2, 4 (and 6, 8, 10) share set 0 of an L1 of  *)
(* 2 lines and 2 ways, which makes 3 blocks compete for 2 ways.            *)
(***************************************************************************)
EXTENDS CacheRefinement

At0(k) == [blk |-> k, word |-> 0, byte |-> 0]
AtOff(k, w, b) == [blk |-> k, word |-> w, byte |-> b]

BitsOf(n) == {b \in Bits : (n \div (IF b = 0 THEN 1 ELSE 2)) % 2 = 1}

\* Blocks that differ in both words, so that a stale or a foreign line shows.
MCMem == [k \in Block |-> [w \in WordIdx |-> [b \in ByteIdx |->
            IF b = 0 THEN {} ELSE BitsOf(k + w)]]]
MCInitMems == {MCMem}

MCWord(x, y) == [b \in ByteIdx |-> IF b = 0 THEN x ELSE y]
ZeroWord == [b \in ByteIdx |-> {}]

ReadAt(type, size, a) == [type |-> type, size |-> size, addr |-> a]

-----------------------------------------------------------------------------
AlignedGarbage == {ZeroEntry}
AlignedGarbageWords == {ZeroWord}

NoCalls == {}

-----------------------------------------------------------------------------
(***************************************************************************)
(* Aligned calls with flushes between them: stale tags, ages and lines     *)
(* stay behind.                                                            *)
(***************************************************************************)
FlushedReads ==
  {ReadAt("DATA", "word", At0(k)) : k \in {0, 2, 4}}
    \cup {ReadAt("INSTRUCTION", "byte", At0(7)), ReadAt("INSTRUCTION", "word", At0(9))}

FlushedWrites == {[addr |-> At0(0), data |-> MCWord({0}, {0, 1})]}

\* To the byte the word write sets bit 0 of, so that bits are seen to stay.
FlushedByteWrites == {[addr |-> At0(0), data |-> {1}]}

SafeFlushes == {"L1_DCACHE", "L2_CACHE"}

-----------------------------------------------------------------------------
(***************************************************************************)
(* Calls at any byte.  The garbage is a zeroed heap and a recycled entry:  *)
(* a valid one, of age 1, with the tag of another block.                   *)
(***************************************************************************)
UnalignedReads == {ReadAt("INSTRUCTION", "word", AtOff(5, 1, 0))}

UnalignedWrites ==
  {[addr |-> AtOff(0, 1, 0), data |-> MCWord({0}, {0, 1})],
   [addr |-> At0(4), data |-> MCWord({0}, {0, 1})]}

\* Each reads at its address first.
UnalignedByteWrites == {[addr |-> AtOff(2, 1, 1), data |-> {1}]}

Recycled == [v |-> VALID, age |-> 1, tag |-> 2, line |-> MCMem[5]]
UnalignedGarbage == {ZeroEntry, Recycled}
RecycledGarbage == {Recycled}

-----------------------------------------------------------------------------
\* Entries inserted in L2 by the caller: the only way into the L2-hit branches.
PreloadedReads ==
  {ReadAt("DATA", "word", At0(k)) : k \in {0, 2, 4}}
    \cup {ReadAt("INSTRUCTION", "word", At0(0))}

PreloadedWrites == {[addr |-> At0(4), data |-> MCWord({0}, {0, 1})]}

MCPreloads == {[addr |-> At0(0), way |-> 0], [addr |-> At0(8), way |-> 1]}

=============================================================================
