-------------------------- MODULE TranslatedMemory --------------------------
(***************************************************************************)
(* What test-cache.c promises: a program over a translated memory, with no *)
(* cache.  A page is found by following the four indices of its address,   *)
(* word by word, in the memory as it is now.  Data is read, and words are  *)
(* written, in place, or not at all.  An instruction is what its block is  *)
(* now, or was when it was fetched last: never anything older than that.   *)
(***************************************************************************)
EXTENDS Addresses

CONSTANTS
  LineWords, WordBytes, MaxBlock,
  InitMems,    \* before that, memory has no meaning
  Images,      \* what may be loaded
  Commands,    \* what the program may execute
  WordValue    \* the number that a word stands for

VARIABLES mem, seen, phase, ret

vars == <<mem, seen, phase, ret>>

WordAt(m, n) == m[n \div LineWords][n % LineWords]

\* A table that starts at byte t: its entries are words.
Lookup(m, t, i) ==
  LET n == t \div WordBytes + i
  IN IF t >= 0 /\ n < LineWords * (MaxBlock + 1) THEN WordValue[WordAt(m, n)] ELSE -1

\* The start of the page of v, negative when the memory does not hold its path.
PageOf(m, v) == Lookup(m, Lookup(m, Lookup(m, Lookup(m, 0, v.pgd), v.pud), v.pmd), v.pte)

Place(n) ==
  [blk |-> n \div (LineWords * WordBytes),
   word |-> (n \div WordBytes) % LineWords, byte |-> n % WordBytes]

Bytes(c, x) == IF c.data_size = WordBytes THEN 0 .. (WordBytes - 1) ELSE {x.byte}

-----------------------------------------------------------------------------
Load(m) ==
  /\ phase = "off"
  /\ mem' = m /\ seen' = m /\ phase' = "run" /\ ret' = [op |-> "LOAD"]

End(p) == phase' = p /\ ret' = [op |-> "STOP"] /\ UNCHANGED <<mem, seen>>

NoMemory == phase = "off" /\ \E p \in {"no dump", "failed", "crashed"} : End(p)

\* Nothing is translated to what is not the start of a page, or not in memory.
Misses(page, x) ==
  \/ page >= 0 /\ ~IsPageBegin(page) /\ End("aborted")
  \/ (page < 0 \/ (IsPageBegin(page) /\ x.blk > MaxBlock)) /\ End("lost")

Read(c, x) ==
  /\ c.order = "READ"
  /\ \E line \in {mem[x.blk]} \cup (IF c.type = "INSTRUCTION" THEN {seen[x.blk]} ELSE {}) :
       /\ seen' = IF c.type = "INSTRUCTION" THEN [seen EXCEPT ![x.blk] = line] ELSE seen
       /\ ret' = [op |-> "READ", addr |-> x,
                  cache |-> IF c.type = "INSTRUCTION" THEN "L1_ICACHE" ELSE "L1_DCACHE",
                  data |-> [b \in Bytes(c, x) |-> line[x.word][b]]]
  /\ UNCHANGED <<mem, phase>>

\* Only words are written.
Write(c, x) ==
  /\ c.order = "WRITE" /\ c.data_size = WordBytes
  /\ mem' = [mem EXCEPT ![x.blk][x.word] = c.write_data]
  /\ ret' = [op |-> "WRITE", cache |-> "L1_DCACHE", addr |-> x, data |-> c.write_data]
  /\ UNCHANGED <<seen, phase>>

\* Writing a byte ends the program, unless the byte is 0.
Crash(c) ==
  c.order = "WRITE" /\ c.data_size # WordBytes /\ c.write_data[0] # {} /\ End("crashed")

\* Any command may run out of memory, and a byte of 0 is always refused: nothing happens.
Fail(c, x) ==
  /\ ret' = [op |-> "FAILED", addr |-> x,
             cache |-> IF c.type = "INSTRUCTION" THEN "L1_ICACHE" ELSE "L1_DCACHE"]
  /\ UNCHANGED <<mem, seen, phase>>

Command(c) ==
  LET page == PageOf(mem, c.vaddr)
      x == Place(page + c.vaddr.page_offset)
  IN /\ phase = "run"
     /\ \/ Misses(page, x)
        \/ /\ page >= 0 /\ IsPageBegin(page)
           /\ Fail(c, x) \/ (x.blk <= MaxBlock /\ (Read(c, x) \/ Write(c, x) \/ Crash(c)))

Done == phase = "run" /\ End("done")

Init ==
  /\ mem \in InitMems /\ seen = mem
  /\ phase = "off" /\ ret = [op |-> "NONE"]

Next ==
  \/ \E m \in Images : Load(m)
  \/ NoMemory
  \/ \E c \in Commands : Command(c)
  \/ Done

Spec == Init /\ [][Next]_vars

=============================================================================
