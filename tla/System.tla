------------------------------- MODULE System -------------------------------
(***************************************************************************)
(* The driver of test-cache.c: it loads a memory (memory.c), then executes *)
(* one command after the other: page_walk (page_walk.c) over the tables    *)
(* that lie in this memory, then a call of the caches with the physical    *)
(* address.  The commands' writes may change those very tables.  A listing *)
(* read by program_read holds no write (ProgramFile); the programs here    *)
(* are listings made by program_add_command, as the header offers it.      *)
(***************************************************************************)
EXTENDS Cache, Addresses, Sequences

CONSTANTS
  WordValue,        \* the number that a word of memory stands for
  Image,            \* the content of the dump file, as long as the memory
  Unread,           \* the line a fresh malloc'd block holds
  ReadLengths,      \* the numbers of blocks fread may return
  Descriptions,     \* descriptions a caller may load
  ProgramCommands   \* the commands of the programs that are run

VARIABLES
  phase,   \* "off", "run", or how the process ended
  seen     \* history: each block as the instruction cache last returned it

sysVars == <<l1, l2, mem, ret, phase, seen>>

Phases == {"off", "run", "done",
           "no dump",   \* nothing could be read of the dump
           "failed",    \* the description could not be loaded
           "aborted",   \* assert(page_walk(...) == ERR_NONE)
           "crashed",   \* fclose(NULL), or the byte to write read from a low address
           "lost"}      \* an access past the end of the memory: anything

-----------------------------------------------------------------------------
(***************************************************************************)
(* Physical addresses are byte numbers.  A table starts at one.            *)
(***************************************************************************)
BlockBytes == LineWords * WordBytes
MemorySize == (MaxBlock + 1) * BlockBytes
AddrOf(n) ==
  [blk |-> n \div BlockBytes, word |-> (n % BlockBytes) \div WordBytes, byte |-> n % WordBytes]

\* The byte number of a phy_addr_t.
PhyByte(p) == p.phy_page_num * PageSize + p.page_offset

NoEntry == -1   \* the walk has left the memory

ReadPageEntry_Bytes(m, page_start, index) ==  \* mutant: the index counts bytes
  LET a == AddrOf(page_start + index)
  IN IF page_start # NoEntry /\ a.blk \in Block THEN WordValue[m[a.blk][a.word]] ELSE NoEntry

ReadPageEntry(m, page_start, index) ==
  LET a == AddrOf((page_start \div WordBytes + index) * WordBytes)
  IN IF page_start # NoEntry /\ a.blk \in Block THEN WordValue[m[a.blk][a.word]] ELSE NoEntry

\* page_walk, up to the start of the physical page.  No entry has a present bit.
PageWalk(m, v) ==
  LET PUD_start == ReadPageEntry(m, 0, v.pgd)
      PMD_start == ReadPageEntry(m, PUD_start, v.pud)
      PT_start  == ReadPageEntry(m, PMD_start, v.pmd)
  IN ReadPageEntry(m, PT_start, v.pte)

-----------------------------------------------------------------------------
(***************************************************************************)
(* mem_init_from_dumpfile.  fread may return less than was asked for; only *)
(* nothing at all is an error.  A file that cannot be opened is closed.    *)
(***************************************************************************)
Loaded(n) == [k \in Block |-> IF k < n THEN Image[k] ELSE Unread]

Start(m) ==
  /\ mem' = m /\ seen' = m /\ phase' = "run" /\ ret' = [op |-> "LOAD"]
  /\ UNCHANGED <<l1, l2>>

Stop(p) ==
  /\ phase' = p /\ ret' = [op |-> "STOP"]
  /\ UNCHANGED <<l1, l2, mem, seen>>

LoadDump ==
  /\ phase = "off"
  /\ \E n \in ReadLengths : IF n > 0 THEN Start(Loaded(n)) ELSE Stop("no dump")

LoadMissing == phase = "off" /\ Stop("crashed")

(***************************************************************************)
(* page_file_read.  It wants fseek(file, 0, SEEK_END) > 0, which fseek     *)
(* never is.  The addresses are multiples of a block.  A file that is not  *)
(* there is the empty sequence.                                            *)
(***************************************************************************)
FSeek == {0, -1}

PageFileRead(m, file, address, seek) ==
  LET first == address \div BlockBytes
  IN IF seek > 0 /\ Len(file) * BlockBytes = PageSize
     THEN [err |-> FALSE,
           mem |-> [k \in Block |-> IF k - first \in 0 .. (Len(file) - 1)
                                    THEN file[k - first + 1] ELSE m[k]]]
     ELSE [err |-> TRUE, mem |-> m]

(***************************************************************************)
(* mem_init_from_description: page files are read one after the other, the *)
(* PGD at 0, the other tables at the address of their line, the others at  *)
(* the translation of a virtual address by the tables read so far.  Any    *)
(* error ends it.  An address of a table is read by "%d": of a hexadecimal *)
(* one this reads the 0, and the rest is taken for the name of the file.   *)
(***************************************************************************)
DescriptionLine(st, l, seek) ==
  LET page == PageWalk(st.mem, l.vaddr)
  IN IF st.err THEN st
     ELSE IF l.kind = "pgd" THEN PageFileRead(st.mem, l.file, 0, seek)
     ELSE IF l.kind = "hex table" THEN PageFileRead(st.mem, <<>>, 0, seek)
     ELSE IF l.kind = "table" THEN PageFileRead(st.mem, l.file, l.address, seek)
     ELSE IF page = NoEntry \/ ~IsPageBegin(page) THEN [err |-> TRUE, mem |-> st.mem]
     ELSE PageFileRead(st.mem, l.file, PhyByte(InitPhyAddr(page, l.vaddr.page_offset)), seek)

FromDescription(d, seek) ==
  LET after[i \in 0 .. Len(d)] ==
        IF i = 0 THEN [err |-> FALSE, mem |-> [k \in Block |-> ZeroLine]]
        ELSE DescriptionLine(after[i - 1], d[i], seek)
  IN after[Len(d)]

LoadDescription(d) ==
  /\ phase = "off"
  /\ \E seek \in FSeek :
       LET r == FromDescription(d, seek)
       IN IF r.err THEN Stop("failed") ELSE Start(r.mem)

-----------------------------------------------------------------------------
(***************************************************************************)
(* The call of the caches execute_command makes; it ignores what the call  *)
(* returns.  Where cache_write_byte wants a pointer to a byte it passes    *)
(* the low byte of the data itself: NULL, which is refused, or a low       *)
(* address, which is dereferenced once the word has been read, so that     *)
(* only a read which fails for want of memory survives.                    *)
(***************************************************************************)
ReadCommand(c, a) ==
  LET call == [type |-> c.type, addr |-> a,
               size |-> IF c.data_size = WordBytes THEN "word" ELSE "byte"]
  IN c.order = "READ" /\ (Read(call) \/ ReadFails(call))

WordWrite(c) == c.order = "WRITE" /\ c.data_size = WordBytes
ByteWrite(c) == c.order = "WRITE" /\ c.data_size # WordBytes

WordWriteCommand(c, a) ==
  LET call == [addr |-> a, data |-> c.write_data]
  IN WordWrite(c) /\ (Write(call) \/ WriteUncached(call) \/ WriteFails(call))

ByteWriteCommand(c, a) ==
  ByteWrite(c) /\ ReadFails([type |-> "DATA", addr |-> a, size |-> "byte"])

CacheCall(c, a) == ReadCommand(c, a) \/ WordWriteCommand(c, a) \/ ByteWriteCommand(c, a)

NullByte(c) == ByteWrite(c) /\ c.write_data[0] = {}

\* The call returns an error before it does anything.
Refused(c, a) == Fails(CacheOf(c.type), a) /\ UNCHANGED <<l1, l2, mem, phase, seen>>

\* What an instruction read of a block has just returned.
Fetched(cache, a) ==
  LET set == cache["L1_ICACHE"][Index1(a)] IN set[HitWay(set, TagOf1(a))].line

Observed(c, a) ==
  seen' = IF ret'.op = "READ" /\ c.type = "INSTRUCTION" /\ Aligned(a)
          THEN [seen EXCEPT ![a.blk] = Fetched(l1', a)] ELSE seen

\* execute_command.
Execute(c) ==
  LET page == PageWalk(mem, c.vaddr)
      a == AddrOf(PhyByte(InitPhyAddr(page, c.vaddr.page_offset)))
  IN /\ phase = "run"
     /\ IF page = NoEntry THEN Stop("lost")
        ELSE IF ~IsPageBegin(page) THEN Stop("aborted")
        ELSE IF NullByte(c) THEN Refused(c, a)
        ELSE IF ~InMemory(a) THEN Stop("lost") \/ Refused(c, a)
        ELSE \/ ByteWrite(c) /\ Stop("crashed")
             \/ CacheCall(c, a) /\ Observed(c, a) /\ UNCHANGED phase

\* The last command was executed: the listing and the memory are freed.
Finish == phase = "run" /\ Stop("done")

SysInit == Init /\ phase = "off" /\ seen = mem

SysNext ==
  \/ LoadDump
  \/ LoadMissing
  \/ \E d \in Descriptions : LoadDescription(d)
  \/ \E c \in ProgramCommands : Execute(c)
  \/ Finish

SysSpec == SysInit /\ [][SysNext]_sysVars

Described ==
  [kind : {"pgd", "table", "hex table", "data"}, file : Seq(Line),
   address : {n \in Nat : n % BlockBytes = 0}, vaddr : VirtAddr]

ASSUME SystemAssumption ==
  /\ WordValue \in [Word -> Nat]
  /\ Image \in Memory /\ Unread \in Line
  /\ ReadLengths \subseteq 0 .. (MaxBlock + 1)
  /\ \A c \in ProgramCommands :
       /\ c.vaddr \in VirtAddr /\ c.vaddr.page_offset % WordBytes = 0
       /\ c.type \in {"INSTRUCTION", "DATA"} /\ c.order \in {"READ", "WRITE"}
       /\ c.type = "INSTRUCTION" => c.order = "READ"
       /\ c.write_data \in Word
  /\ Descriptions \subseteq Seq(Described) \ {<<>>}

-----------------------------------------------------------------------------
\* The words a walk reads: their physical addresses.
Path(m, v) ==
  LET PUD_start == ReadPageEntry(m, 0, v.pgd)
      PMD_start == ReadPageEntry(m, PUD_start, v.pud)
      PT_start  == ReadPageEntry(m, PMD_start, v.pmd)
  IN {AddrOf(v.pgd * WordBytes), AddrOf(PUD_start + v.pud * WordBytes),
      AddrOf(PMD_start + v.pmd * WordBytes), AddrOf(PT_start + v.pte * WordBytes)}

VirtPages == {v \in VirtAddr : v.page_offset = 0}

(***************************************************************************)
(* The tables lie in the memory the program writes, through a cache, while *)
(* page_walk reads past the cache: a page moves only when the program      *)
(* writes one of the four entries on its path, and from then on.           *)
(***************************************************************************)
RemapsOnlyWrittenEntries ==
  [][phase = "run" =>
       \A v \in VirtPages :
         PageWalk(mem', v) # PageWalk(mem, v) =>
           /\ ret'.op = "WRITE"
           /\ \E x \in Path(mem, v) : x.blk = ret'.addr.blk /\ x.word = ret'.addr.word]_mem

(***************************************************************************)
(* A walk over what the data cache holds, where it holds something, gives  *)
(* the translations that the walk over the memory alone gives.             *)
(***************************************************************************)
ThroughCache ==
  [k \in Block |->
     LET set == l1["L1_DCACHE"][k % L1Lines]
     IN IF Hit(set, k \div L1Lines) THEN set[HitWay(set, k \div L1Lines)].line ELSE mem[k]]

WalksSeeCachedTables ==
  phase = "run" => \A v \in VirtPages : PageWalk(ThroughCache, v) = PageWalk(mem, v)

=============================================================================
