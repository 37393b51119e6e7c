# Verification of the Kaby Lake cache simulator

TLA+ models, model-checking runs and machine-checked proofs for the C program in `src/`: a
simulator of the address translation and of the caches of an Intel Kaby Lake processor.

## 1. The system

The program is sequential: a test driver loads a memory image, reads a list of commands, and calls
the components below one command at a time. There are no threads, no callbacks other than the
replacement policy's two function pointers, no persistence and no messages. What makes it hard is
*data layout and long sequences of calls*: three arrays kept consistent by hand-written macros,
ages in bit fields, copies of one datum in up to four places, entries reinterpreted in another
type, errors that callers ignore.

| component | state | operations | what makes it correct |
|---|---|---|---|
| cache hierarchy: `cache.h`, `lru.h`, `cache_mng.c` | an instruction L1 and a data L1 (64 lines x 4 ways), an L2 (512 x 8), the main memory | `cache_read`, `cache_read_byte`, `cache_write`, `cache_write_byte`, `cache_flush`, `cache_insert` | a read returns memory; a write changes its bytes and no others; a block is cached once; copies agree; replacement follows the policy |
| TLB hierarchy: `tlb_hrchy.h`, `tlb_hrchy_mng.c` | direct-mapped L1 ITLB and DTLB (16 lines each), L2 TLB (64) | `tlb_search`, `tlb_insert`, `tlb_flush` | translations are the page table's; L1s are included in L2, until an allocation fails; two levels look like one |
| page walk and addresses: `page_walk.c`, `addr_mng.c` | none: reads memory | `page_walk`, conversions of addresses | a page moves only when its path is written; conversions lose no bit |
| simple TLB: `tlb_mng.c` | 128 lines and a linked list of their indices | `tlb_search` (`tlb_hit`, `tlb_insert`), `tlb_flush` | the line replaced is the least recently used |
| linked list: `list.c` | nodes and two end pointers | push, pop, `move_back`, clear | the two directions agree; no node is lost or freed twice |
| commands: `commands.c` | a listing that grows by reallocation | `program_init`, `program_read`, `program_add_command`, `program_shrink`, `program_free` | the listing holds every command added, within its memory, and what the file says |
| memory images: `memory.c` | one allocated block | load from a dump or a description | the memory holds the files; a failure is noticed |
| cache driver: `test-cache.c` | the three caches, the memory, the program | load, then translate and execute each command | the program sees one translated memory |
| errors, utilities: `error.c`, `error.h`, `util.h` | none | macros | they return an error code from the caller |

**Interactions.** A driver calls `page_walk` and then the caches with the physical address
(`test-cache.c`), or a TLB, which calls `page_walk` on a miss (`test-tlb_hrchy.c`,
`test-tlb_simple.c`). The page tables lie in the memory that the caches write: `page_walk` reads
them past the caches, and `mem_init_from_description` walks tables it has just loaded.
`cache_write_byte` and `cache_read_byte` call `cache_read`; `cache_write_byte` then calls
`cache_write`. The simple TLB owns the order of the list through `move_back`. Both L1s, L2 and the
memory are passed to every cache call by the caller, which owns them.

## 2. Modules

| module | what it is | EXTENDS or instantiates |
|---|---|---|
| `CacheSet` | one set of a cache, and the primitives on it: hit, find_place, lru, the two age updates, insertion | |
| `Cache` | the hierarchy: state, one action per call, invariants and action properties | `CacheSet` |
| `FlatMemory` | abstract: a memory with no cache, what the hierarchy promises | |
| `CacheRefinement` | `FlatSpec`, the refinement mapping from `Cache` to `FlatMemory` | `Cache`, `FlatMemory` |
| `MCCache` | instances for TLC | `CacheRefinement` |
| `CacheSetProofs` | what the primitives return, for any number of ways | `CacheSet` |
| `CacheProofs` | theorems about `Cache` for addresses of any kind | `Cache`, `CacheSetProofs` |
| `CacheAlignedProofs` | theorems about `Cache` for aligned addresses, `FlatSpec` among them | `CacheRefinement`, `CacheProofs` |
| `TLBHierarchy` | the TLB hierarchy: `tlb_search` by its outcomes, `tlb_insert`, `tlb_flush` | |
| `SingleTLB` | abstract: one direct-mapped TLB of L2's size | |
| `TLBRefinement` | the refinement mapping from `TLBHierarchy` to `SingleTLB` | `TLBHierarchy`, `SingleTLB` |
| `MCTLB` | instances for TLC | `TLBRefinement` |
| `TLBProofs` | theorems about `TLBHierarchy`, the refinement among them | `TLBRefinement` |
| `LinkedList` | the list: `push_back`, `push_front`, `pop_front`, `move_back`, `clear_list`, the loops over its nodes | |
| `SimpleTLB` | the fully associative TLB over the list | `LinkedList` |
| `LruTLB` | abstract: a TLB that holds the pages used last, and may lose a line | |
| `SimpleTLBRefinement` | `LruSpec`, the refinement mapping from `SimpleTLB` to `LruTLB` | `SimpleTLB`, `LruTLB` |
| `MCSimpleTLB` | an instance for TLC | `SimpleTLBRefinement` |
| `SimpleTLBProofs` | theorems about `LinkedList` and `SimpleTLB` | `SimpleTLBRefinement` |
| `Addresses` | the conversions of virtual and physical addresses | |
| `Commands` | a `program_t` and the operations on it | `Addresses` |
| `ProgramFile` | a caller of `commands.c`; `program_read`, an iteration a step | `Commands` |
| `CommandList` | abstract: a list of commands to append to | |
| `ProgramRefinement` | `ListSpec`, the refinement mapping from `ProgramFile` to `CommandList` | `ProgramFile`, `CommandList` |
| `MCProgram` | an instance for TLC | `ProgramRefinement` |
| `System` | `test-cache.c`: loading a memory, `page_walk` over it, the caches | `Cache`, `Addresses` |
| `TranslatedMemory` | abstract: a program over a translated memory with no cache | `Addresses` |
| `SystemRefinement` | `TranslatedSpec`, the refinement mapping from `System` to `TranslatedMemory` | `System`, `TranslatedMemory` |
| `MCSystem` | an instance for TLC | `SystemRefinement` |
| `AddressProofs` | the fields of an address as digits of a mixed base | `Addresses` |
| `ProgramProofs` | theorems about `ProgramFile` | `ProgramRefinement`, `AddressProofs` |
| `SystemProofs` | theorems about `System` | `SystemRefinement`, `CacheAlignedProofs`, `AddressProofs` |

### Cache

A call of the interface is one step, because nothing runs between its parts. Inside, a call is an
operator from a record `[l1, l2, mem, word]` to the record it leaves: `CacheWriteByte` is, like
`cache_write_byte`, a `CacheRead` followed by a `CacheWrite` on what the read left. `word` is the
caller's `*word`, which is *not* always assigned (`ReadL2Hit` with a free way), so it starts as any
member of `GarbageWords`. An entry that `malloc` returned starts as any member of `Garbage`: it stays so
when `cache_entry_init` refuses an unaligned address and its caller goes on. An address is
`[blk, word, byte]`; bytes are sets of bits, so `|=` is a union, in `FlatMemory` too: what the header
says of a byte write instead is the property `WritesStoreTheirData`, which run `byte_write` refutes.

Every call allocates on its way. An allocation that is checked makes the call return an error at
once: `ReadFails`, `WriteFails` and `WriteByteFails` leave any of the states the call may have reached by
then (ages of the way that was hit; a line of L2 already stored). In `cache_write` with no hit the
`malloc` of the new entry is not checked, `cache_entry_init` and `cache_insert` refuse its `NULL`, and
the call succeeds with the block in memory only (`WriteUncached`, `WriteByteUncached`). The three other
unchecked allocations (`cache_mng.c:454`, `492`, `516`) are dereferenced at once: the process ends,
which is no step of the model.

The branches reached on an L2 hit index one array with another's number of ways, and look up L2 in
the type of an L1. For these, `Slots` lays the three arrays out one after the other, as
`test-cache.c` declares them and as adjacent locals usually lie, and `AsL1`/`AsL2` convert an entry
by what the overlapping bit fields do. The same layout gives `cache_flush` its `Overrun`: it clears
one entry past the end of its array. A layout with padding between the arrays would lose the
overrun's effect, not add one.

### TLBHierarchy

`tlb_search` is one step by its outcomes (`L1Hit`, `L2Hit`, `Walk`, `Fault`); the walk is the
constant function `PageTable`, which may fail. Each entry it makes is a `malloc` that may fail as
well: `L2HitNoMemory` (`tlb_hrchy_mng.c:230`, `242`), `WalkNoMemoryL2` (`259`: the other L1 has been
invalidated, L2 is as it was) and `WalkNoMemoryL1` (`267`, `275`: L2 is overwritten, the own L1 is not
filled and may still hold the page that L2 lost). The last is the one way a page gets into an L1 and
not L2, an *orphan*; `SingleTLB` calls it a page `left` behind. Both copies of the miss path are one definition: the
access's own L1 is filled, the other is searched for the page L2 drops *before* L2 is
overwritten. A virtual page number is a number; its remainder is the line and its quotient the
tag. `tlb_search_invalid` rebuilds the number in `uint32_t`, hence `VaddrRange`. The page offset is
copied only and left out.

### LinkedList and SimpleTLB

A list is a record of its two end pointers and its nodes; a node is an address from `Nodes` and holds a
value and two pointers, so that a link forgotten in one direction shows. Each `malloc` is a choice:
an address not in use, or `NULL`. `move_back` moves the front by pushing a copy and popping the
original; the pop happens although the push may have failed, and it does not free its node, which
leaves the model when nothing points to it. `SimpleTLB` is `tlb_search` by its outcomes (`Found`,
`Walked`, `NoMemory`, `Fault`): the scan follows `previous` from the back, the replacement takes
the front. A failed allocation of a node loses a line number for good; `LruTLB` says what that means:
from then on, an LRU TLB with one line less.

`PushFront`, which the program never calls, and `Freed`, what `clear_list` passes to `free`, in order,
which `test-tlb_simple.c:105` calls when its searches are over, are checked as operators, on every list
that up to two pushes at either end make of an empty list or of the TLB's.

### Commands and ProgramFile

A `program_t` is a record of its fields, what its pointer points to (`block`: unset, `NULL`, live,
freed) and how many commands the heap really gave it (`capacity`, which the code does not have): a
command stored past it makes `block` "overrun", a pointer freed that no allocation returned
"bad_free", and both end the behaviour. Every allocation may fail. `Realloc` keeps the old content
and leaves `Unset` in what it adds. A file is a sequence of lines of seven kinds, which is what
`read_read` and `read_write` tell apart; an iteration of `program_read` reads one. Its local
`command` is declared inside the loop and never initialised: it starts as any of `GarbageCommands`,
and keeps its value from one iteration to the next, because it lies in one place of the stack. That
is what decides which command a line is that fails to parse: `read_write` always fails, for it
compares the `D` of `DW` with the enumeration `READ`, `WRITE`, and its error is ignored. A reader
of the code must also know that an offset that is no multiple of a word is refused for an access to a
byte too (`commands.c:123`): `tests/11.basic.sh` reads `files/commands01.txt`, whose third line is such
a read, and expects its five commands carried out, but `program_read` fails on it (so do the model's
files with a read at offset 6). And that `program_read` wants a non-null `listing` before it makes one, so
that a `program_t` on the stack is enough or not by what the stack holds (`Init`).

### System and TranslatedMemory

`System` adds to the state of `Cache` a `phase`: nothing loaded, running, or how the process ended.
`LoadDump` may read less than the file (`ReadLengths`: `fread`'s short count is not an error unless
it is 0), and what it did not read is what `malloc` left. `LoadDescription` runs `DescriptionLine`
over the lines of a description, one after the other (a recursive function), with page walks over the
tables loaded so far. The number a word stands for is a constant, `WordValue`: nothing depends on the
order of its bytes. TLC's instance reads them little-endian, as the code's machine does. Addresses of
a description are
written in hexadecimal and read by `"%d"`, which stops after the `0`; the rest becomes the start of the
file name. None of this is reached, because `fseek`'s 0 is taken for an error (`memory.c:277`), so no
description loads, whatever `memory.h:47` says; it is modelled so that a repaired test (`seek > 0`) would be checked on all of it.
`Execute` is `execute_command`: a walk, `init_phy_addr`, one call of the caches, taken from `Cache`
with its failures, whose error it ignores. A read or a word write is that call. A byte write
is not: where `cache_write_byte` takes a pointer, `test-cache.c:70` passes the low byte of the data
itself. A byte 0 is `NULL`, which is refused, so nothing is written (`Refused`); any other is an
address that `cache_mng.c:616` dereferences, after its `cache_read`, so the process ends
("crashed") unless that read failed for want of memory (`ByteWriteCommand`). `files/commands01.txt:4`
has such a command. Since `program_read` loads no write (`WritesAreNeverLoaded`), the programs with writes
are listings made by `program_add_command`. A walk or an access past the memory ends in the phase "lost", of which nothing more is said;
`assert(page_walk(...) == ERR_NONE)` ends in "aborted".

`TranslatedMemory` writes words only, refuses or crashes on bytes as the driver does, and may fail any
command without effect. It knows no cache, and neither the program's addresses of tables nor how it walks: a
page is four nested lookups, and an access outside memory is one that has no place there. Its one concession is `seen`, a history variable of `System` too:
what each block was when the instruction cache last returned it. The two L1s do not see each other's
writes, so a fetch returns the block as it is or as it was last fetched, and `TranslatedSpec` says:
nothing older, nothing else, whatever the program writes, its own page tables and the code it runs
included.

Definitions marked `mutant` are plausible wrong versions of the definition next to them; the
specification does not use them. Each property has been seen to fail with one of them.

## 3. Runs

| run | instance | checks |
|---|---|---|
| `aligned` | aligned calls: data reads of 3 blocks that compete for the 2 ways of one set, a word write, a byte write to a byte the word write sets, instruction reads of two blocks, flushes of the data L1 and of L2; failing allocations | `ValidPrefix`, `UniqueTags`, `Coherent`, `ICacheNeverAges`, `StuckSetsStayStuck` (replacement is not LRU once a set is full), and `FlatSpec`: the caches are invisible |
| `unaligned` | calls at any byte of a block, with clean and recycled `malloc` entries | `L2NeverValid`, `MemoryFootprint`, `OtherSetsUntouched`: what survives even then |
| `preload` | valid entries put in L2 through `cache_insert`, the only way into the L2-hit branches | `TypeOK` |
| `tlb_search` | searches of six pages that share lines, one without a translation; failing allocations, L1s flushed at any time | `OnlyFailuresOrphan`: only a search that ran out of memory leaves an L1 a page L2 has lost; `OnlyEvictedPagesInvalidated`, `WalkFillsOwnL1`, and `SingleSpec`: the outcomes of one TLB |
| `tlb_calls` | the whole interface: insertions by the caller, L2 flushes | `TypeOK`, `Translated` |
| `simple_tlb` | five pages, one without a translation, on three lines; failing allocations, flushes | `TypeOK`, `ListOK`, `Translated`, `FreeLinesFirst`, `LruSpec`: the list and the lines are those of an LRU TLB; and, of the list alone, that pushes build lists and `clear_list` frees them, `PushesBuildLists`, `ClearFreesEachOnce` |
| `program` | every file of up to two lines of six kinds, a file of five reads and one with a write between reads; calls in any order, before, between and after; failing allocations; three contents of the uninitialised command | `TypeOK`, `OverrunOnlyAfterShrink`, `ReadsAreLoaded`, `WritesAreNeverLoaded`, `ListSpec`: a program is a list, however it grows; `ReadReturns`: reading ends |
| `system` | a dump read whole, in part or not at all; reads, fetches and word writes of a page and of the page table that maps it, byte writes of a 0 and of another byte; failing allocations | `WalksSeeCachedTables`, `RemapsOnlyWrittenEntries`, `TranslatedSpec`: the driver is a program over a translated memory |

Each of these runs expects a violation; it shows where a sentence of the repository and the code differ:

| run | what is said | what the code does |
|---|---|---|
| `unaligned_read` | `cache_mng.h:118` the word returned is the cache's | `cache_entry_init` refuses the address, the error is ignored, the word is read from a `malloc`'d entry |
| `byte_write` | `cache_mng.h:173` writes a byte of data | the byte is or'ed into the one there, whose other bits stay |
| `tlb_own_l1` | `tlb_hrchy_mng.c:240` computes the line of the data TLB for a data access | the entry goes into the instruction TLB |
| `program_file` | `commands.h:93` reads a program from a file | a write of the file becomes the command of the line before, or what the stack held |

Three more sentences are not kept, and the passing runs say what holds instead: "a word is changed"
(`cache_mng.h:153`; at an unaligned address the 16 bytes from there are: `MemoryFootprint`),
"behaves like a victim cache" (`cache.h:66`; L2 holds nothing: `L2NeverValid`, theorem `L2IsDead`),
"LRU" (`README.md:11`; a full set whose ages are 0 evicts its last way for
ever: `StuckSetsStayStuck`).

**Bounds.** An L1 of 2 lines of 2 ways, an L2 of 8 lines of 4 ways, 2 words of 2 bytes of 2 bits, 12 blocks
(7 in `unaligned`, 9 in `preload`, as many as their calls reach): the proportions of the code (64 lines of 4 and 512 of 8) are kept where code depends on
them: L2 has twice the ways of L1 and, as 512 = 2 * 4 * 64, twice its ways times its lines. Three
blocks in a set of two ways give every eviction; two words and two bytes give every unaligned
offset; two sets show a disturbance of the other. The memory's words differ, so that a stale or
foreign line is noticed. `HIT_WAY_MISS` (255) is scaled to 3; it is only used as an index once, past
the end of the set. For the TLBs: 2-line L1s, a 4-line L2, 16 pages of which 32-bit arithmetic tells
8 apart (`VaddrRange` stands for 2^32 of 2^36 pages): 0 and 8 alias, 0, 4, 8 and 12 share every
line, 6 has no translation. The simple TLB has 3 lines, the least with a node between the ends of
the list, 4 pages to compete for them and one node more than lines, which moving the front needs;
nodes are symmetric, since the code compares them for equality only. For programs: a first listing
of 3 commands (`FirstSize`, 10 in the code), a pointer of 2 bytes (8) and a command of 4 (32), in
the order of the code; 5 lines make the listing grow, in `allocated`, from 2 to 4 to 8, that is once
within its first memory and twice over. `MaxLines` = 5 bounds what a caller adds itself. Addresses
have an offset of 3 bits and four fields of one, and the file of five reads has an address for each
field alone and one for all of them. For the system: pages of 8 bytes (two blocks), directories of 2
entries that fill half of a page, as in the code (512 words of 4 bytes in 4096), 6 pages, words of 2
bytes of 3 bits, enough for the byte number of any entry; sets of one way in the L1s, for which the PT and
two pages compete, and an L2 of 2 lines of 2 ways, since it never holds a block (`L2IsDead`). Commands
set the entry of page 0 to another page or to the PT itself, so that the write to page 0 spoils it,
and where the dump ends early the tables point to the PT or past the memory, so that every phase is
reached. No counter is unbounded,
no state constraint is used, and each passing run explores its full state space.

**Fairness and liveness.** The caches, the TLBs and the driver are passive: no call is owed, and
nothing is assumed fair of them. `program_read` is the one loop whose end depends on data, and
`ProgramFile` assumes weak fairness of its iterations, `ReadLine` and `ReadEnd`: nothing else runs
while it does and it waits for nothing. `ReadReturns` needs that every iteration consumes input, the
`W` left over from a word write included, and that the condition is a conjunction. Callers' calls
are under no fairness. Deadlock is checked in the runs of the caches and the TLBs, where a call is
always enabled; `program` and `system`, and the run that refutes a sentence about `program_read`, switch
it off, because there the process ends or crashes.

## 4. Proofs

All theorems hold for every value of the constants under the modules' `ASSUME`s, which TLC
evaluates on every run: positive sizes, L1's lines dividing L2's, ways of L1 no more than
L2's, and callers that pass addresses inside the memory and data of the right type.

`CacheProofs`, under `NoPreload` (no caller inserts entries in L2), with **no** assumption about
alignment, flushes, which allocations fail or what the others return:

- `TypeSafety`: `TypeOK`. Ages and tags never leave their bit fields.
- `L2IsDead`: `L2NeverValid`. The second level of the simulated hierarchy never holds a block.
- `Footprint`: `MemoryFootprint`. Only a write changes memory, within a line's length of its address.
- `Isolation`: `OtherSetsUntouched`. An access, failed or not, changes its own set of its own L1 only.

and, with any entries inserted in L2, when L2 has twice the ways of L1 (`TwiceTheWays`, as 8 and 4 are):

- `TypeSafetyInserted`, `FootprintInserted`: `TypeOK`, `MemoryFootprint`. `Isolation` is then false: an
  L2 hit clears the valid bit of an entry of another set, or of another cache.

Under `NoPreload` the inductive invariant (`IInv`) is `TypeOK /\ L2Empty(l2)`. Neither conjunct is
inductive alone: type-correctness in any geometry needs an empty L2, for an L2 hit reads the entries of one
array in the type of another, whose bit fields need not hold them; and emptiness needs the types, for the
lookup in L2 as if it were an L1 must find each entry it reads to be an entry. With `TwiceTheWays` the
top bit of an L2 age is the lowest of an L1 tag, and `TypeOK` alone is inductive: a slot, whatever the
stride that computed it, is an entry of its array (`SlotFacts`), an entry moved between the types fits
(`AsL1Type`, `AsL2Type`), and ages written through the L1 view leave that bit as it was
(`SetL1AgesType`). The step is proved call by call, from one lemma per branch
(`ReadL1Hit`, `ReadMiss`, `WriteL1Hit`, `WriteMiss`) on the record `s`; a byte write is then the two
lemmas in sequence. `CacheSetProofs` shows once that `HitWay`, `FindPlace` and `ApplyLru` return a way
of the set (a greatest age exists because ages are bounded), and that the age updates keep ages in
range.

`CacheAlignedProofs`, when besides every address is 16-byte aligned (`AlignedCalls`), in
three regimes, each as wide as the code allows:

- `ScanIsComplete`, `InstructionsNeverAge`, `StuckForEver`: `ValidPrefix`, `ICacheNeverAges`,
  `StuckSetsStayStuck`, whatever is written or flushed. `hit` gives up at the first invalid way and
  misses nothing by it; a full set whose ages are 0 is never replaced but in its last way.
- `CachedOnce`: `UniqueTags`, if the instruction L1 is not flushed. That flush runs one entry past
  its array and clears the tag of the first entry of the data L1, which may then equal another's.
- `WriteThrough`, `ActsAsFlatMemory`: `Coherent`, `FlatSpec`, if moreover no block that is fetched as an
  instruction is ever written (`CoherentCalls`): a write goes to the data L1 and to memory, never to
  the instruction L1.

With an empty L2 a call at an aligned address changes one set (`AlignedRead`, `AlignedWrite`), by
`ReadSet` or `WriteSet`; the rest is about these. A block that misses is nowhere in its set, because
the valid ways come first *and* no tag is there twice; so filling a way, a free one or the victim's,
keeps both (`FilledKeepsValid`), and, if the line is memory's, `Holds`: what a way holds is memory at
the block that its tag and index name. `Good` is the three together. `CInv`, the invariant of
coherence, is `IInv`, `Good` of every set, and that no way of the instruction L1 holds a block that
a call may write: without this last conjunct a write would break `Holds` in a set it does not touch.
A read then returns memory's word, a write stores memory's line with one word changed, and a byte
write is both in sequence, so each call is the step of `FlatMemory`; a call that fails changes ages at most,
or fills the cache by its read, and `FlatMemory` does nothing (`WriteFailedKeepsGood`,
`UnallocatedKeepsGood`).

`TLBProofs`:

- `TypeCorrect`: `TypeOK`, under the whole interface.
- `TranslationsAreThePageTables`: `Translated`, for callers that insert entries on their page's line.
- `OrphansComeOfFailures`: `OnlyFailuresOrphan`, for callers that fill the TLBs only by searching and do
  not flush L2 (`SearchOnly`). A search leaves no new orphan unless it is a `WalkNoMemoryL1`, and that one only
  the page L2 lost, in its own L1.
- `InclusionWhileMemoryLasts`: for the same callers, every page an L1 finds is in L2 in every behaviour
  without a `WalkNoMemoryL1`.
- `ActsAsSingleTLB`: `SingleSpec`, for the same callers: initial states map to initial states, each
  search to the abstract step with the same outcome, a flush of an L1 to a step that forgets orphans.
- `InvalidatesEvictedOnly`: `OnlyEvictedPagesInvalidated`, although only 32 bits are compared, for every caller.
- `WalksFill`: `WalkFillsOwnL1`, under the whole interface, from `TypeOK` alone.

Which pages are orphans after a search is one lemma, `SearchOrphans`. On a walk, an L1 entry survives if
its page is on another L2 line (nothing there changes), and otherwise must be the page that L2 drops
or not be there: the own L1 overwrites it because L1 lines nest in L2 lines, and in the other L1
`tlb_search_invalid` finds it, since equal pages compare equal in any width. That it invalidates no
other page of L2 is said in the property: a valid L1 entry that compares equal lies on the line being
overwritten, so if its page is in L2 it is the one L2 held there. An orphan of that line may
be invalidated too. What the L1s say of an orphan is right all the same (`Translated`, the other half of
the invariant of `ActsAsSingleTLB`).

`SimpleTLBProofs`, for every number of lines, every page table, every sequence of searches and flushes,
and whatever `malloc` gives or refuses:

- `FieldsInRange`, `ListIsWhole`, `SearchTranslates`, `FreeLinesGoFirst`: `TypeOK`, `ListOK`,
  `Translated`, `FreeLinesFirst`.
- `ReplacesLeastRecentlyUsed`: `LruSpec`. The lines and their list are an LRU TLB that loses a line
  with each node it cannot allocate.
- `PushesBuild`, `ClearFrees`: `PushesBuildLists`, `ClearFreesEachOnce`.

What makes the list correct is said of an order of its nodes: `Chain(l, q, n)` says that `q` lists
`n` nodes, all different, each pointing to its neighbours in `q`. `ListOK` follows from a chain (both
loops visit `q`, or `q` reversed), but is not inductive: it says nothing of nodes that are linked
and not visited. Each operation maps a chain to a chain: `PushBack` to `q` and a new node,
`PopFront` to the tail, `Relink` to `q` with one node moved to the end. The invariant `TLBInv` is
`TypeOK`, `Translated`, a chain, and `Order` of the values on it: they are different lines, the free
ones come first, and no two of them hold one page. From `Order` the scan from the back meets the only
line of its page, and the front line is a free one or that of the page not used for the longest time. The loops are recursive functions of the number of steps, so
nothing is proved by induction over them: two functions that start alike and step alike are equal
(`SameSteps`, by a least number where they differ), and the loop is then the function written down
from the chain.

`AddressProofs` and `ProgramProofs`, for every size of a page, a directory, a command and a first
listing, which counts no fewer commands than a pointer has bytes, for all files and any content of
uninitialised variables:

- `AddressesComeBack`: `RoundTrips(n)`, fields, number and page number, for every number `n`. One lemma,
  `Digit`, says that the remainder by `b * c` is a digit in base `b` and a number in base `c` above it; applied four times it
  gives the fields.
- `TypeSafety`: `TypeOK`. No line of a live program is memory that nobody wrote.
- `NoOverrun`: `OverrunOnlyAfterShrink`. No sequence of calls runs past the listing without a `program_shrink`.
- `ActsAsList`: `ListSpec`. A `program_t` is a list that is made, appended to and freed, through every
  reallocation and every failure of one; only a shrunk one may crash when it is extended.
- `ReadsLoad`: `ReadsAreLoaded`. A file of reads is loaded line by line, in order.
- `WritesAreLost`: `WritesAreNeverLoaded`, if what the stack held is no write of the file
  (`GarbageIsNoWrite`; otherwise that write would be "loaded" by chance).

`TypeSafety`, `NoOverrun` and `ActsAsList` rest on the inductive invariant `IInv`, whose heart is `Sound`: in a live program the count is within
both the memory and `allocated`, `allocated` is at least 1 (else doubling it would not make room),
and, as long as `program_shrink` was not called, no more than the memory. The last conjunct is what
makes the comparison in `program_add_command` mean anything; `program_shrink` is the one call that
gives it up. `program_read` must know besides that its program is live while it loops. Each
operation keeps `Sound` by a lemma of its own, `ReallocSound` for both reallocations. What a file
leaves in a program needs `FileInv` besides: while the program's commands come from the file, each is
a read or what the uninitialised command held, and so is the command that the next iteration finds on
the stack; if the file has reads only, the commands so far are its lines so far. What keeps it is that
`read_read` assigns every field by which reads are told apart, and `read_write` none before it fails.

`SystemProofs`, for every geometry of caches and pages, every image, program and `WordValue`, when a page is
a whole number of blocks and the offset in every command's address is a multiple of a block
(`AlignedProgram`; at other addresses the caches return what `malloc` left, see run `unaligned_read`).
Nothing is asked of the tables, which the program may write, nor of the code it runs, which it may
write as well:

- `ActsAsTranslated`: `TranslatedSpec`. Data reads return memory, a write of a word changes it at once, of a
  byte nothing (or ends the process), a call that fails nothing; every address goes through the tables as
  they are then, and a fetch returns the block as it is or was at its last fetch.
- `WalksAreCoherent`: `WalksSeeCachedTables`. `page_walk`, which reads memory past the caches, reads what
  the data L1 would give it.
- `PagesMoveByWrites`: `RemapsOnlyWrittenEntries`. A page moves only in a step that
  writes, and does not fail to, one of the four words on its path.

The invariant `SysInv` extends `IInv`: the data L1 is a copy of memory (`Good` of every set, of
`mem`), the instruction L1 is a copy of `seen`, the memory as last fetched, and both are empty before
a memory is loaded. `seen` replaces the hypothesis on written code that `Coherent` needs: no write
touches `seen` or the instruction L1, and a fetch that misses updates both. The walk and the four nested
lookups of `TranslatedMemory` agree because a byte number is a word number and a digit (`PlaceOf`), and an
aligned offset in a page that starts at a multiple of its size is an aligned address. That a walk changes
only with a word on its path (`PathDecides`) goes level by level. No description loads: every line fails
since `fseek` returns 0 or -1.

**Only model-checked:** `ReadReturns`. The four runs that expect a violation are refutations and have no theorem.
**Out of the prover's reach:** liveness (`ReadReturns`) and `ENABLED`, induction over data, and RECURSIVE
operators; the modules declare none, and recursive functions are reasoned about as above.

## 5. Not modelled, and the plan

1. Cache: that the data L1 alone is coherent under `AlignedCalls` and no flush of the instruction L1, so that
   `FlatSpec` for data needs no hypothesis on written code (`SystemProofs` shows it of the driver's calls).
2. Linked list: the frees of `move_back` and `pop_front`.

The instruction L1 is not flushed in the runs after the start: `cache_flush` then clears tag and age of
the first entry of the data L1, and `Coherent` is false afterwards (cache.h:244). The theorems of
`CacheProofs`, and `ScanIsComplete`, `InstructionsNeverAge` and `StuckForEver`, hold with such flushes.

`pop_back` has no caller and is not modelled (it frees the node before the last and keeps the last).
A `malloc` of the memory that fails, and `*memory`, which stays set when loading fails, are left out of
`System`: the driver ends on any error. `test-addr.c:168` expects of `init_phy_addr` what it
does not do for page numbers that are no page starts; the model follows `addr_mng.c`.

Not planned: `error.c` and `util.h` (macros, modelled where they guard an operation), the dumps and
all printing (`program_print`, `vmem_page_dump_with_options`, `cache_dump`: output only), and the
characters of command lines and descriptions, of which the models keep the kinds.
