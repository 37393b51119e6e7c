------------------------------ MODULE MCSystem ------------------------------
(***************************************************************************)
(* An instance of System for TLC.  Pages of 8 bytes hold two blocks; the   *)
(* tables of two entries fill half of a page, as in the code.  Page 0 is   *)
(* the PGD, 1 the PUD, 2 the PMD, 3 the PT; pages 4 and 5 hold data.  The  *)
(* sets have one way, for which the PT and both data pages compete.        *)
(***************************************************************************)
EXTENDS SystemRefinement, FiniteSetsExt

\* Words are little-endian numbers, bytes of three bits.
MCWordValue ==
  [w \in Word |-> MapThenSumSet(LAMBDA i : MapThenSumSet(LAMBDA b : 2^b, w[i]) * 8^i, ByteIdx)]

\* The word that stands for n, for bytes of three bits.
WordOf(n) ==
  [i \in ByteIdx |-> {b \in Bits : (((IF i = 0 THEN n % 8 ELSE n \div 8) \div 2^b)) % 2 = 1}]

LineOfWords(x, y) == [w \in WordIdx |-> IF w = 0 THEN WordOf(x) ELSE WordOf(y)]

(***************************************************************************)
(* Virtual page 0 is page 4; virtual page 1 is the PT itself, so a program *)
(* can remap page 0.  The second entries of the upper tables are empty,    *)
(* which sends the walk back to the PGD.                                   *)
(***************************************************************************)
MCImage ==
  [k \in Block |->
     CASE k = 0 -> LineOfWords(8, 0)
       [] k = 2 -> LineOfWords(16, 0)
       [] k = 4 -> LineOfWords(24, 0)
       [] k = 6 -> LineOfWords(32, 24)
       [] OTHER -> LineOfWords(k, k + 16)]

\* Where the dump ends too early, a table that points past the memory, and to the PT.
MCUnread == LineOfWords(56, 24)

MCInitMems == {[k \in Block |-> ZeroLine]}
MCZeroEntry == {ZeroEntry}
MCZeroWord == {WordOf(0)}
NoCalls == {}

VA(pgd, pte) == InitVirtAddr(pgd, 0, 0, pte, 0)

Cmd(order, type, size, n, v) ==
  [order |-> order, type |-> type, data_size |-> size, write_data |-> WordOf(n), vaddr |-> v]

(***************************************************************************)
(* Page 0 is read, fetched and written, and the PT is fetched and written: *)
(* its first entry is set to page 5, or to the PT itself so that the next  *)
(* write of page 0 spoils it, at an address that has no entry in the PGD.  *)
(* A byte is written there, and a byte of 0.                               *)
(***************************************************************************)
MCProgramCommands ==
  {Cmd("READ", "DATA", WordBytes, 0, VA(0, 0)),
   Cmd("READ", "INSTRUCTION", WordBytes, 0, VA(0, 0)),
   Cmd("READ", "INSTRUCTION", 1, 0, VA(0, 1)),
   Cmd("WRITE", "DATA", WordBytes, 60, VA(0, 0)),
   Cmd("WRITE", "DATA", WordBytes, 24, VA(1, 0)),
   Cmd("WRITE", "DATA", WordBytes, 40, VA(1, 0)),
   Cmd("WRITE", "DATA", 1, 1, VA(0, 1)),
   Cmd("WRITE", "DATA", 1, 8, VA(0, 1))}

Page(m, n) == <<m[2 * n], m[2 * n + 1]>>
Table(kind, n) ==
  [kind |-> kind, address |-> PageSize * n, vaddr |-> VA(0, 0), file |-> Page(MCImage, n)]

MCDescriptions ==
  {<<Table("pgd", 0), Table("table", 1), Table("table", 2), Table("table", 3), Table("data", 4)>>,
   <<Table("pgd", 0), Table("hex table", 1), Table("hex table", 2), Table("hex table", 3)>>}

=============================================================================
