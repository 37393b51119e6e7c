------------------------------ MODULE MCProgram ------------------------------
(***************************************************************************)
(* An instance of ProgramFile for TLC.                                     *)
(***************************************************************************)
EXTENDS ProgramRefinement

LineOf(kind, n) == [kind |-> kind, vaddr64 |-> n, data |-> IF kind = "W DB" THEN 7 ELSE 9]

\* Offset 0, one that is not a multiple of a word, and one under a reserved bit.
MCLines ==
  {LineOf("R I", 0), LineOf("R DB", 6), LineOf("R DW", 12 + VirtSize),
   LineOf("W DW", 0), LineOf("W DB", 4), LineOf("R D?", 0)}

\* Every file of up to two lines, one that grows the listing twice and has an address for
\* each field alone and for all of them, and one with a write between reads.
MCFiles ==
  UNION {[1 .. n -> MCLines] : n \in 0 .. 2} \cup
    {<<LineOf("R DB", 8), LineOf("R I", 16), LineOf("R DW", 32 + VirtSize),
       LineOf("R I", VirtSize - 4), LineOf("R DB", 64)>>,
     <<LineOf("R I", 0), LineOf("W DW", 0), LineOf("R DW", 0)>>}

MCCommand(order, type, size, data) ==
  [order |-> order, type |-> type, data_size |-> size, write_data |-> data,
   vaddr |-> InitVirtAddr64(4)]

\* A write, and a write of a byte that is none.
MCAdded == {MCCommand("WRITE", "DATA", WordBytes, 300), MCCommand("WRITE", "DATA", 1, 300)}

\* A cleared stack, one with data where a read wants none, and a whole write.
MCGarbage == {ZeroCommand, [ZeroCommand EXCEPT !.write_data = 5], MCCommand("WRITE", "DATA", 1, 1)}

=============================================================================
