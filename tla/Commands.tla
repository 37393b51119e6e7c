------------------------------ MODULE Commands ------------------------------
(***************************************************************************)
(* A program: the growing array of commands of commands.c, as operators    *)
(* from a program_t to the one a call leaves.  A program_t is a record     *)
(*      [block, capacity, listing, nb_lines, allocated]                    *)
(* where block says what the pointer `listing' points to, capacity is the  *)
(* number of commands the heap really gave it (the code has no such        *)
(* field), and listing is the content of that memory.                      *)
(***************************************************************************)
EXTENDS Addresses

CONSTANTS
  FirstSize,       \* firstsize, 10
  PointerBytes,    \* sizeof(program->listing), 8
  CommandBytes,    \* sizeof(command_t), 32
  WordBytes,       \* sizeof(word_t), 4
  MaxByte,         \* 0xFF
  Unset            \* the content of memory realloc added

Blocks == {"unset", "null", "live", "freed",
           "overrun",   \* a command was stored past the end
           "bad_free"}  \* a pointer that no allocation returned was freed
Crashed(p) == p.block \in {"overrun", "bad_free"}

Orders == {"READ", "WRITE"}
Types == {"INSTRUCTION", "DATA"}

\* The checks of program_add_command.
Accepted(c) ==
  /\ c.order \in Orders /\ c.type \in Types
  /\ c.vaddr.page_offset % WordBytes = 0
  /\ c.order = "READ" => c.write_data = 0
  /\ c.order = "WRITE" => c.type # "INSTRUCTION"
  /\ c.order = "WRITE" /\ c.data_size = 1 => c.write_data <= MaxByte
  /\ c.type = "DATA" => c.data_size \in {1, WordBytes}

ZeroCommand ==
  [order |-> "READ", type |-> "INSTRUCTION", data_size |-> 0, write_data |-> 0,
   vaddr |-> InitVirtAddr(0, 0, 0, 0, 0)]

\* A program_t that the caller has declared; only its pointer is ever read.
Declared(block) ==
  [block |-> block, capacity |-> 0, listing |-> [i \in {} |-> Unset],
   nb_lines |-> 0, allocated |-> 0]

-----------------------------------------------------------------------------
(***************************************************************************)
(* Each allocation may fail (ok = FALSE): listing is then NULL, the other  *)
(* fields keep their values.                                               *)
(***************************************************************************)
ProgramInit(p, ok) ==
  IF ok THEN [block |-> "live", capacity |-> FirstSize, nb_lines |-> 0,
              listing |-> [i \in 0 .. (FirstSize - 1) |-> ZeroCommand],
              allocated |-> PointerBytes]
  ELSE [p EXCEPT !.block = "null"]

Realloc_Fresh(p, n, ok) ==  \* mutant: malloc and free instead of realloc
  IF ok THEN [p EXCEPT !.capacity = n, !.listing = [i \in 0 .. (n - 1) |-> Unset]]
  ELSE [p EXCEPT !.block = "null"]

Realloc(p, n, ok) ==
  IF ok THEN [p EXCEPT !.capacity = n,
                       !.listing = [i \in 0 .. (n - 1) |->
                                      IF i < p.capacity THEN p.listing[i] ELSE Unset]]
  ELSE [p EXCEPT !.block = "null"]

\* listing[nb_lines++] = *command, wherever that is.
Stored(p, c) ==
  IF p.nb_lines < p.capacity
  THEN [p EXCEPT !.listing[p.nb_lines] = c, !.nb_lines = @ + 1]
  ELSE [p EXCEPT !.block = "overrun"]

Grown_Same(p, ok) ==  \* mutant: the listing is grown to the old size
  Realloc([p EXCEPT !.allocated = 2 * @], p.allocated, ok)

Grown(p, ok) == Realloc([p EXCEPT !.allocated = 2 * @], 2 * p.allocated, ok)

\* program_add_command on a command it accepts.
Added(p, c, ok) ==
  IF p.nb_lines < p.allocated THEN Stored(p, c)
  ELSE IF ok THEN Stored(Grown(p, ok), c) ELSE Grown(p, ok)

(***************************************************************************)
(* program_shrink: realloc counts bytes, and so does `allocated' after it, *)
(* which everywhere else is a number of commands.                          *)
(***************************************************************************)
ProgramShrink(p, ok) ==
  LET n == IF p.nb_lines > FirstSize THEN p.nb_lines ELSE FirstSize
  IN Realloc([p EXCEPT !.allocated = n * CommandBytes], n, ok)

\* program_free leaves the pointer as it is.
ProgramFree(p) ==
  [p EXCEPT !.allocated = 0, !.nb_lines = 0,
            !.block = CASE @ = "null" -> "null"
                        [] @ = "live" -> "freed"
                        [] OTHER      -> "bad_free"]

ASSUME SizesAssumption ==
  /\ FirstSize \in Nat /\ CommandBytes \in Nat \ {0}
  /\ PointerBytes \in 1 .. FirstSize
  /\ WordBytes \in Nat \ {0} /\ MaxByte \in Nat

=============================================================================
