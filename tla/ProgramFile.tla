----------------------------- MODULE ProgramFile -----------------------------
(***************************************************************************)
(* A caller of commands.c: it adds commands one by one, shrinks and frees  *)
(* its program, or fills it with program_read, whose loop is a step per    *)
(* iteration.  A line of a file is [kind, vaddr64, data]; an iteration     *)
(* reads one, except for a word write, whose "W" of "DW" it leaves to the  *)
(* next iteration as the start of a line.                                  *)
(***************************************************************************)
EXTENDS Commands, Sequences

CONSTANTS
  Files,             \* the files a caller may read: sequences of lines
  AddedByCaller,     \* commands a caller may add itself
  GarbageCommands,   \* what program_read's uninitialised `command' may hold
  MaxLines           \* bound: a caller adds no more commands than this

VARIABLES
  program,   \* the caller's program_t
  pc,        \* "idle" or "reading"
  input,     \* what program_read has still to read
  command,   \* the local `command' of its loop
  file,      \* history: the file being read, or just read
  shrunk,    \* history: program_shrink was called since program_init
  ret        \* the last call that returned, and whether with an error

vars == <<program, pc, input, command, file, shrunk, ret>>

Kinds == {"R I", "R DW", "R DB",   \* reads
          "W DW", "W DB",          \* writes
          "R D?",                  \* a size that does not exist
          "W"}                     \* what remains of a word write
IsRead(l) == l.kind \in {"R I", "R DW", "R DB"}

Command == [order : Orders, type : Types, data_size : {0, 1, WordBytes},
            write_data : Nat, vaddr : VirtAddr]

Returned(op, err) == ret' = [op |-> op, err |-> err]
Call(op, err) ==
  /\ pc = "idle"
  /\ Returned(op, err)
  /\ file' = <<>>
  /\ UNCHANGED <<pc, input, command>>

-----------------------------------------------------------------------------
CallInit ==
  \E ok \in BOOLEAN :
    /\ ~Crashed(program)
    /\ program' = ProgramInit(program, ok)
    /\ shrunk' = (shrunk /\ ~ok)
    /\ Call("program_init", ~ok)

\* Callers do not add to, or shrink, a program they never made or have freed.
CallAdd(c) ==
  \E ok \in BOOLEAN :
    /\ program.block \in {"live", "null"}
    /\ program.nb_lines < MaxLines
    /\ LET accepted == program.block = "live" /\ Accepted(c)
       IN /\ program' = IF accepted THEN Added(program, c, ok) ELSE program
          /\ Call("program_add_command", ~accepted \/ program'.block = "null")
    /\ UNCHANGED shrunk

CallShrink ==
  \E ok \in BOOLEAN :
    /\ program.block \in {"live", "null"}
    /\ program' = IF program.block = "live" THEN ProgramShrink(program, ok) ELSE program
    /\ shrunk' = (shrunk \/ program.block = "live")
    /\ Call("program_shrink", program'.block = "null")

\* Also called when program_read has failed, on whatever the pointer holds.
CallFree ==
  /\ program.block \in {"unset", "null", "live"}
  /\ program' = ProgramFree(program)
  /\ Call("program_free", FALSE)
  /\ UNCHANGED shrunk

-----------------------------------------------------------------------------
\* program_read up to its loop.  It wants a non-null listing before it makes one.
CallRead(f) ==
  \E opens, ok \in BOOLEAN :
    /\ pc = "idle" /\ ~Crashed(program)
    /\ IF program.block = "null" \/ ~opens
       THEN Call("program_read", TRUE) /\ UNCHANGED <<program, shrunk>>
       ELSE IF ~ok
       THEN /\ program' = ProgramInit(program, ok)
            /\ Call("program_read", TRUE) /\ UNCHANGED shrunk
       ELSE /\ program' = ProgramInit(program, ok)
            /\ pc' = "reading" /\ input' = f /\ file' = f /\ shrunk' = FALSE
            /\ command' \in GarbageCommands
            /\ ret' = [op |-> "program_read", err |-> TRUE]

Parsed_Writes(l, c) ==  \* mutant: read_write accepts the 'D' of a write
  IF l.kind \in {"W DW", "W DB"}
  THEN [c EXCEPT !.order = "WRITE", !.type = "DATA", !.vaddr = InitVirtAddr64(l.vaddr64),
                 !.data_size = (IF l.kind = "W DW" THEN WordBytes ELSE 1), !.write_data = l.data]
  ELSE [c EXCEPT !.order = "READ"]

Parsed_AllData(l, c) ==  \* mutant: an instruction is taken for a data word
  IF IsRead(l)
  THEN [c EXCEPT !.order = "READ", !.type = "DATA", !.vaddr = InitVirtAddr64(l.vaddr64),
                 !.data_size = (IF l.kind = "R DB" THEN 1 ELSE WordBytes)]
  ELSE c

(***************************************************************************)
(* read_read and read_write on `command'.  Both leave it alone when they   *)
(* fail, and read_write always does: it compares the character it reads    *)
(* with the enumeration READ, WRITE.  Their errors are ignored.  A read    *)
(* sets no write_data, a read of an instruction no data_size either.       *)
(***************************************************************************)
Parsed(l, c) ==
  CASE l.kind = "R I" ->
         [c EXCEPT !.order = "READ", !.type = "INSTRUCTION", !.vaddr = InitVirtAddr64(l.vaddr64)]
    [] l.kind \in {"R DW", "R DB"} ->
         [c EXCEPT !.order = "READ", !.type = "DATA", !.vaddr = InitVirtAddr64(l.vaddr64),
                   !.data_size = IF l.kind = "R DW" THEN WordBytes ELSE 1]
    [] OTHER -> c

Rest(l, ls) == IF l.kind = "W DW" THEN <<[l EXCEPT !.kind = "W"]>> \o ls ELSE ls

ReadLine ==
  \E ok \in BOOLEAN :
    LET l == Head(input)
        c == Parsed(l, command)
        p == IF Accepted(c) THEN Added(program, c, ok) ELSE program
    IN /\ pc = "reading" /\ input # <<>>
       /\ program' = p
       /\ IF Accepted(c) /\ p.block = "live"
          THEN /\ command' = c /\ input' = Rest(l, Tail(input))
               /\ UNCHANGED <<pc, ret>>
          ELSE /\ command' = ZeroCommand /\ input' = <<>>
               /\ pc' = "idle" /\ Returned("program_read", TRUE)
       /\ UNCHANGED <<file, shrunk>>

ReadEnd_Or ==  \* mutant: the loop goes on while !feof | !ferror
  pc = "reading" /\ input = <<>> /\ UNCHANGED vars

ReadEnd ==
  /\ pc = "reading" /\ input = <<>>
  /\ pc' = "idle" /\ command' = ZeroCommand /\ Returned("program_read", FALSE)
  /\ UNCHANGED <<program, input, file, shrunk>>

-----------------------------------------------------------------------------
\* A program_t on the stack: its pointer may be NULL or anything.
Init ==
  /\ program \in {Declared("unset"), Declared("null")}
  /\ pc = "idle" /\ input = <<>> /\ command = ZeroCommand
  /\ file = <<>> /\ shrunk = FALSE
  /\ ret = [op |-> "none", err |-> FALSE]

Next ==
  \/ CallInit
  \/ \E c \in AddedByCaller : CallAdd(c)
  \/ CallShrink
  \/ CallFree
  \/ \E f \in Files : CallRead(f)
  \/ ReadLine
  \/ ReadEnd

(***************************************************************************)
(* Nothing else runs while program_read does, and its loop waits for       *)
(* nothing: its own steps are fair.  No call of a caller is owed.          *)
(***************************************************************************)
Spec == Init /\ [][Next]_vars /\ WF_vars(ReadLine \/ ReadEnd)

ASSUME InputsAssumption ==
  /\ \A f \in Files : f \in Seq([kind : Kinds \ {"W"}, vaddr64 : Nat, data : Nat])
  /\ AddedByCaller \subseteq Command
  /\ GarbageCommands \subseteq Command
  /\ MaxLines \in Nat

-----------------------------------------------------------------------------
(***************************************************************************)
(* The lines of a live program are commands, none of them memory that only *)
(* realloc gave a content; the fields keep their ranges.                   *)
(***************************************************************************)
TypeOK ==
  /\ program.block \in Blocks
  /\ {program.capacity, program.nb_lines, program.allocated} \subseteq Nat
  /\ program.listing \in [0 .. (program.capacity - 1) -> Command \cup {Unset}]
  /\ program.block = "live" =>
       \A i \in 0 .. (program.nb_lines - 1) : program.listing[i] \in Command
  /\ pc \in {"idle", "reading"} /\ shrunk \in BOOLEAN
  /\ command \in Command
  /\ ret.err \in BOOLEAN

(***************************************************************************)
(* `allocated' starts as the size of a pointer and later doubles, while    *)
(* the listing starts with FirstSize commands: the count never exceeds the *)
(* memory there is, until program_shrink makes it a number of bytes.       *)
(***************************************************************************)
OverrunOnlyAfterShrink == program.block = "overrun" => shrunk

\* The command a line of a file stands for.
Matches(c, l) ==
  /\ c.order = (IF IsRead(l) THEN "READ" ELSE "WRITE")
  /\ c.type = (IF l.kind = "R I" THEN "INSTRUCTION" ELSE "DATA")
  /\ l.kind \in {"R DW", "W DW"} => c.data_size = WordBytes
  /\ l.kind \in {"R DB", "W DB"} => c.data_size = 1
  /\ ToUint64(c.vaddr) = l.vaddr64 % VirtSize
  /\ IsRead(l) \/ c.write_data = l.data

FromFile == ret.op = "program_read" /\ program.block = "live" /\ (pc = "reading" \/ ~ret.err)

(***************************************************************************)
(* A file of reads is loaded line by line, in order, whatever the          *)
(* uninitialised command held; what it cannot load makes program_read      *)
(* fail.                                                                   *)
(***************************************************************************)
ReadsAreLoaded ==
  FromFile /\ (\A i \in DOMAIN file : IsRead(file[i])) =>
    /\ program.nb_lines = Len(file) - Len(input)
    /\ \A i \in 1 .. program.nb_lines : Matches(program.listing[i - 1], file[i])

(***************************************************************************)
(* No write of a file ever gets into a program: the only write there may   *)
(* be is the one the uninitialised command held.                           *)
(***************************************************************************)
WritesAreNeverLoaded ==
  FromFile =>
    \A i \in 0 .. (program.nb_lines - 1), j \in DOMAIN file :
      ~IsRead(file[j]) => ~Matches(program.listing[i], file[j])

(***************************************************************************)
(* "Read a program (list of commands) from a file" (commands.h): when it   *)
(* succeeds on lines that are all reads or writes, the program is these    *)
(* lines.                                                                  *)
(***************************************************************************)
ProgramIsTheFile ==
  FromFile /\ pc = "idle" /\ (\A i \in DOMAIN file : file[i].kind # "R D?") =>
    /\ program.nb_lines = Len(file)
    /\ \A i \in DOMAIN file : Matches(program.listing[i - 1], file[i])

\* program_read returns, whatever is in the file.
ReadReturns == pc = "reading" ~> pc = "idle"

=============================================================================
