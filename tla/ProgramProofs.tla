---------------------------- MODULE ProgramProofs ----------------------------
(***************************************************************************)
(* Theorems about ProgramFile, for every size of a listing, every file and *)
(* every content of the variables that the code does not initialise.       *)
(***************************************************************************)
EXTENDS ProgramRefinement, AddressProofs, SequenceTheorems, TLAPS

CmdLine == [kind : Kinds, vaddr64 : Nat, data : Nat]
Listings == UNION {[0 .. (n - 1) -> Command \cup {Unset}] : n \in Nat}
Program == [block : Blocks, capacity : Nat, listing : Listings, nb_lines : Nat, allocated : Nat]

(***************************************************************************)
(* The count of a live program is within its memory, and what it compares  *)
(* the count with is too, as long as it is a number of commands.           *)
(***************************************************************************)
Sound(p, s) ==
  /\ p \in Program
  /\ p.listing \in [0 .. (p.capacity - 1) -> Command \cup {Unset}]
  /\ p.block = "live" =>
       /\ p.nb_lines <= p.capacity /\ p.nb_lines <= p.allocated
       /\ \A i \in 0 .. (p.nb_lines - 1) : p.listing[i] \in Command
  /\ p.block = "live" => p.allocated >= 1
  /\ p.block = "live" /\ ~s => p.allocated <= p.capacity
  /\ p.block = "overrun" => s

IInv ==
  /\ Sound(program, shrunk)
  /\ pc \in {"idle", "reading"} /\ shrunk \in BOOLEAN
  /\ pc = "reading" => program.block = "live"
  /\ command \in Command /\ input \in Seq(CmdLine)
  /\ ret.err \in BOOLEAN

-----------------------------------------------------------------------------
(***************************************************************************)
(* Commands and lines.                                                     *)
(***************************************************************************)
LEMMA ZeroCommandType == ZeroCommand \in Command
<1>1. 0 \in Index /\ 0 \in PageOffset
  BY PageAssumption DEF Index, PageOffset
<1>2. InitVirtAddr(0, 0, 0, 0, 0) \in VirtAddr
  BY <1>1 DEF InitVirtAddr, VirtAddr
<1> QED
  BY <1>2 DEF ZeroCommand, Command, Orders, Types

LEMMA ParsedType ==
  ASSUME NEW l \in CmdLine, NEW c \in Command
  PROVE  Parsed(l, c) \in Command
<1>1. InitVirtAddr64(l.vaddr64) \in VirtAddr
  BY InitVirtAddr64Type DEF CmdLine
<1> QED
  BY <1>1 DEF Parsed, Command, Orders, Types, CmdLine, Kinds

LEMMA RestType ==
  ASSUME NEW l \in CmdLine, NEW ls \in Seq(CmdLine)
  PROVE  Rest(l, ls) \in Seq(CmdLine)
<1>1. [l EXCEPT !.kind = "W"] \in CmdLine
  BY DEF CmdLine, Kinds
<1> DEFINE w == [l EXCEPT !.kind = "W"]
<1> HIDE DEF w
<1>2. w \in CmdLine
  BY <1>1 DEF w
<1>3. <<w>> \in Seq(CmdLine)
  BY <1>2
<1>4. <<w>> \o ls \in Seq(CmdLine)
  BY <1>3, ConcatProperties
<1> QED
  BY <1>4 DEF Rest, w

-----------------------------------------------------------------------------
(***************************************************************************)
(* The operations on a program keep it sound.                              *)
(***************************************************************************)
LEMMA NullSound ==
  ASSUME NEW p, NEW s, Sound(p, s)
  PROVE  Sound([p EXCEPT !.block = "null"], s)
  BY DEF Sound, Program, Blocks

LEMMA InitSound ==
  ASSUME NEW p, NEW s \in BOOLEAN, NEW ok \in BOOLEAN, Sound(p, s)
  PROVE  Sound(ProgramInit(p, ok), s /\ ~ok)
<1>1. CASE ok
  <2> DEFINE zeros == [i \in 0 .. (FirstSize - 1) |-> ZeroCommand]
  <2>1. zeros \in [0 .. (FirstSize - 1) -> Command \cup {Unset}]
    BY ZeroCommandType
  <2>2. zeros \in Listings
    BY <2>1, SizesAssumption DEF Listings
  <2> HIDE DEF zeros
  <2>3. ProgramInit(p, ok) = [block |-> "live", capacity |-> FirstSize, nb_lines |-> 0,
                              listing |-> zeros, allocated |-> PointerBytes]
    BY <1>1 DEF ProgramInit, zeros
  <2> DEFINE r == ProgramInit(p, ok)
  <2>4. r \in Program /\ r.block = "live" /\ r.capacity = FirstSize /\ r.nb_lines = 0
        /\ r.listing = zeros /\ r.allocated = PointerBytes
    BY <2>2, <2>3, SizesAssumption DEF Program, Blocks
  <2> HIDE DEF r
  <2>5. Sound(r, s /\ ~ok)
    BY <2>1, <2>4, SizesAssumption DEF Sound
  <2> QED
    BY <2>5 DEF r
<1>2. CASE ~ok
  <2>1. ProgramInit(p, ok) = [p EXCEPT !.block = "null"]
    BY <1>2 DEF ProgramInit
  <2> QED
    BY <1>2, <2>1, NullSound
<1> QED
  BY <1>1, <1>2

\* A reallocation to no less than the count, and to what allocated will say.
LEMMA ReallocSound ==
  ASSUME NEW p, NEW s \in BOOLEAN, NEW n \in Nat, NEW a \in Nat, NEW ok \in BOOLEAN, Sound(p, s),
         p.block = "live", p.nb_lines <= n, p.nb_lines <= a, a >= 1, s \/ a <= n,
         NEW r, r = Realloc([p EXCEPT !.allocated = a], n, ok)
  PROVE  /\ Sound(r, s) /\ r.nb_lines = p.nb_lines /\ r.allocated = a
         /\ r.block = IF ok THEN "live" ELSE "null"
<1> DEFINE q == [p EXCEPT !.allocated = a]
           new == [i \in 0 .. (n - 1) |-> IF i < p.capacity THEN p.listing[i] ELSE Unset]
<1>0. p \in Program /\ p.capacity \in Nat /\ p.nb_lines \in Nat
  BY DEF Sound, Program
<1>1. q \in Program /\ q.capacity = p.capacity /\ q.listing = p.listing
      /\ q.nb_lines = p.nb_lines /\ q.allocated = a /\ q.block = "live"
  BY <1>0 DEF Program
<1>2. new \in [0 .. (n - 1) -> Command \cup {Unset}]
  <2>1. ASSUME NEW i \in 0 .. (n - 1)
        PROVE  (IF i < p.capacity THEN p.listing[i] ELSE Unset) \in Command \cup {Unset}
    <3>1. p.listing \in [0 .. (p.capacity - 1) -> Command \cup {Unset}]
      BY DEF Sound
    <3>2. CASE i < p.capacity
      <4>1. i \in 0 .. (p.capacity - 1)
        BY <1>0, <3>2
      <4> QED
        BY <3>1, <3>2, <4>1
    <3> QED
      BY <3>2
  <2> QED
    BY <2>1
<1>3. new \in Listings
  BY <1>2 DEF Listings
<1>4. \A i \in 0 .. (p.nb_lines - 1) : new[i] \in Command
  BY <1>0 DEF Sound
<1> HIDE DEF new
<1>5. CASE ok
  <2>1. r = [q EXCEPT !.capacity = n, !.listing = new]
    BY <1>1, <1>5 DEF Realloc, new
  <2> HIDE DEF q
  <2>2. r \in Program /\ r.capacity = n /\ r.listing = new /\ r.nb_lines = p.nb_lines
        /\ r.allocated = a /\ r.block = "live"
    BY <1>1, <1>3, <2>1 DEF Program
  <2>3. Sound(r, s)
    BY <1>2, <1>4, <2>2 DEF Sound
  <2> QED
    BY <1>5, <2>2, <2>3 DEF q
<1>6. CASE ~ok
  <2>1. r = [q EXCEPT !.block = "null"]
    BY <1>6 DEF Realloc
  <2> QED
    BY <1>1, <1>6, <2>1 DEF Sound, Program, Blocks
<1> QED
  BY <1>5, <1>6

LEMMA StoredSound ==
  ASSUME NEW p, NEW s, NEW c \in Command, Sound(p, s), p.block = "live",
         p.nb_lines < p.allocated
  PROVE  Sound(Stored(p, c), s)
<1>0. p \in Program /\ p.nb_lines \in Nat /\ p.capacity \in Nat /\ p.allocated \in Nat
  BY DEF Sound, Program
<1>1. CASE p.nb_lines < p.capacity
  <2> DEFINE new == [p.listing EXCEPT ![p.nb_lines] = c]
             r == Stored(p, c)
  <2>1. new \in [0 .. (p.capacity - 1) -> Command \cup {Unset}]
    BY <1>0 DEF Sound
  <2>2. \A i \in 0 .. p.nb_lines : new[i] \in Command
    BY <1>0, <1>1 DEF Sound
  <2>3. new \in Listings
    BY <1>0, <2>1 DEF Listings
  <2> DEFINE m == p.nb_lines + 1
  <2>4. Stored(p, c) = [p EXCEPT !.listing = new, !.nb_lines = m]
    BY <1>0, <1>1 DEF Stored, Program
  <2>range. m \in Nat /\ 0 .. (m - 1) = 0 .. p.nb_lines /\ m <= p.capacity /\ m <= p.allocated
    BY <1>0, <1>1
  <2> HIDE DEF new, m
  <2>5. r \in Program /\ r.capacity = p.capacity /\ r.listing = new
        /\ r.nb_lines = m /\ r.allocated = p.allocated /\ r.block = "live"
    BY <1>0, <2>3, <2>4, <2>range DEF Program
  <2> HIDE DEF r
  <2>6. Sound(r, s)
    BY <1>0, <2>1, <2>2, <2>5, <2>range DEF Sound
  <2> QED
    BY <2>6 DEF r
<1>2. CASE ~(p.nb_lines < p.capacity)
  <2>1. s
    BY <1>0, <1>2 DEF Sound, Program
  <2>2. Stored(p, c) = [p EXCEPT !.block = "overrun"]
    BY <1>2 DEF Stored
  <2> QED
    BY <1>0, <2>1, <2>2 DEF Sound, Program, Blocks
<1> QED
  BY <1>1, <1>2

LEMMA AddedSound ==
  ASSUME NEW p, NEW s \in BOOLEAN, NEW c \in Command, NEW ok \in BOOLEAN, Sound(p, s), p.block = "live"
  PROVE  Sound(Added(p, c, ok), s)
<1>0. p \in Program /\ p.nb_lines \in Nat /\ p.allocated \in Nat /\ p.nb_lines <= p.allocated
  BY DEF Sound, Program
<1>1. CASE p.nb_lines < p.allocated
  BY <1>1, StoredSound DEF Added
<1>2. CASE ~(p.nb_lines < p.allocated)
  <2> DEFINE a == 2 * p.allocated
             r == Grown(p, ok)
  <2>1. a \in Nat /\ p.nb_lines < a /\ p.nb_lines <= a /\ a >= 1 /\ a <= a
    BY <1>0 DEF Sound
  <2>2. r = Realloc([p EXCEPT !.allocated = a], a, ok)
    BY <1>0 DEF Grown, Program
  <2> HIDE DEF a, r
  <2>3. /\ Sound(r, s) /\ r.nb_lines = p.nb_lines /\ r.allocated = a
        /\ r.block = IF ok THEN "live" ELSE "null"
    BY <2>1, <2>2, ReallocSound
  <2>4. CASE ok
    <3>1. Added(p, c, ok) = Stored(r, c)
      BY <1>2, <2>4 DEF Added, r
    <3> QED
      BY <1>0, <2>1, <2>3, <2>4, <3>1, StoredSound
  <2>5. CASE ~ok
    BY <1>2, <2>3, <2>5 DEF Added, r
  <2> QED
    BY <2>4, <2>5
<1> QED
  BY <1>1, <1>2

LEMMA ShrinkSound ==
  ASSUME NEW p, NEW s \in BOOLEAN, s, NEW ok \in BOOLEAN, Sound(p, s), p.block = "live"
  PROVE  Sound(ProgramShrink(p, ok), s)
<1> DEFINE n == IF p.nb_lines > FirstSize THEN p.nb_lines ELSE FirstSize
           a == n * CommandBytes
<1>1. p.nb_lines \in Nat /\ FirstSize \in Nat \ {0} /\ CommandBytes \in Nat \ {0}
  BY SizesAssumption DEF Sound, Program
<1>2. n \in Nat /\ n >= 1 /\ p.nb_lines <= n
  BY <1>1
<1> HIDE DEF n
<1>3. a \in Nat /\ a >= 1 /\ n <= a
  BY <1>1, <1>2, SMT
<1>4. p.nb_lines <= a
  BY <1>1, <1>2, <1>3
<1> DEFINE r == ProgramShrink(p, ok)
<1>5. r = Realloc([p EXCEPT !.allocated = a], n, ok)
  BY Zenon DEF ProgramShrink, n
<1> HIDE DEF a, r
<1>6. s \/ a <= n
  OBVIOUS
<1>7. n \in Nat /\ a \in Nat /\ ok \in BOOLEAN /\ p.block = "live"
      /\ p.nb_lines <= n /\ p.nb_lines <= a /\ a >= 1
  BY <1>2, <1>3, <1>4
<1>8. ASSUME NEW u \in BOOLEAN, Sound(p, u), u \/ a <= n
      PROVE  Sound(r, u)
  BY <1>5, <1>7, <1>8, ReallocSound
<1>9. Sound(r, s)
  BY <1>6, <1>8
<1> QED
  BY <1>9 DEF r

LEMMA FreeSound ==
  ASSUME NEW p, NEW s, Sound(p, s), p.block \in {"unset", "null", "live"}
  PROVE  Sound(ProgramFree(p), s)
  BY DEF ProgramFree, Sound, Program, Blocks

-----------------------------------------------------------------------------
(***************************************************************************)
(* The invariant holds at first, and every step keeps it.                  *)
(***************************************************************************)
LEMMA DeclaredSound ==
  ASSUME NEW b \in {"unset", "null"}
  PROVE  Sound(Declared(b), FALSE)
<1> DEFINE none == [i \in {} |-> Unset]
<1>1. 0 .. (0 - 1) = {}
  BY SMT
<1>2. none \in [0 .. (0 - 1) -> Command \cup {Unset}]
  BY <1>1
<1>3. none \in Listings
  BY <1>2 DEF Listings
<1> HIDE DEF none
<1> DEFINE r == Declared(b)
<1>4. r = [block |-> b, capacity |-> 0, listing |-> none, nb_lines |-> 0, allocated |-> 0]
  BY DEF Declared, none
<1>5. r \in Program /\ r.capacity = 0 /\ r.listing = none /\ r.block = b
  BY <1>3, <1>4 DEF Program, Blocks
<1> HIDE DEF r
<1>6. Sound(r, FALSE)
  BY <1>2, <1>5 DEF Sound
<1> QED
  BY <1>6 DEF r

LEMMA InitInv == Init => IInv
<1> SUFFICES ASSUME Init PROVE IInv
  OBVIOUS
<1>1. Sound(program, FALSE)
  BY DeclaredSound DEF Init
<1>2. input \in Seq(CmdLine)
  BY DEF Init
<1> QED
  BY <1>1, <1>2, ZeroCommandType DEF Init, IInv

LEMMA CallKeeps ==
  ASSUME IInv, NEW op, NEW err \in BOOLEAN, Call(op, err)
  PROVE  /\ pc' = "idle" /\ command' \in Command
         /\ input' \in Seq(CmdLine) /\ ret'.err \in BOOLEAN
  BY DEF IInv, Call, Returned

LEMMA CallInitInv == IInv /\ CallInit => IInv'
<1> SUFFICES ASSUME IInv, CallInit PROVE IInv'
  OBVIOUS
<1>1. PICK ok \in BOOLEAN : /\ program' = ProgramInit(program, ok)
                            /\ shrunk' = (shrunk /\ ~ok)
                            /\ Call("program_init", ~ok)
  BY DEF CallInit
<1>2. Sound(program, shrunk)' /\ shrunk' \in BOOLEAN
  BY <1>1, InitSound DEF IInv
<1> QED
  BY <1>1, <1>2, CallKeeps DEF IInv

LEMMA CallAddInv ==
  ASSUME IInv, NEW c \in AddedByCaller, CallAdd(c)
  PROVE  IInv'
<1> DEFINE accepted == program.block = "live" /\ Accepted(c)
<1>1. PICK ok \in BOOLEAN :
        /\ program' = IF accepted THEN Added(program, c, ok) ELSE program
        /\ Call("program_add_command", ~accepted \/ program'.block = "null")
  BY DEF CallAdd
<1>2. c \in Command /\ shrunk' = shrunk
  BY InputsAssumption DEF CallAdd
<1>3. Sound(program', shrunk)
  BY <1>1, <1>2, AddedSound DEF IInv
<1> QED
  BY <1>1, <1>2, <1>3, CallKeeps DEF IInv

LEMMA CallShrinkInv == IInv /\ CallShrink => IInv'
<1> SUFFICES ASSUME IInv, CallShrink PROVE IInv'
  OBVIOUS
<1> DEFINE live == program.block = "live"
<1>1. PICK ok \in BOOLEAN :
        /\ program' = IF live THEN ProgramShrink(program, ok) ELSE program
        /\ shrunk' = (shrunk \/ live)
        /\ Call("program_shrink", program'.block = "null")
  BY DEF CallShrink
<1>2. CASE live
  <2>1. /\ shrunk' = TRUE /\ Sound(program, shrunk')
        /\ program' = ProgramShrink(program, ok)
    BY <1>1, <1>2 DEF IInv, Sound
  <2>2. Sound(program, shrunk)'
    BY <1>2, <2>1, ShrinkSound
  <2> QED
    BY <1>1, <1>2, <2>2, CallKeeps DEF IInv
<1>3. CASE ~live
  <2>1. Sound(program, shrunk)'
    BY <1>1, <1>3 DEF IInv
  <2> QED
    BY <1>1, <1>3, <2>1, CallKeeps DEF IInv
<1> QED
  BY <1>2, <1>3

LEMMA CallFreeInv == IInv /\ CallFree => IInv'
<1> SUFFICES ASSUME IInv, CallFree PROVE IInv'
  OBVIOUS
<1>1. Sound(program, shrunk)'
  BY FreeSound DEF CallFree, IInv
<1> QED
  BY <1>1, CallKeeps DEF CallFree, IInv

LEMMA CallReadInv ==
  ASSUME IInv, NEW f \in Files, CallRead(f)
  PROVE  IInv'
<1>1. CASE Call("program_read", TRUE) /\ UNCHANGED <<program, shrunk>>
  BY <1>1, CallKeeps DEF IInv
<1>2. CASE /\ program' = ProgramInit(program, FALSE)
           /\ Call("program_read", TRUE) /\ UNCHANGED shrunk
  <2>1. Sound(ProgramInit(program, FALSE), shrunk /\ ~FALSE)
    BY InitSound DEF IInv
  <2>2. (shrunk /\ ~FALSE) = shrunk
    BY DEF IInv
  <2>3. Sound(program, shrunk)'
    BY <1>2, <2>1, <2>2
  <2> QED
    BY <1>2, <2>3, CallKeeps DEF IInv
<1>3. CASE /\ program' = ProgramInit(program, TRUE)
           /\ pc' = "reading" /\ input' = f /\ shrunk' = FALSE
           /\ command' \in GarbageCommands
           /\ ret' = [op |-> "program_read", err |-> TRUE]
  <2>1. Sound(program, shrunk)'
    BY <1>3, InitSound DEF IInv
  <2>2. f \in Seq([kind : Kinds \ {"W"}, vaddr64 : Nat, data : Nat])
    BY InputsAssumption
  <2>3. f \in Seq(CmdLine)
    <3>1. [kind : Kinds \ {"W"}, vaddr64 : Nat, data : Nat] \subseteq CmdLine
      BY DEF CmdLine
    <3> QED
      BY <2>2, <3>1, SeqMonotonic
  <2>4. command' \in Command
    BY <1>3, InputsAssumption
  <2>5. program'.block = "live"
    BY <1>3 DEF ProgramInit
  <2> QED
    BY <1>3, <2>1, <2>3, <2>4, <2>5 DEF IInv
<1> QED
  BY <1>1, <1>2, <1>3 DEF CallRead

LEMMA ReadLineInv == IInv /\ ReadLine => IInv'
<1> SUFFICES ASSUME IInv, ReadLine PROVE IInv'
  OBVIOUS
<1> DEFINE l == Head(input)
           c == Parsed(l, command)
<1>1. PICK ok \in BOOLEAN :
        LET p == IF Accepted(c) THEN Added(program, c, ok) ELSE program
        IN /\ program' = p
           /\ IF Accepted(c) /\ p.block = "live"
              THEN command' = c /\ input' = Rest(l, Tail(input)) /\ UNCHANGED <<pc, ret>>
              ELSE /\ command' = ZeroCommand /\ input' = <<>>
                   /\ pc' = "idle" /\ Returned("program_read", TRUE)
  BY DEF ReadLine
<1>2. l \in CmdLine /\ Tail(input) \in Seq(CmdLine) /\ input # <<>>
  BY HeadTailProperties DEF IInv, ReadLine
<1>3. c \in Command /\ Rest(l, Tail(input)) \in Seq(CmdLine)
  BY <1>2, ParsedType, RestType DEF IInv
<1> HIDE DEF l, c
<1>4. shrunk' = shrunk
  BY DEF ReadLine
<1>5. Sound(program', shrunk)
  BY <1>1, <1>3, AddedSound DEF IInv, ReadLine
<1>6. <<>> \in Seq(CmdLine)
  BY EmptySeq
<1>7. CASE Accepted(c) /\ program'.block = "live"
  <2>1. command' = c /\ input' = Rest(l, Tail(input)) /\ UNCHANGED <<pc, ret>>
    BY <1>1, <1>7
  <2> QED
    BY <1>3, <1>4, <1>5, <1>7, <2>1 DEF IInv
<1>8. CASE ~(Accepted(c) /\ program'.block = "live")
  <2>1. /\ command' = ZeroCommand /\ input' = <<>>
        /\ pc' = "idle" /\ Returned("program_read", TRUE)
    BY <1>1, <1>8
  <2> QED
    BY <1>4, <1>5, <1>6, <2>1, ZeroCommandType DEF IInv, Returned
<1> QED
  BY <1>7, <1>8

LEMMA ReadEndInv == IInv /\ ReadEnd => IInv'
  BY ZeroCommandType DEF IInv, ReadEnd, Returned

LEMMA StepInv == IInv /\ [Next]_vars => IInv'
<1> SUFFICES ASSUME IInv, [Next]_vars PROVE IInv'
  OBVIOUS
<1>1. CASE UNCHANGED vars
  BY <1>1 DEF IInv, vars
<1> QED
  BY <1>1, CallInitInv, CallAddInv, CallShrinkInv, CallFreeInv, CallReadInv,
     ReadLineInv, ReadEndInv DEF Next

THEOREM Invariance == Spec => []IInv
  BY InitInv, StepInv, PTL DEF Spec

-----------------------------------------------------------------------------
(***************************************************************************)
(* A live program holds as many commands as it says, whatever file was     *)
(* read into it: every line of it is a command that was stored, and the    *)
(* fields of program_t keep their ranges (program_add_command).            *)
(***************************************************************************)
THEOREM TypeSafety == Spec => []TypeOK
<1>1. IInv => TypeOK
  BY DEF IInv, Sound, Program, TypeOK
<1> QED
  BY <1>1, Invariance, PTL

(***************************************************************************)
(* However large the first listing, a pointer and a command are, no        *)
(* sequence of calls stores a command past the end of the listing without  *)
(* a program_shrink: `allocated' starts below the capacity, and both grow  *)
(* to the same number (program_init, program_add_command).                 *)
(***************************************************************************)
THEOREM NoOverrun == Spec => []OverrunOnlyAfterShrink
<1>1. IInv => OverrunOnlyAfterShrink
  BY DEF IInv, Sound, OverrunOnlyAfterShrink
<1> QED
  BY <1>1, Invariance, PTL

-----------------------------------------------------------------------------
(***************************************************************************)
(* A list of commands.  Adding an accepted command to a live program       *)
(* appends it, or loses the program.                                       *)
(***************************************************************************)
Appended(p, c, r) ==
  /\ r.block = "live" /\ r.nb_lines = p.nb_lines + 1
  /\ \A i \in 0 .. (p.nb_lines - 1) : r.listing[i] = p.listing[i]
  /\ r.listing[p.nb_lines] = c

LEMMA StoredAppends ==
  ASSUME NEW p, NEW s, NEW c \in Command, Sound(p, s), p.block = "live",
         p.nb_lines < p.allocated
  PROVE  \/ Appended(p, c, Stored(p, c))
         \/ s /\ Stored(p, c).block = "overrun"
<1>0. p \in Program /\ p.nb_lines \in Nat /\ p.capacity \in Nat /\ p.allocated \in Nat
  BY DEF Sound, Program
<1>1. CASE p.nb_lines < p.capacity
  <2> DEFINE new == [p.listing EXCEPT ![p.nb_lines] = c]
             m == p.nb_lines + 1
             r == Stored(p, c)
  <2>1. p.listing \in [0 .. (p.capacity - 1) -> Command \cup {Unset}]
    BY DEF Sound
  <2>2. \A i \in 0 .. (p.nb_lines - 1) : new[i] = p.listing[i]
    BY <1>0, <1>1, <2>1
  <2>3. new[p.nb_lines] = c
    BY <1>0, <1>1, <2>1
  <2>4. r = [p EXCEPT !.listing = new, !.nb_lines = m]
    BY <1>0, <1>1 DEF Stored, Program
  <2>5. m = p.nb_lines + 1
    OBVIOUS
  <2> HIDE DEF new, m
  <2>6. r.listing = new /\ r.nb_lines = m /\ r.block = "live"
    BY <1>0, <2>4 DEF Program
  <2> HIDE DEF r
  <2>7. Appended(p, c, r)
    BY <2>2, <2>3, <2>5, <2>6 DEF Appended
  <2> QED
    BY <2>7 DEF r
<1>2. CASE ~(p.nb_lines < p.capacity)
  <2>1. s
    BY <1>0, <1>2 DEF Sound
  <2>2. Stored(p, c).block = "overrun"
    BY <1>0, <1>2 DEF Stored, Program
  <2> QED
    BY <2>1, <2>2
<1> QED
  BY <1>1, <1>2

\* A reallocation that succeeds keeps the lines there are.
LEMMA ReallocLines ==
  ASSUME NEW p \in Program, NEW n \in Nat, p.nb_lines <= n, p.nb_lines <= p.capacity
  PROVE  \A i \in 0 .. (p.nb_lines - 1) : Realloc(p, n, TRUE).listing[i] = p.listing[i]
<1> DEFINE new == [i \in 0 .. (n - 1) |-> IF i < p.capacity THEN p.listing[i] ELSE Unset]
<1>1. p.nb_lines \in Nat /\ p.capacity \in Nat
  BY DEF Program
<1>2. \A i \in 0 .. (p.nb_lines - 1) : new[i] = p.listing[i]
  BY <1>1
<1>3. Realloc(p, n, TRUE) = [p EXCEPT !.capacity = n, !.listing = new]
  BY DEF Realloc
<1> HIDE DEF new
<1>4. Realloc(p, n, TRUE).listing = new
  BY <1>3 DEF Program
<1> QED
  BY <1>2, <1>4

LEMMA AddedAppends ==
  ASSUME NEW p, NEW s \in BOOLEAN, NEW c \in Command, NEW ok \in BOOLEAN, Sound(p, s), p.block = "live"
  PROVE  \/ Appended(p, c, Added(p, c, ok))
         \/ Added(p, c, ok).block = "null"
         \/ s /\ Added(p, c, ok).block = "overrun"
<1>0. p \in Program /\ p.nb_lines \in Nat /\ p.allocated \in Nat /\ p.nb_lines <= p.allocated
      /\ p.capacity \in Nat /\ p.nb_lines <= p.capacity /\ p.allocated >= 1
  BY DEF Sound, Program
<1>1. CASE p.nb_lines < p.allocated
  BY <1>1, StoredAppends DEF Added
<1>2. CASE ~(p.nb_lines < p.allocated)
  <2> DEFINE a == 2 * p.allocated
             q == [p EXCEPT !.allocated = a]
             r == Grown(p, ok)
  <2>1. a \in Nat /\ p.nb_lines < a /\ p.nb_lines <= a /\ a >= 1 /\ a <= a
    BY <1>0
  <2>2. r = Realloc(q, a, ok)
    BY <1>0 DEF Grown, Program
  <2> HIDE DEF a
  <2>3. q \in Program /\ q.nb_lines = p.nb_lines /\ q.capacity = p.capacity /\ q.listing = p.listing
    BY <1>0, <2>1 DEF Program
  <2> HIDE DEF r
  <2>4. /\ Sound(r, s) /\ r.nb_lines = p.nb_lines /\ r.allocated = a
        /\ r.block = IF ok THEN "live" ELSE "null"
    BY <2>1, <2>2, ReallocSound
  <2> HIDE DEF q
  <2>5. CASE ok
    <3>1. Added(p, c, ok) = Stored(r, c)
      BY <1>2, <2>5 DEF Added, r
    <3>2. r.listing = Realloc(q, a, TRUE).listing
      BY <2>2, <2>5
    <3>3. \A i \in 0 .. (p.nb_lines - 1) : r.listing[i] = p.listing[i]
      <4>1. q.nb_lines <= a /\ q.nb_lines <= q.capacity
        BY <1>0, <2>1, <2>3
      <4>2. \A i \in 0 .. (q.nb_lines - 1) : Realloc(q, a, TRUE).listing[i] = q.listing[i]
        BY <2>1, <2>3, <4>1, ReallocLines
      <4> QED
        BY <2>3, <3>2, <4>2
    <3>4. \/ Appended(r, c, Stored(r, c))
          \/ s /\ Stored(r, c).block = "overrun"
      BY <2>1, <2>4, <2>5, StoredAppends
    <3>5. CASE Appended(r, c, Stored(r, c))
      BY <1>0, <2>4, <3>1, <3>3, <3>5 DEF Appended
    <3> QED
      BY <3>1, <3>4, <3>5
  <2>6. CASE ~ok
    BY <1>2, <2>4, <2>6 DEF Added, r
  <2> QED
    BY <2>5, <2>6
<1> QED
  BY <1>1, <1>2

LEMMA LinesOf ==
  ASSUME NEW p, NEW s, Sound(p, s), p.block = "live"
  PROVE  Lines(p) \in Seq(Command) /\ Len(Lines(p)) = p.nb_lines
<1>0. p.nb_lines \in Nat /\ \A i \in 0 .. (p.nb_lines - 1) : p.listing[i] \in Command
  BY DEF Sound, Program
<1> DEFINE f == [i \in 1 .. p.nb_lines |-> p.listing[i - 1]]
<1>1. f \in [1 .. p.nb_lines -> Command]
  BY <1>0
<1>2. f \in Seq(Command) /\ Len(f) = p.nb_lines
  BY <1>0, <1>1
<1> QED
  BY <1>2 DEF Lines

LEMMA AppendedLines ==
  ASSUME NEW p, NEW s, NEW c \in Command, NEW r, Sound(p, s), p.block = "live", Appended(p, c, r)
  PROVE  /\ Lines(r) # <<>>
         /\ List!Front(Lines(r)) = Lines(p) /\ List!Last(Lines(r)) = c
<1>0. p.nb_lines \in Nat /\ \A i \in 0 .. (p.nb_lines - 1) : p.listing[i] \in Command
  BY DEF Sound, Program
<1> DEFINE n == p.nb_lines
           f == [i \in 1 .. (n + 1) |-> r.listing[i - 1]]
           g == [i \in 1 .. n |-> p.listing[i - 1]]
<1>1. Lines(p) = g /\ Lines(r) = f
  BY DEF Lines, Appended
<1>2. \A i \in 1 .. n : f[i] = g[i] /\ g[i] \in Command
  BY <1>0 DEF Appended
<1>3. f[n + 1] = c
  BY <1>0 DEF Appended
<1>4. f \in Seq(Command) /\ Len(f) = n + 1
  <2>1. \A i \in 0 .. n : r.listing[i] \in Command
    BY <1>0 DEF Appended
  <2>2. f \in [1 .. (n + 1) -> Command]
    <3> SUFFICES ASSUME NEW i \in 1 .. (n + 1) PROVE r.listing[i - 1] \in Command
      OBVIOUS
    <3>1. i - 1 \in 0 .. n
      BY <1>0
    <3> QED
      BY <2>1, <3>1
  <2>3. n + 1 \in Nat
    BY <1>0
  <2> HIDE DEF f
  <2> QED
    BY <2>2, <2>3
<1>5. g \in Seq(Command) /\ Len(g) = n
  BY <1>0, <1>2
<1>6. n \in Nat
  BY <1>0
<1> HIDE DEF f, g, n
<1>7. f # <<>>
  BY <1>4, <1>6
<1>8. SubSeq(f, 1, Len(f) - 1) = g
  BY <1>2, <1>4, <1>5, <1>6
<1>9. f[Len(f)] = c
  BY <1>3, <1>4
<1> QED
  BY <1>1, <1>7, <1>8, <1>9 DEF List!Front, List!Last

LEMMA NotLive ==
  ASSUME NEW p, p.block # "live"
  PROVE  Lines(p) = <<>>
  BY DEF Lines

\* A step of the list, or none, between two contents of the program.
ListStep(s, cs, s2, cs2) ==
  \/ s # "crashed" /\ s2 = "open" /\ cs2 = <<>>
  \/ /\ s \in {"open", "sealed"} /\ s2 = s
     /\ cs2 # <<>> /\ List!Front(cs2) = cs /\ List!Last(cs2) \in Command
  \/ s \in {"open", "sealed"} /\ s2 = "sealed" /\ cs2 = cs
  \/ s \in {"open", "sealed"} /\ s2 = "absent" /\ cs2 = <<>>
  \/ s \in {"absent", "sealed"} /\ s2 = "crashed" /\ cs2 = <<>>
  \/ s2 = s /\ cs2 = cs

LEMMA ListStepIs ==
  ASSUME ListStep(State(program, shrunk), Lines(program), State(program', shrunk'), Lines(program'))
  PROVE  [List!Next]_List!vars
  BY DEF ListStep, List!Next, List!New, List!Append1, List!Seal, List!Drop, List!Crash, List!vars

ProgramStep(p, s, r, t) == ListStep(State(p, s), Lines(p), State(r, t), Lines(r))

LEMMA InitStep ==
  ASSUME NEW p \in Program, NEW s \in BOOLEAN, NEW ok \in BOOLEAN, ~Crashed(p)
  PROVE  ProgramStep(p, s, ProgramInit(p, ok), s /\ ~ok)
<1>1. CASE ok
  <2>1. ProgramInit(p, ok).block = "live" /\ ProgramInit(p, ok).nb_lines = 0
    BY <1>1 DEF ProgramInit
  <2>2. State(ProgramInit(p, ok), s /\ ~ok) = "open" /\ State(p, s) # "crashed"
    BY <1>1, <2>1 DEF State, Crashed
  <2>3. Lines(ProgramInit(p, ok)) = <<>>
    BY <2>1 DEF Lines
  <2> QED
    BY <2>2, <2>3 DEF ProgramStep, ListStep
<1>2. CASE ~ok
  <2>1. ProgramInit(p, ok).block = "null"
    BY <1>2 DEF ProgramInit, Program
  <2>2. State(ProgramInit(p, ok), s /\ ~ok) = "absent" /\ Lines(ProgramInit(p, ok)) = <<>>
    BY <2>1 DEF State, Crashed, Lines
  <2>3. CASE p.block = "live"
    <3>1. State(p, s) \in {"open", "sealed"}
      BY <2>3 DEF State
    <3> QED
      BY <2>2, <3>1 DEF ProgramStep, ListStep
  <2>4. CASE p.block # "live"
    <3>1. State(p, s) = "absent" /\ Lines(p) = <<>>
      BY <2>4 DEF State, Lines
    <3> QED
      BY <2>2, <3>1 DEF ProgramStep, ListStep
  <2> QED
    BY <2>3, <2>4
<1> QED
  BY <1>1, <1>2

LEMMA AddStep ==
  ASSUME NEW p, NEW s \in BOOLEAN, NEW c \in Command, NEW ok \in BOOLEAN, Sound(p, s), p.block = "live"
  PROVE  ProgramStep(p, s, Added(p, c, ok), s)
<1> DEFINE r == Added(p, c, ok)
<1>1. State(p, s) = IF s THEN "sealed" ELSE "open"
  BY DEF State, Crashed
<1>2. Appended(p, c, r) \/ r.block = "null" \/ (s /\ r.block = "overrun")
  BY AddedAppends
<1> HIDE DEF r
<1>3. CASE Appended(p, c, r)
  <2>1. State(r, s) = State(p, s)
    BY <1>3 DEF Appended, State
  <2>2. Lines(r) # <<>> /\ List!Front(Lines(r)) = Lines(p) /\ List!Last(Lines(r)) = c
    BY <1>3, AppendedLines
  <2> QED
    BY <1>1, <2>1, <2>2 DEF ProgramStep, ListStep, r
<1>4. CASE r.block = "null"
  <2>1. State(r, s) = "absent" /\ Lines(r) = <<>>
    BY <1>4 DEF State, Crashed, Lines
  <2> QED
    BY <1>1, <2>1 DEF ProgramStep, ListStep, r
<1>5. CASE s /\ r.block = "overrun"
  <2>1. State(r, s) = "crashed" /\ Lines(r) = <<>>
    BY <1>5 DEF State, Crashed, Lines
  <2> QED
    BY <1>1, <1>5, <2>1 DEF ProgramStep, ListStep, r
<1> QED
  BY <1>2, <1>3, <1>4, <1>5

LEMMA ShrinkStep ==
  ASSUME NEW p, NEW s \in BOOLEAN, NEW ok \in BOOLEAN, Sound(p, s), p.block = "live"
  PROVE  ProgramStep(p, s, ProgramShrink(p, ok), TRUE)
<1> DEFINE n == IF p.nb_lines > FirstSize THEN p.nb_lines ELSE FirstSize
           a == n * CommandBytes
           q == [p EXCEPT !.allocated = a]
           r == ProgramShrink(p, ok)
<1>1. p \in Program /\ p.nb_lines \in Nat /\ FirstSize \in Nat \ {0} /\ CommandBytes \in Nat \ {0}
      /\ p.nb_lines <= p.capacity
  BY SizesAssumption DEF Sound, Program
<1>2. n \in Nat /\ p.nb_lines <= n
  BY <1>1
<1>3. r = Realloc(q, n, ok)
  BY Zenon DEF ProgramShrink, n
<1> HIDE DEF n
<1>4. a \in Nat
  BY <1>1, <1>2, SMT
<1> HIDE DEF a, r
<1>5. q \in Program /\ q.nb_lines = p.nb_lines /\ q.capacity = p.capacity /\ q.listing = p.listing
      /\ q.block = "live"
  BY <1>1, <1>4 DEF Program
<1> HIDE DEF q
<1>6. State(p, s) \in {"open", "sealed"}
  BY DEF State, Crashed
<1>7. CASE ok
  <2>1. q.nb_lines <= n /\ q.nb_lines <= q.capacity
    BY <1>1, <1>2, <1>5
  <2>2. \A i \in 0 .. (q.nb_lines - 1) : Realloc(q, n, TRUE).listing[i] = q.listing[i]
    BY <1>2, <1>5, <2>1, ReallocLines
  <2>3. \A i \in 0 .. (p.nb_lines - 1) : r.listing[i] = p.listing[i]
    BY <1>3, <1>5, <1>7, <2>2
  <2>4. r.block = "live" /\ r.nb_lines = p.nb_lines
    BY <1>3, <1>5, <1>7 DEF Realloc, Program
  <2>5. \A i \in 1 .. p.nb_lines : r.listing[i - 1] = p.listing[i - 1]
    BY <1>1, <2>3
  <2>6. Lines(r) = Lines(p)
    BY <2>4, <2>5 DEF Lines
  <2>7. State(r, TRUE) = "sealed"
    BY <2>4 DEF State, Crashed
  <2> QED
    BY <1>6, <2>6, <2>7 DEF ProgramStep, ListStep, r
<1>8. CASE ~ok
  <2>1. r.block = "null"
    BY <1>3, <1>5, <1>8 DEF Realloc, Program
  <2>2. State(r, TRUE) = "absent" /\ Lines(r) = <<>>
    BY <2>1 DEF State, Crashed, Lines
  <2> QED
    BY <1>6, <2>2 DEF ProgramStep, ListStep, r
<1> QED
  BY <1>7, <1>8

LEMMA FreeStep ==
  ASSUME NEW p \in Program, NEW s \in BOOLEAN, p.block \in {"unset", "null", "live"}
  PROVE  ProgramStep(p, s, ProgramFree(p), s)
<1> DEFINE r == ProgramFree(p)
<1>1. r.block = CASE p.block = "null" -> "null" [] p.block = "live" -> "freed" [] OTHER -> "bad_free"
  BY DEF ProgramFree, Program
<1> HIDE DEF r
<1>2. Lines(r) = <<>> /\ State(r, s) = IF p.block = "unset" THEN "crashed" ELSE "absent"
  BY <1>1 DEF State, Crashed, Lines
<1>3. p.block # "live" => Lines(p) = <<>> /\ State(p, s) = "absent"
  BY DEF State, Crashed, Lines
<1>4. p.block = "live" => State(p, s) \in {"open", "sealed"}
  BY DEF State, Crashed
<1> QED
  BY <1>2, <1>3, <1>4 DEF ProgramStep, ListStep, r

LEMMA SameStep == ASSUME NEW p, NEW s, NEW t, p.block = "live" => t = s PROVE ProgramStep(p, s, p, t)
<1>1. State(p, t) = State(p, s)
  BY DEF State, Crashed
<1> QED
  BY <1>1 DEF ProgramStep, ListStep

LEMMA StepIs ==
  ASSUME ProgramStep(program, shrunk, program', shrunk')
  PROVE  [List!Next]_List!vars
  BY ListStepIs DEF ProgramStep

\* The variables the list depends on, in a step that leaves them alone.
LEMMA Stutter == UNCHANGED <<program, shrunk>> => [List!Next]_List!vars
<1> SUFFICES ASSUME UNCHANGED <<program, shrunk>> PROVE [List!Next]_List!vars
  OBVIOUS
<1>1. ProgramStep(program, shrunk, program, shrunk)
  BY SameStep
<1> QED
  BY <1>1, StepIs

LEMMA CallReadStep ==
  ASSUME IInv, NEW f, CallRead(f)
  PROVE  [List!Next]_List!vars
<1>0. program \in Program /\ shrunk \in BOOLEAN
  BY DEF IInv, Sound
<1>1. CASE UNCHANGED <<program, shrunk>>
  BY <1>1, Stutter
<1>2. CASE ~Crashed(program) /\ program' = ProgramInit(program, FALSE) /\ UNCHANGED shrunk
  <2>1. ProgramStep(program, shrunk, ProgramInit(program, FALSE), shrunk /\ ~FALSE)
    BY <1>0, <1>2, InitStep
  <2>2. (shrunk /\ ~FALSE) = shrunk
    BY <1>0
  <2>3. ProgramStep(program, shrunk, program', shrunk')
    BY <1>2, <2>1, <2>2
  <2> QED
    BY <2>3, StepIs
<1>3. CASE ~Crashed(program) /\ program' = ProgramInit(program, TRUE) /\ shrunk' = FALSE
  <2>1. ProgramStep(program, shrunk, ProgramInit(program, TRUE), shrunk /\ ~TRUE)
    BY <1>0, <1>3, InitStep
  <2>2. (shrunk /\ ~TRUE) = FALSE
    OBVIOUS
  <2>3. ProgramStep(program, shrunk, program', shrunk')
    BY <1>3, <2>1, <2>2
  <2> QED
    BY <2>3, StepIs
<1> QED
  BY <1>1, <1>2, <1>3 DEF CallRead

LEMMA ReadLineStep == IInv /\ ReadLine => [List!Next]_List!vars
<1> SUFFICES ASSUME IInv, ReadLine PROVE [List!Next]_List!vars
  OBVIOUS
<1> DEFINE c == Parsed(Head(input), command)
<1>1. PICK ok \in BOOLEAN : program' = IF Accepted(c) THEN Added(program, c, ok) ELSE program
  BY DEF ReadLine
<1>2. shrunk' = shrunk /\ shrunk \in BOOLEAN /\ Sound(program, shrunk) /\ program.block = "live"
  BY DEF ReadLine, IInv
<1>3. c \in Command
  <2>1. Head(input) \in CmdLine
    BY HeadTailProperties DEF IInv, ReadLine
  <2> QED
    BY <2>1, ParsedType DEF IInv
<1> HIDE DEF c
<1>4. CASE Accepted(c)
  <2>1. ProgramStep(program, shrunk, Added(program, c, ok), shrunk)
    BY <1>2, <1>3, AddStep
  <2> QED
    BY <1>1, <1>2, <1>4, <2>1, StepIs
<1>5. CASE ~Accepted(c)
  BY <1>1, <1>2, <1>5, Stutter
<1> QED
  BY <1>4, <1>5

LEMMA CallAddStep ==
  ASSUME IInv, NEW c \in AddedByCaller, CallAdd(c)
  PROVE  [List!Next]_List!vars
<1>1. PICK ok \in BOOLEAN :
        program' = IF program.block = "live" /\ Accepted(c) THEN Added(program, c, ok) ELSE program
  BY DEF CallAdd
<1>2. c \in Command /\ shrunk' = shrunk /\ shrunk \in BOOLEAN /\ Sound(program, shrunk)
  BY InputsAssumption DEF CallAdd, IInv
<1>3. CASE program.block = "live" /\ Accepted(c)
  <2>1. ProgramStep(program, shrunk, Added(program, c, ok), shrunk)
    BY <1>2, <1>3, AddStep
  <2> QED
    BY <1>1, <1>2, <1>3, <2>1, StepIs
<1>4. CASE ~(program.block = "live" /\ Accepted(c))
  BY <1>1, <1>2, <1>4, Stutter
<1> QED
  BY <1>3, <1>4

LEMMA StepImplements == IInv /\ [Next]_vars => [List!Next]_List!vars
<1> SUFFICES ASSUME IInv, [Next]_vars PROVE [List!Next]_List!vars
  OBVIOUS
<1>0. program \in Program /\ shrunk \in BOOLEAN /\ Sound(program, shrunk)
  BY DEF IInv, Sound
<1>1. CASE CallInit
  <2>1. PICK ok \in BOOLEAN : /\ ~Crashed(program) /\ program' = ProgramInit(program, ok)
                              /\ shrunk' = (shrunk /\ ~ok)
    BY <1>1 DEF CallInit
  <2>2. ProgramStep(program, shrunk, ProgramInit(program, ok), shrunk /\ ~ok)
    BY <1>0, <2>1, InitStep
  <2> QED
    BY <2>1, <2>2, StepIs
<1>2. CASE \E c \in AddedByCaller : CallAdd(c)
  BY <1>2, CallAddStep
<1>3. CASE CallShrink
  <2>1. PICK ok \in BOOLEAN :
          /\ program' = IF program.block = "live" THEN ProgramShrink(program, ok) ELSE program
          /\ shrunk' = (shrunk \/ program.block = "live")
    BY <1>3 DEF CallShrink
  <2>2. CASE program.block = "live"
    <3>1. ProgramStep(program, shrunk, ProgramShrink(program, ok), TRUE)
      BY <1>0, <2>2, ShrinkStep
    <3>2. shrunk' = TRUE /\ program' = ProgramShrink(program, ok)
      BY <2>1, <2>2
    <3> QED
      BY <3>1, <3>2, StepIs
  <2>3. CASE program.block # "live"
    <3>1. shrunk' = shrunk /\ program' = program
      BY <1>0, <2>1, <2>3
    <3> QED
      BY <3>1, Stutter
  <2> QED
    BY <2>2, <2>3
<1>4. CASE CallFree
  <2>1. program' = ProgramFree(program) /\ shrunk' = shrunk /\ program.block \in {"unset", "null", "live"}
    BY <1>4 DEF CallFree
  <2>2. ProgramStep(program, shrunk, ProgramFree(program), shrunk)
    BY <1>0, <2>1, FreeStep
  <2> QED
    BY <2>1, <2>2, StepIs
<1>5. CASE \E f \in Files : CallRead(f)
  BY <1>5, CallReadStep
<1>6. CASE ReadLine
  BY <1>6, ReadLineStep
<1>7. CASE ReadEnd \/ UNCHANGED vars
  BY <1>7, Stutter DEF ReadEnd, vars
<1> QED
  BY <1>1, <1>2, <1>3, <1>4, <1>5, <1>6, <1>7 DEF Next

LEMMA InitImplements == Init => List!Init
<1> SUFFICES ASSUME Init PROVE List!Init
  OBVIOUS
<1>1. program.block \in {"unset", "null"}
  BY DEF Init, Declared
<1>2. State(program, shrunk) = "absent" /\ Lines(program) = <<>>
  BY <1>1 DEF State, Crashed, Lines
<1> QED
  BY <1>2 DEF List!Init

(***************************************************************************)
(* A program_t is a list of commands that is made, appended to and freed,  *)
(* through every reallocation, every failure of one and every file read    *)
(* into it; only a shrunk list may crash when it is extended               *)
(* (program_init, program_add_command, program_shrink, program_free,       *)
(* program_read).                                                          *)
(***************************************************************************)
THEOREM ActsAsList == Spec => ListSpec
<1>1. Init => List!Init
  BY InitImplements
<1>2. IInv /\ [Next]_vars => [List!Next]_List!vars
  BY StepImplements
<1> QED
  BY <1>1, <1>2, Invariance, PTL DEF Spec, List!Spec, ListSpec

-----------------------------------------------------------------------------
(***************************************************************************)
(* What program_read has loaded of a file.                                 *)
(***************************************************************************)
Lasting(c) == c.order = "READ" \/ c \in GarbageCommands

\* Of a file of reads, the lines loaded and those still to read.
LoadedUpTo(p, rest, f) ==
  /\ Len(rest) = Len(f) - p.nb_lines
  /\ \A j \in 1 .. Len(rest) : rest[j] = f[p.nb_lines + j]
  /\ \A i \in 1 .. p.nb_lines : Matches(p.listing[i - 1], f[i])

AllReads(f) == \A i \in DOMAIN f : IsRead(f[i])

Progressed(p, rest, f) ==
  /\ \A i \in 0 .. (p.nb_lines - 1) : Lasting(p.listing[i])
  /\ AllReads(f) => LoadedUpTo(p, rest, f)

FileInv ==
  /\ file \in Files \cup {<<>>}
  /\ pc = "reading" => ret.op = "program_read" /\ Lasting(command)
  /\ FromFile => Progressed(program, input, file) /\ (pc = "idle" => input = <<>>)

LEMMA FileType ==
  ASSUME NEW f \in Files \cup {<<>>}
  PROVE  f \in Seq(CmdLine)
<1>1. CASE f \in Files
  <2>1. f \in Seq([kind : Kinds \ {"W"}, vaddr64 : Nat, data : Nat])
    BY <1>1, InputsAssumption
  <2>2. [kind : Kinds \ {"W"}, vaddr64 : Nat, data : Nat] \subseteq CmdLine
    BY DEF CmdLine
  <2> QED
    BY <2>1, <2>2, SeqMonotonic
<1>2. CASE f = <<>>
  BY <1>2, EmptySeq
<1> QED
  BY <1>1, <1>2

\* A read that is accepted is the command its line stands for.
LEMMA ParsedMatches ==
  ASSUME NEW l \in CmdLine, NEW c \in Command, IsRead(l)
  PROVE  Matches(Parsed(l, c), l)
<1> DEFINE v == InitVirtAddr64(l.vaddr64)
<1>1. l.vaddr64 \in Nat
  BY DEF CmdLine
<1>2. ToUint64(v) = l.vaddr64 % VirtSize
  BY <1>1, AddressesComeBack DEF RoundTrips
<1> HIDE DEF v
<1>3. CASE l.kind = "R I"
  <2>1. Parsed(l, c) = [c EXCEPT !.order = "READ", !.type = "INSTRUCTION", !.vaddr = v]
    BY <1>3 DEF Parsed, v
  <2> QED
    BY <1>2, <1>3, <2>1 DEF Matches, IsRead, Command
<1>4. CASE l.kind = "R DW"
  <2>1. Parsed(l, c) = [c EXCEPT !.order = "READ", !.type = "DATA", !.vaddr = v,
                                 !.data_size = WordBytes]
    BY <1>4 DEF Parsed, v
  <2> QED
    BY <1>2, <1>4, <2>1 DEF Matches, IsRead, Command
<1>5. CASE l.kind = "R DB"
  <2>1. Parsed(l, c) = [c EXCEPT !.order = "READ", !.type = "DATA", !.vaddr = v,
                                 !.data_size = 1]
    BY <1>5 DEF Parsed, v
  <2> QED
    BY <1>2, <1>5, <2>1 DEF Matches, IsRead, Command
<1> QED
  BY <1>3, <1>4, <1>5 DEF IsRead

LEMMA ParsedLasts ==
  ASSUME NEW l \in CmdLine, NEW c \in Command, Lasting(c)
  PROVE  Lasting(Parsed(l, c))
<1>1. CASE l.kind \in {"R I", "R DW", "R DB"}
  <2>1. Parsed(l, c).order = "READ"
    BY <1>1 DEF Parsed, Command
  <2> QED
    BY <2>1 DEF Lasting
<1>2. CASE l.kind \notin {"R I", "R DW", "R DB"}
  BY <1>2 DEF Parsed
<1> QED
  BY <1>1, <1>2

LEMMA AppendedProgress ==
  ASSUME NEW p, NEW s, Sound(p, s), p.block = "live", NEW rest \in Seq(CmdLine), rest # <<>>,
         NEW f \in Seq(CmdLine), NEW c \in Command, NEW r,
         Progressed(p, rest, f), Lasting(c), Appended(p, c, r),
         IsRead(Head(rest)) => Matches(c, Head(rest))
  PROVE  Progressed(r, Rest(Head(rest), Tail(rest)), f)
<1> DEFINE n == p.nb_lines
           t == Tail(rest)
<1>0. n \in Nat /\ r.nb_lines = n + 1
  BY DEF Sound, Program, Appended
<1>1. \A i \in 0 .. (r.nb_lines - 1) : Lasting(r.listing[i])
  <2> SUFFICES ASSUME NEW i \in 0 .. n PROVE Lasting(r.listing[i])
    BY <1>0
  <2>1. CASE i = n
    BY <2>1 DEF Appended
  <2>2. CASE i # n
    <3>1. i \in 0 .. (n - 1)
      BY <1>0, <2>2
    <3> QED
      BY <3>1 DEF Appended, Progressed
  <2> QED
    BY <2>1, <2>2
<1>2. ASSUME AllReads(f)
      PROVE  LoadedUpTo(r, Rest(Head(rest), t), f)
  <2>1. /\ Len(rest) = Len(f) - n
        /\ \A j \in 1 .. Len(rest) : rest[j] = f[n + j]
    BY <1>2 DEF Progressed, LoadedUpTo
  <2>m. \A i \in 1 .. n : Matches(p.listing[i - 1], f[i])
    BY <1>2 DEF Progressed, LoadedUpTo
  <2>2. Len(rest) \in Nat /\ Len(rest) >= 1 /\ Len(f) \in Nat
    BY EmptySeq, LenProperties
  <2>3. /\ t \in Seq(CmdLine) /\ Len(t) = Len(rest) - 1 /\ Head(rest) = rest[1]
        /\ \A j \in 1 .. Len(t) : t[j] = rest[j + 1]
    BY HeadTailProperties
  <2> HIDE DEF t
  <2>4. n + 1 \in DOMAIN f /\ Head(rest) = f[n + 1]
    BY <1>0, <2>1, <2>2, <2>3
  <2>5. IsRead(Head(rest))
    BY <1>2, <2>4 DEF AllReads
  <2>6. Rest(Head(rest), t) = t
    BY <2>5 DEF Rest, IsRead
  <2>7. Len(t) = Len(f) - r.nb_lines
    BY <1>0, <2>1, <2>2, <2>3
  <2>8. \A j \in 1 .. Len(t) : t[j] = f[r.nb_lines + j]
    <3> SUFFICES ASSUME NEW j \in 1 .. Len(t) PROVE t[j] = f[(n + 1) + j]
      BY <1>0
    <3>a. j \in 1 .. (Len(rest) - 1)
      BY <2>3
    <3> DEFINE m == Len(rest)
    <3> HIDE DEF m, n
    <3>1. j + 1 \in 1 .. m /\ n + (j + 1) = (n + 1) + j
      <4>1. n \in Nat /\ m \in Nat /\ j \in 1 .. (m - 1)
        BY <1>0, <2>2, <3>a DEF m, n
      <4> QED
        BY <4>1
    <3> USE DEF m, n
    <3>2. rest[j + 1] = f[n + (j + 1)]
      BY <2>1, <3>1
    <3> QED
      BY <2>3, <3>1, <3>2
  <2>9. \A i \in 1 .. r.nb_lines : Matches(r.listing[i - 1], f[i])
    <3> SUFFICES ASSUME NEW i \in 1 .. (n + 1) PROVE Matches(r.listing[i - 1], f[i])
      BY <1>0
    <3>1. CASE i = n + 1
      <4>1. i - 1 = n
        BY <1>0, <3>1
      <4>2. r.listing[i - 1] = c
        BY <4>1, Zenon DEF Appended
      <4> QED
        BY <2>4, <2>5, <3>1, <4>2
    <3>2. CASE i # n + 1
      <4>1. i \in 1 .. n /\ i - 1 \in 0 .. (n - 1)
        BY <1>0, <3>2
      <4>2. r.listing[i - 1] = p.listing[i - 1]
        BY <4>1 DEF Appended
      <4> QED
        BY <2>m, <4>1, <4>2
    <3> QED
      BY <3>1, <3>2
  <2> QED
    BY <2>6, <2>7, <2>8, <2>9 DEF LoadedUpTo
<1> QED
  BY <1>1, <1>2 DEF Progressed

LEMMA FileInit == Init => FileInv
  BY DEF Init, FileInv, FromFile

LEMMA CallFileInv ==
  ASSUME NEW op, NEW err, Call(op, err), op # "program_read" \/ err = TRUE
  PROVE  FileInv'
<1>1. file' = <<>> /\ pc' = "idle" /\ ret' = [op |-> op, err |-> err]
  BY DEF Call, Returned
<1>2. ret'.op = op /\ ret'.err = err
  BY <1>1
<1>3. ~FromFile'
  BY <1>1, <1>2 DEF FromFile
<1> QED
  BY <1>1, <1>3 DEF FileInv

LEMMA CallReadFileInv ==
  ASSUME IInv, FileInv, NEW f \in Files, CallRead(f)
  PROVE  FileInv'
<1>1. CASE Call("program_read", TRUE)
  BY <1>1, CallFileInv
<1>2. CASE /\ program' = ProgramInit(program, TRUE)
           /\ pc' = "reading" /\ input' = f /\ file' = f /\ shrunk' = FALSE
           /\ command' \in GarbageCommands
           /\ ret' = [op |-> "program_read", err |-> TRUE]
  <2>1. program'.nb_lines = 0
    BY <1>2 DEF ProgramInit
  <2>2. Lasting(command')
    BY <1>2 DEF Lasting
  <2>3. f \in Seq(CmdLine)
    BY FileType
  <2>4. LoadedUpTo(program', f, f)
    <3>1. Len(f) \in Nat
      BY <2>3
    <3>2. 1 .. 0 = {} /\ Len(f) = Len(f) - 0 /\ \A j \in 1 .. Len(f) : 0 + j = j
      BY <3>1
    <3> QED
      BY <2>1, <3>2 DEF LoadedUpTo
  <2>5. 0 .. (0 - 1) = {}
    OBVIOUS
  <2>6. Progressed(program', f, f)
    BY <2>1, <2>4, <2>5 DEF Progressed
  <2> QED
    BY <1>2, <2>2, <2>6 DEF FileInv
<1> QED
  BY <1>1, <1>2 DEF CallRead

LEMMA ReadLineFileInv == IInv /\ FileInv /\ ReadLine => FileInv'
<1> SUFFICES ASSUME IInv, FileInv, ReadLine PROVE FileInv'
  OBVIOUS
<1> DEFINE l == Head(input)
           c == Parsed(l, command)
<1>1. PICK ok \in BOOLEAN :
        LET p == IF Accepted(c) THEN Added(program, c, ok) ELSE program
        IN /\ program' = p
           /\ IF Accepted(c) /\ p.block = "live"
              THEN command' = c /\ input' = Rest(l, Tail(input)) /\ UNCHANGED <<pc, ret>>
              ELSE /\ command' = ZeroCommand /\ input' = <<>>
                   /\ pc' = "idle" /\ Returned("program_read", TRUE)
  BY DEF ReadLine
<1>2. /\ pc = "reading" /\ input # <<>> /\ file' = file /\ input \in Seq(CmdLine)
      /\ program.block = "live" /\ Sound(program, shrunk) /\ shrunk \in BOOLEAN /\ command \in Command
  BY DEF ReadLine, IInv
<1>3. l \in CmdLine
  BY <1>2, HeadTailProperties
<1>4. c \in Command /\ Lasting(c) /\ (IsRead(l) => Matches(c, l))
  BY <1>2, <1>3, ParsedType, ParsedLasts, ParsedMatches DEF FileInv
<1> HIDE DEF c, l
<1>5. CASE Accepted(c) /\ program'.block = "live"
  <2>1. program' = Added(program, c, ok) /\ command' = c /\ input' = Rest(l, Tail(input))
        /\ pc' = pc /\ ret' = ret
    BY <1>1, <1>5
  <2>2. Appended(program, c, program')
    BY <1>2, <1>4, <1>5, <2>1, AddedAppends
  <2>3. FromFile
    BY <1>2 DEF FileInv, FromFile
  <2>4. Progressed(program, input, file) /\ file \in Seq(CmdLine)
    BY <2>3, FileType DEF FileInv
  <2>5. IsRead(Head(input)) => Matches(c, Head(input))
    BY <1>4 DEF l
  <2>6. Progressed(program', Rest(Head(input), Tail(input)), file)
    BY <1>2, <1>4, <2>2, <2>4, <2>5, AppendedProgress
  <2>7. input' = Rest(Head(input), Tail(input))
    BY <2>1 DEF l
  <2>8. file' \in Files \cup {<<>>} /\ pc' = "reading" /\ ret'.op = "program_read" /\ Lasting(command')
    BY <1>2, <1>4, <2>1 DEF FileInv
  <2>9. Progressed(program, input, file)'
    BY <1>2, <2>6, <2>7
  <2> QED
    BY <2>8, <2>9 DEF FileInv
<1>6. CASE ~(Accepted(c) /\ program'.block = "live")
  <2>1. pc' = "idle" /\ ret'.err = TRUE
    BY <1>1, <1>6 DEF Returned
  <2>2. ~FromFile'
    BY <2>1 DEF FromFile
  <2>3. file' \in Files \cup {<<>>}
    BY <1>2 DEF FileInv
  <2> QED
    BY <2>1, <2>2, <2>3 DEF FileInv
<1> QED
  BY <1>5, <1>6

LEMMA ReadEndFileInv == IInv /\ FileInv /\ ReadEnd => FileInv'
<1> SUFFICES ASSUME IInv, FileInv, ReadEnd PROVE FileInv'
  OBVIOUS
<1>1. pc = "reading" /\ input = <<>> /\ pc' = "idle" /\ UNCHANGED <<program, input, file>>
  BY DEF ReadEnd
<1>2. FromFile
  BY <1>1 DEF FileInv, FromFile, IInv
<1>3. Progressed(program', input', file')
  BY <1>1, <1>2 DEF FileInv
<1> QED
  BY <1>1, <1>3 DEF FileInv

LEMMA FileStep == IInv /\ FileInv /\ [Next]_vars => FileInv'
<1> SUFFICES ASSUME IInv, FileInv, [Next]_vars PROVE FileInv'
  OBVIOUS
<1>1. CASE CallInit
  <2>1. PICK ok \in BOOLEAN : Call("program_init", ~ok)
    BY <1>1 DEF CallInit
  <2> QED
    BY <2>1, CallFileInv
<1>2. ASSUME NEW c \in AddedByCaller, CallAdd(c)
      PROVE  FileInv'
  <2>1. PICK err : Call("program_add_command", err)
    BY <1>2 DEF CallAdd
  <2> QED
    BY <2>1, CallFileInv
<1>3. CASE CallShrink
  BY <1>3, CallFileInv DEF CallShrink
<1>4. CASE CallFree
  BY <1>4, CallFileInv DEF CallFree
<1>5. CASE UNCHANGED vars
  BY <1>5 DEF vars, FileInv, FromFile
<1> QED
  BY <1>1, <1>2, <1>3, <1>4, <1>5, CallReadFileInv, ReadLineFileInv, ReadEndFileInv DEF Next

THEOREM FileInvariance == Spec => [](IInv /\ FileInv)
  BY FileInit, FileStep, InitInv, StepInv, PTL DEF Spec

(***************************************************************************)
(* A file of reads is loaded line by line, in order and with the addresses *)
(* it gives, whatever the uninitialised command of program_read held: a    *)
(* read overwrites what decides whether it is accepted, or is refused, and *)
(* then program_read fails (program_read, read_read).                      *)
(***************************************************************************)
THEOREM ReadsLoad == Spec => []ReadsAreLoaded
<1>1. IInv /\ FileInv => ReadsAreLoaded
  <2> SUFFICES ASSUME IInv, FileInv, FromFile, \A i \in DOMAIN file : IsRead(file[i])
               PROVE  /\ program.nb_lines = Len(file) - Len(input)
                      /\ \A i \in 1 .. program.nb_lines : Matches(program.listing[i - 1], file[i])
    BY DEF ReadsAreLoaded
  <2>1. LoadedUpTo(program, input, file)
    BY DEF FileInv, Progressed, AllReads
  <2>2. program.nb_lines \in Nat /\ Len(file) \in Nat /\ Len(input) \in Nat
    <3>1. file \in Seq(CmdLine) /\ input \in Seq(CmdLine)
      BY FileType DEF FileInv, IInv
    <3>2. program.nb_lines \in Nat
      BY DEF IInv, Sound, Program
    <3> QED
      BY <3>1, <3>2
  <2> QED
    BY <2>1, <2>2 DEF LoadedUpTo
<1> QED
  BY <1>1, FileInvariance, PTL

\* What program_read leaves uninitialised is no write of a file.
GarbageIsNoWrite ==
  \A c \in GarbageCommands, f \in Files : \A j \in DOMAIN f : ~IsRead(f[j]) => ~Matches(c, f[j])

(***************************************************************************)
(* No write of a file gets into a program: a command that is loaded is a   *)
(* read, or what the uninitialised command held, and read_write always     *)
(* fails (read_write, program_read).                                       *)
(***************************************************************************)
THEOREM WritesAreLost == ASSUME GarbageIsNoWrite PROVE Spec => []WritesAreNeverLoaded
<1>1. IInv /\ FileInv => WritesAreNeverLoaded
  <2> SUFFICES ASSUME IInv, FileInv, FromFile,
                      NEW i \in 0 .. (program.nb_lines - 1), NEW j \in DOMAIN file,
                      ~IsRead(file[j]), Matches(program.listing[i], file[j])
               PROVE  FALSE
    BY DEF WritesAreNeverLoaded
  <2>1. Lasting(program.listing[i])
    BY DEF FileInv, Progressed
  <2>2. program.listing[i].order = "WRITE"
    BY DEF Matches
  <2>3. program.listing[i] \in GarbageCommands
    BY <2>1, <2>2 DEF Lasting
  <2>4. file \in Files
    BY DEF FileInv
  <2> QED
    BY <2>3, <2>4 DEF GarbageIsNoWrite
<1> QED
  BY <1>1, FileInvariance, PTL

=============================================================================
