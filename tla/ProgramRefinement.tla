-------------------------- MODULE ProgramRefinement --------------------------
(***************************************************************************)
(* The refinement of CommandList by ProgramFile.                           *)
(***************************************************************************)
EXTENDS ProgramFile

\* The commands a program counts, while it lives.
Lines(p) ==
  IF p.block = "live" THEN [i \in 1 .. p.nb_lines |-> p.listing[i - 1]] ELSE <<>>

State(p, s) ==
  CASE p.block = "live" -> IF s THEN "sealed" ELSE "open"
    [] Crashed(p)       -> "crashed"
    [] OTHER            -> "absent"

List == INSTANCE CommandList WITH state <- State(program, shrunk), commands <- Lines(program)

\* A program_t is a list to append to, however it grows, and however it is filled.
ListSpec == List!Spec

=============================================================================
