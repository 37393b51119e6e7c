----------------------------- MODULE CommandList -----------------------------
(***************************************************************************)
(* What a program_t promises: a list of commands to append to, until an    *)
(* allocation fails or the list is freed.  A list that has been shrunk "is *)
(* typically no longer extended" (commands.h): here, extending such a list *)
(* may crash.                                                              *)
(***************************************************************************)
EXTENDS SequencesExt

CONSTANT Command
VARIABLES state,      \* "absent", "open", "sealed" (shrunk) or "crashed"
          commands

vars == <<state, commands>>

Init == state = "absent" /\ commands = <<>>

New == state # "crashed" /\ state' = "open" /\ commands' = <<>>

Append1 ==
  /\ state \in {"open", "sealed"}
  /\ commands' # <<>> /\ Front(commands') = commands /\ Last(commands') \in Command
  /\ UNCHANGED state

Seal == state \in {"open", "sealed"} /\ state' = "sealed" /\ UNCHANGED commands

\* Out of memory, or freed.
Drop == state \in {"open", "sealed"} /\ state' = "absent" /\ commands' = <<>>

\* A sealed list was extended, or a list that was never made was freed.
Crash == state \in {"absent", "sealed"} /\ state' = "crashed" /\ commands' = <<>>

Next == New \/ Append1 \/ Seal \/ Drop \/ Crash

Spec == Init /\ [][Next]_vars

=============================================================================
