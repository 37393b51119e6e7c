-------------------------- MODULE SystemRefinement ---------------------------
(***************************************************************************)
(* The refinement of TranslatedMemory by System.                           *)
(***************************************************************************)
EXTENDS System

Translated == INSTANCE TranslatedMemory WITH
  Images <- {Loaded(n) : n \in ReadLengths \ {0}},
  Commands <- ProgramCommands

\* The driver, its tables and its caches are a program over a translated memory.
TranslatedSpec == Translated!Spec

=============================================================================
