------------------------------- MODULE MCSLGMemory -------------------------------
(***************************************************************************)
(* All the programs of MCTabledProgram, with their memory.                 *)
(***************************************************************************)
EXTENDS SLGMemoryInvariant, MCTabledProgram
================================================================================
