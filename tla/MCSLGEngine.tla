------------------------------- MODULE MCSLGEngine -------------------------------
(***************************************************************************)
(* The engine on every program of MCTabledProgram.                         *)
(***************************************************************************)
EXTENDS SLGEngineInvariant, MCTabledProgram
================================================================================
