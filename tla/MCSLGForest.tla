------------------------------- MODULE MCSLGForest -------------------------------
(***************************************************************************)
(* A few of the programs of MCTabledProgram, each evaluated in every order *)
(* the abstract specification allows.                                      *)
(***************************************************************************)
EXTENDS SLGForest, MCTabledProgram
================================================================================
