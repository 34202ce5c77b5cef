------------------------------ MODULE MCDeployment ------------------------------
(***************************************************************************)
(* The rules, edited by hand, and the two generated modules, in the order  *)
(* of the Makefile, which is also the order an engine first needs them in. *)
(***************************************************************************)
EXTENDS Deployment

MCOBJ == <<"rules", "segments", "stems">>
MCHandwritten == {"rules"}
MCRequests == {"request"}
================================================================================
