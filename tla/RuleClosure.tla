------------------------------ MODULE RuleClosure ------------------------------
(***************************************************************************)
(* What p_verb/3 promises: each rule, in turn, is applied once to every    *)
(* element found so far, and nothing is lost.                              *)
(***************************************************************************)
EXTENDS Derivations

VARIABLES upto,      \* how many rules have been applied
          known      \* the elements found so far

closureVars == <<upto, known>>

ClosureInit == upto = 0 /\ known = {InitialElement}

ApplyRule ==
  /\ upto < NRules
  /\ upto' = upto + 1
  /\ known' = known \cup Image(upto + 1, known)

ClosureSpec == ClosureInit /\ [][ApplyRule]_closureVars

================================================================================
