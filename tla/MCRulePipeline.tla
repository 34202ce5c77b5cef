----------------------------- MODULE MCRulePipeline -----------------------------
(***************************************************************************)
(* Five forms and four rules.  Rule 1 turns a into b and b back into a, so *)
(* it applies to its own output; rule 2 has two outputs on one form; rule  *)
(* 3 makes from two forms the same third; rule 4 applies to what only      *)
(* rules 1 and 3 together make, and rule 3 never applies to Surface.       *)
(***************************************************************************)
EXTENDS RulePipeline

CONSTANTS a, b, c, d, ee

MCForm == {a, b, c, d, ee}
MCRewrites ==
  <<[f \in MCForm |-> CASE f = a -> {b} [] f = b -> {a} [] OTHER -> {}],
    [f \in MCForm |-> CASE f = a -> {b, c} [] f = b -> {c} [] OTHER -> {}],
    [f \in MCForm |-> CASE f \in {b, c} -> {d} [] OTHER -> {}],
    [f \in MCForm |-> CASE f = d -> {ee, a} [] f = c -> {ee} [] OTHER -> {}]>>
================================================================================
