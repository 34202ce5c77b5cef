----------------------------- MODULE TabledProgram -----------------------------
(***************************************************************************)
(* What a program with tabled predicates is to the engine that runs it:    *)
(* subgoals, the calls of tabled predicates up to renaming, each with the  *)
(* clauses its call resolves with.  A goal is what is left of a clause: it *)
(* selects the tabled call it makes next, or is done and gives an answer.  *)
(* rules.P tables consonants/3, vowels/3, prefixes/3 and any/3; what lies  *)
(* between two tabled calls of a clause, untabled, is part of a goal.      *)
(***************************************************************************)
EXTENDS Naturals, Sequences, SequencesExt

CONSTANTS Subgoal,         \* the variant calls of tabled predicates
          Ground,          \* those that hold no variable
          Answer,          \* answer substitutions
          Goal,            \* the goals
          Program,         \* the programs considered
          Clauses(_, _),   \* Clauses(p, s): the goals of s's clauses, in order
          Calls(_),        \* Calls(g): the tabled call g selects, or Done
          After(_, _),     \* After(g, a): g when its call has the answer a
          Gives(_),        \* Gives(g): the answer of a goal that is done
          Done,            \* no call is left
          Query            \* the tabled calls of the untabled program, in order

ASSUME ProgramAssumption ==
  /\ Ground \subseteq Subgoal
  /\ Done \notin Subgoal
  /\ Query \in Seq(Subgoal)
  /\ \A p \in Program, s \in Subgoal : Clauses(p, s) \in Seq(Goal) /\ Clauses(p, s) # <<>>
  /\ \A g \in Goal : Calls(g) \in Subgoal \cup {Done}
  /\ \A g \in Goal : Calls(g) = Done => Gives(g) \in Answer
  /\ \A g \in Goal, a \in Answer : Calls(g) # Done => After(g, a) \in Goal
================================================================================
