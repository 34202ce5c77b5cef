------------------------------- MODULE SLGForest -------------------------------
(***************************************************************************)
(* What tabled evaluation promises, without stacks or scheduling.  Each    *)
(* called subgoal has a tree, the set of goals its clauses have led to.    *)
(* Goals resolve with clauses and with answers, goals that are done add    *)
(* answers, and subgoals that depend on nothing open are completed when    *)
(* nothing is left to do for them.                                         *)
(***************************************************************************)
EXTENDS TabledProgram

VARIABLES program,   \* the program evaluated
          called,    \* the subgoals called so far
          tree,      \* tree[s]: the goals run for s
          answers,   \* answers[s]: the answers tabled for s
          complete   \* the subgoals whose answers are final

forestVars == <<program, called, tree, answers, complete>>

ForestTypeOK ==
  /\ program \in Program
  /\ called \subseteq Subgoal
  /\ tree \in [Subgoal -> SUBSET Goal]
  /\ answers \in [Subgoal -> SUBSET Answer]
  /\ complete \subseteq called

ForestInit ==
  /\ program \in Program
  /\ called = {} /\ complete = {}
  /\ tree = [s \in Subgoal |-> {}]
  /\ answers = [s \in Subgoal |-> {}]

\* Someone asks for s.
Wanted(s) ==
  \/ s \in Range(Query)
  \/ \E t \in called : \E g \in tree[t] : Calls(g) = s

\* The goals that resolution gives for s, with the answers there are.
Resolvents(s) ==
  Range(Clauses(program, s)) \cup
  UNION {{After(g, a) : a \in answers[Calls(g)]} : g \in {h \in tree[s] : Calls(h) # Done}}

Call(s) ==
  /\ s \notin called /\ Wanted(s)
  /\ called' = called \cup {s}
  /\ \E g \in Range(Clauses(program, s)) : tree' = [tree EXCEPT ![s] = {g}]
  /\ UNCHANGED <<program, answers, complete>>

Grow(s) == \E g \in Resolvents(s) : tree' = [tree EXCEPT ![s] = @ \cup {g}]

Resolve(s) ==
  /\ s \in called /\ Grow(s)
  /\ UNCHANGED <<program, called, answers, complete>>

MutDecided(s) == Ground

Decided(s) == {s} \cap Ground

\* A goal that is done adds its answer.  A subgoal without variables has one at
\* most, which decides it.
AddAnswer(s) ==
  /\ s \in called /\ (s \in Ground => answers[s] = {})
  /\ \E g \in tree[s] :
       /\ Calls(g) = Done
       /\ answers' = [answers EXCEPT ![s] = @ \cup {Gives(g)}]
  /\ complete' = complete \cup Decided(s)
  /\ UNCHANGED <<program, called, tree>>

\* Nothing is left to do for s, if it is so for the subgoals in S.
Saturated(s, S) ==
  /\ Resolvents(s) \subseteq tree[s]
  /\ \A g \in tree[s] : IF Calls(g) = Done THEN Gives(g) \in answers[s] ELSE Calls(g) \in S

MutCompleteAll(S) ==
  /\ S # {}
  /\ \A s \in S : Saturated(s, called)
  /\ complete' = complete \cup S
  /\ UNCHANGED <<program, called, tree, answers>>

\* A set of subgoals is completed; an answer may be returned in the same step.
CompleteAll(S) ==
  /\ S # {}
  /\ \A s \in S : Saturated(s, S \cup complete)
  /\ complete' = complete \cup S
  /\ UNCHANGED tree \/ \E s \in called : Grow(s)
  /\ UNCHANGED <<program, called, answers>>

ForestNext ==
  \/ \E s \in Subgoal : Call(s) \/ Resolve(s) \/ AddAnswer(s)
  \/ \E S \in SUBSET (called \ complete) : CompleteAll(S)

ForestSpec == ForestInit /\ [][ForestNext]_forestVars

--------------------------------------------------------------------------------
\* A completed table holds all there is: it has the one answer of a subgoal
\* without variables, or every goal its clauses lead to with the answers of
\* tables that are completed too, and the answers these goals give.
CompletedExact ==
  \A s \in complete : (s \in Ground /\ answers[s] # {}) \/ Saturated(s, complete)

\* What is completed stays so, and no answer is added to it.
CompletedIsFinal ==
  [][\A s \in complete : s \in complete' /\ answers'[s] = answers[s]]_forestVars

\* Goals mt and answers ma that the program's clauses do not lead out of.
IsModel(mt, ma) ==
  /\ mt \in [Subgoal -> SUBSET Goal] /\ ma \in [Subgoal -> SUBSET Answer]
  /\ \A s \in Subgoal :
       /\ Range(Clauses(program, s)) \subseteq mt[s]
       /\ \A g \in mt[s] :
            /\ Calls(g) = Done => Gives(g) \in ma[s]
            /\ Calls(g) # Done => \A a \in ma[Calls(g)] : After(g, a) \in mt[s]

\* A table holds nothing that is not so in every model of the program.
WithinModel(mt, ma) ==
  \A s \in Subgoal : tree[s] \subseteq mt[s] /\ answers[s] \subseteq ma[s]
================================================================================
