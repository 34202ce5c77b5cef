----------------------------- MODULE SLGForestProofs -----------------------------
(***************************************************************************)
(* What tabled evaluation promises holds for every program, every order of *)
(* resolution and every choice of what to complete when: tables hold only  *)
(* what every model of the program holds, a completed table lacks nothing, *)
(* and it never changes again.                                             *)
(***************************************************************************)
EXTENDS SLGForest, TLAPS

LEMMA RangeOfSequence ==
  ASSUME NEW S, NEW sigma \in Seq(S)
  PROVE  Range(sigma) \subseteq S
BY DEF Range

LEMMA ClausesAreGoals ==
  ASSUME NEW p \in Program, NEW s \in Subgoal
  PROVE  Range(Clauses(p, s)) \subseteq Goal
BY ProgramAssumption, RangeOfSequence

LEMMA ResolventsAreGoals ==
  ASSUME ForestTypeOK, NEW s \in Subgoal
  PROVE  Resolvents(s) \subseteq Goal
<1> SUFFICES ASSUME NEW g \in tree[s], Calls(g) # Done, NEW a \in answers[Calls(g)]
             PROVE  After(g, a) \in Goal
  BY ClausesAreGoals DEF Resolvents, ForestTypeOK
<1>1. g \in Goal
  BY DEF ForestTypeOK
<1>2. Calls(g) \in Subgoal
  BY <1>1, ProgramAssumption
<1> QED BY <1>1, <1>2, ProgramAssumption DEF ForestTypeOK

LEMMA TypePreserved ==
  ASSUME ForestTypeOK, [ForestNext]_forestVars
  PROVE  ForestTypeOK'
<1>1. ASSUME NEW s \in Subgoal, Call(s)
      PROVE  ForestTypeOK'
  <2>1. PICK g \in Range(Clauses(program, s)) : tree' = [tree EXCEPT ![s] = {g}]
    BY <1>1 DEF Call
  <2>2. g \in Goal
    BY ClausesAreGoals DEF ForestTypeOK
  <2> QED BY <1>1, <2>1, <2>2 DEF Call, ForestTypeOK
<1>2. ASSUME NEW s \in Subgoal, Grow(s)
      PROVE  tree' \in [Subgoal -> SUBSET Goal]
  BY <1>2, ResolventsAreGoals DEF Grow, ForestTypeOK
<1>3. ASSUME NEW s \in Subgoal, Resolve(s)
      PROVE  ForestTypeOK'
  BY <1>2, <1>3 DEF Resolve, ForestTypeOK
<1>4. ASSUME NEW s \in Subgoal, AddAnswer(s)
      PROVE  ForestTypeOK'
  <2>1. PICK g \in tree[s] : Calls(g) = Done /\ answers' = [answers EXCEPT ![s] = @ \cup {Gives(g)}]
    BY <1>4 DEF AddAnswer
  <2>2. Gives(g) \in Answer
    BY <2>1, ProgramAssumption DEF ForestTypeOK
  <2> QED BY <1>4, <2>1, <2>2 DEF AddAnswer, Decided, ForestTypeOK
<1>5. ASSUME NEW S \in SUBSET (called \ complete), CompleteAll(S)
      PROVE  ForestTypeOK'
  <2>1. called \subseteq Subgoal
    BY DEF ForestTypeOK
  <2>2. tree' \in [Subgoal -> SUBSET Goal]
    BY <1>2, <1>5, <2>1 DEF CompleteAll, ForestTypeOK
  <2> QED BY <1>5, <2>2 DEF CompleteAll, ForestTypeOK
<1>6. CASE UNCHANGED forestVars
  BY <1>6 DEF ForestTypeOK, forestVars
<1> QED BY <1>1, <1>3, <1>4, <1>5, <1>6 DEF ForestNext

\* Tables hold goals and answers, and only tables of called subgoals are complete.
THEOREM ForestTypeCorrect == ForestSpec => []ForestTypeOK
<1>1. ForestInit => ForestTypeOK
  BY DEF ForestInit, ForestTypeOK
<1> QED BY <1>1, TypePreserved, PTL DEF ForestSpec

--------------------------------------------------------------------------------
LEMMA ResolventsWithinModel ==
  ASSUME NEW mt, NEW ma, NEW s \in Subgoal, ForestTypeOK, IsModel(mt, ma), WithinModel(mt, ma)
  PROVE  Resolvents(s) \subseteq mt[s]
<1> SUFFICES ASSUME NEW g \in tree[s], Calls(g) # Done, NEW a \in answers[Calls(g)]
             PROVE  After(g, a) \in mt[s]
  BY DEF Resolvents, IsModel
<1>1. g \in mt[s] /\ Calls(g) \in Subgoal
  BY ProgramAssumption DEF WithinModel, ForestTypeOK
<1>2. a \in ma[Calls(g)]
  BY <1>1 DEF WithinModel
<1> QED BY <1>1, <1>2 DEF IsModel

LEMMA SoundnessPreserved ==
  ASSUME NEW mt, NEW ma, ForestTypeOK, IsModel(mt, ma), WithinModel(mt, ma),
         [ForestNext]_forestVars
  PROVE  WithinModel(mt, ma)'
<1>1. ASSUME NEW s \in Subgoal, Call(s)
      PROVE  WithinModel(mt, ma)'
  <2>1. PICK g \in Range(Clauses(program, s)) : tree' = [tree EXCEPT ![s] = {g}]
    BY <1>1 DEF Call
  <2>2. g \in mt[s]
    BY DEF IsModel
  <2> QED BY <1>1, <2>1, <2>2 DEF Call, WithinModel, ForestTypeOK
<1>2. ASSUME NEW s \in Subgoal, Grow(s), UNCHANGED answers
      PROVE  WithinModel(mt, ma)'
  <2>1. PICK g \in Resolvents(s) : tree' = [tree EXCEPT ![s] = @ \cup {g}]
    BY <1>2 DEF Grow
  <2>2. g \in mt[s]
    BY ResolventsWithinModel
  <2> QED BY <1>2, <2>1, <2>2 DEF WithinModel, ForestTypeOK
<1>3. ASSUME NEW s \in Subgoal, Resolve(s)
      PROVE  WithinModel(mt, ma)'
  BY <1>2, <1>3 DEF Resolve
<1>4. ASSUME NEW s \in Subgoal, AddAnswer(s)
      PROVE  WithinModel(mt, ma)'
  <2>1. PICK g \in tree[s] : Calls(g) = Done /\ answers' = [answers EXCEPT ![s] = @ \cup {Gives(g)}]
    BY <1>4 DEF AddAnswer
  <2>2. Gives(g) \in ma[s]
    BY <2>1 DEF IsModel, WithinModel
  <2> QED BY <1>4, <2>1, <2>2 DEF AddAnswer, WithinModel, ForestTypeOK
<1>5. ASSUME NEW S \in SUBSET (called \ complete), CompleteAll(S)
      PROVE  WithinModel(mt, ma)'
  <2>1. CASE UNCHANGED tree
    BY <1>5, <2>1 DEF CompleteAll, WithinModel
  <2>2. ASSUME NEW s \in called, Grow(s)
        PROVE  WithinModel(mt, ma)'
    BY <1>2, <1>5, <2>2 DEF CompleteAll, ForestTypeOK
  <2> QED BY <1>5, <2>1, <2>2 DEF CompleteAll
<1>6. CASE UNCHANGED forestVars
  BY <1>6 DEF WithinModel, forestVars
<1> QED BY <1>1, <1>3, <1>4, <1>5, <1>6 DEF ForestNext

\* Soundness: whatever goals and answers are closed under the program's clauses,
\* the tables never hold more.
THEOREM ForestSound ==
  ASSUME NEW CONSTANT mt, NEW CONSTANT ma
  PROVE  ForestSpec => [](IsModel(mt, ma) => WithinModel(mt, ma))
<1> DEFINE Sound == IsModel(mt, ma) => WithinModel(mt, ma)
<1>1. ForestInit => Sound
  BY DEF ForestInit, WithinModel
<1>2. ForestTypeOK /\ Sound /\ [ForestNext]_forestVars => Sound'
  <2> SUFFICES ASSUME ForestTypeOK, Sound, [ForestNext]_forestVars, IsModel(mt, ma)'
               PROVE  WithinModel(mt, ma)'
    OBVIOUS
  <2>1. program' = program
    BY DEF ForestNext, forestVars, Call, Resolve, AddAnswer, CompleteAll
  <2>2. IsModel(mt, ma)
    BY <2>1 DEF IsModel
  <2> QED BY <2>2, SoundnessPreserved
<1> HIDE DEF Sound
<1>3. ForestSpec => []Sound
  BY <1>1, <1>2, ForestTypeCorrect, PTL DEF ForestSpec
<1> QED BY <1>3 DEF Sound

--------------------------------------------------------------------------------
LEMMA GrowKeepsSaturated ==
  ASSUME ForestTypeOK, NEW s \in Subgoal, NEW t \in Subgoal, Grow(t),
         Resolvents(s) \subseteq tree[s]
  PROVE  tree'[s] = tree[s]
BY DEF Grow, ForestTypeOK

\* A step changes neither the answers of a completed table nor that it is one.
LEMMA CompletedStays ==
  ASSUME ForestTypeOK, CompletedExact, [ForestNext]_forestVars, NEW s \in complete
  PROVE  s \in complete' /\ answers'[s] = answers[s]
<1>1. s \in Subgoal /\ s \in called
  BY DEF ForestTypeOK
<1>2. ASSUME NEW t \in Subgoal, AddAnswer(t)
      PROVE  s \in complete' /\ answers'[s] = answers[s]
  <2>1. PICK g \in tree[t] : Calls(g) = Done /\ answers' = [answers EXCEPT ![t] = @ \cup {Gives(g)}]
    BY <1>2 DEF AddAnswer
  <2>2. t = s => Gives(g) \in answers[s]
    BY <1>2, <2>1 DEF CompletedExact, AddAnswer, Saturated
  <2>3. answers'[s] = answers[s]
    BY <1>1, <2>1, <2>2 DEF ForestTypeOK
  <2> QED BY <1>2, <2>3 DEF AddAnswer
<1>3. ASSUME NEW t \in Subgoal, Call(t) \/ Resolve(t)
      PROVE  s \in complete' /\ answers'[s] = answers[s]
  BY <1>3 DEF Call, Resolve
<1>4. ASSUME NEW S \in SUBSET (called \ complete), CompleteAll(S)
      PROVE  s \in complete' /\ answers'[s] = answers[s]
  BY <1>4 DEF CompleteAll
<1>5. CASE UNCHANGED forestVars
  BY <1>5 DEF forestVars
<1> QED BY <1>2, <1>3, <1>4, <1>5 DEF ForestNext

\* What lacks nothing, given that its calls are of tables in S, lacks nothing
\* after a step that leaves it and the tables in S alone.
LEMMA SaturatedStays ==
  ASSUME ForestTypeOK, NEW s \in Subgoal, NEW S, Saturated(s, S), S \subseteq complete',
         program' = program, tree'[s] = tree[s], answers[s] \subseteq answers'[s],
         \A t \in S : answers'[t] = answers[t]
  PROVE  Saturated(s, complete)'
<1>1. \A g \in tree[s] : Calls(g) # Done => Calls(g) \in S
  BY DEF Saturated
<1>2. Resolvents(s)' = Resolvents(s)
  BY <1>1 DEF Resolvents
<1>3. Resolvents(s)' \subseteq tree'[s]
  BY <1>2 DEF Saturated
<1>4. \A g \in tree'[s] : IF Calls(g) = Done THEN Gives(g) \in answers'[s] ELSE Calls(g) \in complete'
  BY <1>1 DEF Saturated
<1> QED BY <1>3, <1>4 DEF Saturated

LEMMA ExactPreserved ==
  ASSUME ForestTypeOK, CompletedExact, [ForestNext]_forestVars
  PROVE  CompletedExact'
<1> SUFFICES ASSUME NEW s \in complete', ~(s \in Ground /\ answers'[s] # {})
             PROVE  Saturated(s, complete)'
  BY DEF CompletedExact
<1>1. complete \subseteq complete' /\ \A t \in complete : answers'[t] = answers[t]
  BY CompletedStays
<1>2. program' = program
  BY DEF ForestNext, forestVars, Call, Resolve, AddAnswer, CompleteAll
<1>3. complete \subseteq called /\ called \subseteq Subgoal
  BY DEF ForestTypeOK
<1>4. CASE s \in complete
  <2>1. Saturated(s, complete)
    BY <1>1, <1>4 DEF CompletedExact
  <2>2. tree'[s] = tree[s]
    <3>1. ASSUME NEW t \in Subgoal, Call(t)
          PROVE  tree'[s] = tree[s]
      BY <1>3, <1>4, <3>1 DEF Call, ForestTypeOK
    <3>2. ASSUME NEW t \in Subgoal, Grow(t)
          PROVE  tree'[s] = tree[s]
      BY <1>3, <1>4, <2>1, <3>2, GrowKeepsSaturated DEF Saturated
    <3> QED BY <1>3, <3>1, <3>2 DEF ForestNext, forestVars, Resolve, AddAnswer, CompleteAll
  <2> QED BY <1>1, <1>2, <1>3, <1>4, <2>1, <2>2, SaturatedStays
<1>5. CASE s \notin complete
  <2>1. ASSUME NEW t \in Subgoal, AddAnswer(t)
        PROVE  FALSE
    <3>1. s = t /\ s \in Ground
      BY <1>5, <2>1 DEF AddAnswer, Decided
    <3>2. answers'[s] # {}
      BY <2>1, <3>1 DEF AddAnswer, ForestTypeOK
    <3> QED BY <3>1, <3>2
  <2>2. PICK S \in SUBSET (called \ complete) : CompleteAll(S)
    BY <1>5, <2>1 DEF ForestNext, forestVars, Call, Resolve
  <2>3. s \in S /\ s \in Subgoal /\ complete' = S \cup complete /\ answers' = answers
    BY <1>3, <1>5, <2>2 DEF CompleteAll
  <2>4. Saturated(s, S \cup complete)
    BY <2>2, <2>3 DEF CompleteAll
  <2>5. tree'[s] = tree[s]
    <3>1. ASSUME NEW t \in called, Grow(t)
          PROVE  tree'[s] = tree[s]
      BY <1>3, <2>3, <2>4, <3>1, GrowKeepsSaturated DEF Saturated
    <3> QED BY <2>2, <3>1 DEF CompleteAll
  <2> QED BY <1>2, <2>3, <2>4, <2>5, SaturatedStays
<1> QED BY <1>4, <1>5

\* Completeness: a completed table holds all that its clauses lead to.
THEOREM ForestComplete == ForestSpec => []CompletedExact
<1>1. ForestInit => CompletedExact
  BY DEF ForestInit, CompletedExact
<1> QED BY <1>1, ExactPreserved, ForestTypeCorrect, PTL DEF ForestSpec

\* Nothing is added to a completed table, which other tables and the program have
\* taken for final.
THEOREM CompletedNeverChanges == ForestSpec => CompletedIsFinal
<1>1. ForestTypeOK /\ CompletedExact /\ [ForestNext]_forestVars
        => [\A s \in complete : s \in complete' /\ answers'[s] = answers[s]]_forestVars
  BY CompletedStays
<1> QED BY <1>1, ForestTypeCorrect, ForestComplete, PTL DEF ForestSpec, CompletedIsFinal
================================================================================
