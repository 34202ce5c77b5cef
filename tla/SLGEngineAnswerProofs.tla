------------------------- MODULE SLGEngineAnswerProofs -------------------------
(***************************************************************************)
(* The engine evaluates what the program asks for: whatever its stacks do, *)
(* it takes the steps of SLGForest, completes tables that lack nothing     *)
(* only, and the program's calls get all the answers of the tables, each   *)
(* once.                                                                   *)
(***************************************************************************)
EXTENDS SLGEngineProofs, FiniteSetTheorems

--------------------------------------------------------------------------------
(* The goals that have been followed stay so. *)

\* The choice point i goes on for the call it is for, and passes over no answer without
\* running it.
Continues(i) ==
  /\ cps'[i].cont = cps[i].cont /\ cps'[i].ptcp = cps[i].ptcp
  /\ IsGenerator(i) => IsGenerator(i)' \/ (cps'[i].pc = "answer_return" /\ cps'[i].ret = 0)
  /\ cps[i].pc = "answer_return" =>
       \/ cps'[i].ret = cps[i].ret
       \/ /\ cps'[i].ret = cps[i].ret + 1 /\ cps[i].ret < Len(sf[cps[i].subgoal].answers)
          /\ cps[i].ptcp # User =>
               After(cps[i].cont, sf[cps[i].subgoal].answers[cps[i].ret + 1]) \in tree'[cps[i].ptcp]

\* An answer left in the trie choice point q stays there, or has been run.
StaysLeft(q, a) ==
  \/ /\ q \in 1..top_of_cpstack' /\ cps'[q].pc = "trie" /\ a \in cps'[q].left
     /\ cps'[q].cont = cps[q].cont /\ cps'[q].ptcp = cps[q].ptcp
  \/ cps[q].ptcp # User => sf'[cps[q].ptcp].complete \/ After(cps[q].cont, a) \in tree'[cps[q].ptcp]

\* The table u is open as before, and its answers are what they were, or more.
StaysOpen(u) ==
  /\ OpenTable(u)' /\ sf'[u].cp = sf[u].cp /\ Consumers(u) \subseteq Consumers(u)'
  /\ Continues(sf[u].cp) /\ \A c \in Consumers(u) : Continues(c)
KeepsAnswers(u) ==
  /\ \A k \in 1..Len(sf[u].answers) : sf'[u].answers[k] = sf[u].answers[k]
  /\ sf[u].complete => sf'[u].complete /\ sf'[u].answers = sf[u].answers

LEMMA ReturnedStays ==
  ASSUME OrderInv, OrderInv', AnswersAreCounted, NEW t \in Subgoal, NEW u \in Subgoal, NEW g,
         Returned(t, g, u), ~ sf'[t].complete, tree[t] \subseteq tree'[t],
         OpenTable(u) => StaysOpen(u), KeepsAnswers(u),
         \A q \in 1..top_of_cpstack : cps[q].pc = "trie" => \A a \in cps[q].left : StaysLeft(q, a)
  PROVE  Returned(t, g, u)'
<1>1. Typed /\ StackInv /\ t # User
  BY EngineAssumption DEF OrderInv
<1>2. Typed' /\ StackInv'
  BY DEF OrderInv
<1>3. CASE OpenTable(u) /\ IsGenerator(sf[u].cp) /\ cps[sf[u].cp].cont = g /\ cps[sf[u].cp].ptcp = t
  <2> PICK i : i = sf[u].cp
    OBVIOUS
  <2>1. /\ OpenTable(u)' /\ sf'[u].cp = i /\ cps'[i].cont = g /\ cps'[i].ptcp = t
        /\ IsGenerator(i)' \/ (cps'[i].pc = "answer_return" /\ cps'[i].ret = 0)
    BY <1>3 DEF StaysOpen, Continues
  <2>2. CASE IsGenerator(i)'
    BY <2>1, <2>2 DEF Returned, IsGenerator
  <2>3. CASE cps'[i].pc = "answer_return" /\ cps'[i].ret = 0
    <3>1. i \in Consumers(u)'
      <4>1. IsGenerator(sf[u].cp)' \/ sf'[u].cp \in Consumers(u)'
        BY <1>2, <2>1 DEF StackInv, Stacked, TablesAreOnStack
      <4> QED  BY <2>1, <2>3, <4>1 DEF IsGenerator
    <3>2. sf'[u].answers \in Seq(Answer)
      <4>1. sf'[u] \in SubgoalFrame
        BY <1>2 DEF Typed
      <4> QED  BY <4>1 DEF SubgoalFrame
    <3>3. \A k \in DOMAIN sf'[u].answers : ~ (k <= cps'[i].ret)
      BY <2>3, <3>2
    <3> QED  BY <2>1, <3>1, <3>3 DEF Returned
  <2> QED  BY <2>1, <2>2, <2>3
<1>4. ASSUME OpenTable(u), NEW c \in Consumers(u), cps[c].cont = g, cps[c].ptcp = t,
             \A k \in DOMAIN sf[u].answers : k <= cps[c].ret => After(g, sf[u].answers[k]) \in tree[t]
      PROVE  Returned(t, g, u)'
  <2>1. OpenTable(u)' /\ c \in Consumers(u)' /\ Continues(c)
    BY <1>4 DEF StaysOpen
  <2>2. cps[c].pc = "answer_return" /\ cps[c].subgoal = u /\ c \in 1..Len(cps) /\ cps[c].ret \in Nat
        /\ cps[c].ret <= Len(sf[u].answers)
    <3>1. cps[c].pc = "answer_return" /\ cps[c].subgoal = u /\ c <= bfreg /\ sf[u].cp <= c
      BY <1>1, <1>4 DEF StackInv, Stacked, TablesAreOnStack
    <3>2. c \in 1..Len(cps)
      BY <1>1, <1>4, <3>1, ConsumersTyped, OpenTyped, Tops
    <3>3. cps[c].ret <= Len(sf[u].answers)
      BY <1>4 DEF AnswersAreCounted
    <3> QED  BY <1>1, <3>1, <3>2, <3>3, EntryTyped
  <2> PICK e : e = sf[u].answers
    OBVIOUS
  <2> PICK r \in Nat, n \in Nat : r = cps[c].ret /\ n = Len(e)
    <3>1. Len(e) \in Nat
      BY <1>1, TableTyped
    <3> QED  BY <2>2, <3>1
  <2>3. /\ cps'[c].cont = g /\ cps'[c].ptcp = t
        /\ \/ cps'[c].ret = r
           \/ cps'[c].ret = r + 1 /\ r < n /\ After(g, e[r + 1]) \in tree'[t]
    BY <1>1, <1>4, <2>1, <2>2 DEF Continues
  <2>4. DOMAIN e = 1..n /\ DOMAIN sf'[u].answers \subseteq Nat \ {0}
    <3>1. sf'[u] \in SubgoalFrame /\ sf[u].answers \in Seq(Answer)
      BY <1>1, <1>2, TableTyped DEF Typed
    <3> QED  BY <3>1 DEF SubgoalFrame
  <2>5. ASSUME NEW k \in DOMAIN sf'[u].answers, k <= cps'[c].ret
        PROVE  After(g, sf'[u].answers[k]) \in tree'[t]
    <3>1. k \in Nat /\ k >= 1 /\ r <= n
      BY <2>2, <2>4
    <3>2. k \in 1..n /\ sf'[u].answers[k] = e[k]
      BY <2>3, <2>5, <3>1 DEF KeepsAnswers
    <3>3. CASE k <= r
      BY <1>4, <2>4, <3>2, <3>3
    <3>4. CASE k = r + 1 /\ r < n /\ After(g, e[r + 1]) \in tree'[t]
      BY <3>2, <3>4
    <3> QED  BY <2>3, <2>5, <3>1, <3>3, <3>4
  <2> QED  BY <2>1, <2>3, <2>5 DEF Returned
<1>5. CASE /\ sf[u].complete
           /\ \A a \in Range(sf[u].answers) :
                \/ After(g, a) \in tree[t]
                \/ \E q \in 1..top_of_cpstack :
                     cps[q].pc = "trie" /\ cps[q].cont = g /\ cps[q].ptcp = t /\ a \in cps[q].left
  <2>1. sf'[u].complete /\ sf'[u].answers = sf[u].answers
    BY <1>5 DEF KeepsAnswers
  <2>2. ASSUME NEW a \in Range(sf[u].answers)
        PROVE  \/ After(g, a) \in tree'[t]
               \/ \E q \in 1..top_of_cpstack' :
                    cps'[q].pc = "trie" /\ cps'[q].cont = g /\ cps'[q].ptcp = t /\ a \in cps'[q].left
    <3>1. CASE After(g, a) \in tree[t]
      BY <3>1
    <3>2. ASSUME NEW q \in 1..top_of_cpstack,
                 cps[q].pc = "trie", cps[q].cont = g, cps[q].ptcp = t, a \in cps[q].left
          PROVE  \/ After(g, a) \in tree'[t]
                 \/ \E j \in 1..top_of_cpstack' :
                      cps'[j].pc = "trie" /\ cps'[j].cont = g /\ cps'[j].ptcp = t /\ a \in cps'[j].left
      <4>1. StaysLeft(q, a)
        BY <3>2
      <4> QED  BY <1>1, <3>2, <4>1 DEF StaysLeft
    <3> QED  BY <1>5, <3>1, <3>2
  <2> QED  BY <2>1, <2>2 DEF Returned
<1> QED  BY <1>3, <1>4, <1>5 DEF Returned

\* A step follows the goals of the tables, when it runs those it adds and has followed the one
\* that ran.
LEMMA GoalsKept ==
  ASSUME Typed, GoalsAreFollowed, NEW p, NEW h, p = ptcpreg, h = goal,
         \A t \in Subgoal :
           /\ OpenTable(t)' => OpenTable(t) \/ tree[t] = {}
           /\ sf[t].complete => sf'[t].complete
           /\ Range(sf[t].answers) \subseteq Range(sf'[t].answers)
           /\ \A g \in tree'[t] : g \in tree[t] \/ (running' /\ ptcpreg' = t /\ goal' = g),
         \A t, u \in Subgoal : OpenTable(t) /\ OpenTable(t)' /\ ~ sf'[t].complete =>
           \A g \in tree[t] : Returned(t, g, u) => Returned(t, g, u)',
         running /\ p \in Subgoal /\ OpenTable(p) /\ OpenTable(p)' /\ ~ sf'[p].complete => Followed(p, h)'
  PROVE  GoalsAreFollowed'
<1> SUFFICES ASSUME NEW t \in Subgoal, OpenTable(t)', ~ sf'[t].complete, NEW g \in tree'[t],
                    ~ (running' /\ ptcpreg' = t /\ goal' = g)
             PROVE  Followed(t, g)'
  BY DEF GoalsAreFollowed
<1>1. g \in tree[t] /\ OpenTable(t) /\ ~ sf[t].complete
  BY DEF OpenTable
<1>2. CASE running /\ p = t /\ h = g
  BY <1>1, <1>2
<1>3. CASE ~ (running /\ p = t /\ h = g)
  <2>1. Followed(t, g)
    BY <1>1, <1>3 DEF GoalsAreFollowed
  <2>2. g \in Goal
    BY <1>1 DEF Typed
  <2>3. CASE Calls(g) = Done
    BY <2>1, <2>3 DEF Followed
  <2>4. CASE Calls(g) # Done
    <3>1. PICK u \in Subgoal : u = Calls(g)
      BY <2>2, <2>4, ProgramAssumption
    <3>2. Returned(t, g, u)
      BY <2>1, <2>4, <3>1 DEF Followed
    <3>3. Returned(t, g, u)'
      BY <1>1, <3>2
    <3> QED  BY <2>4, <3>1, <3>3 DEF Followed
  <2> QED  BY <2>3, <2>4
<1> QED  BY <1>2, <1>3

\* The clauses run stay so, when the generators of the tables change no clause to run.
LEMMA ClausesKept ==
  ASSUME ClausesAreRun, program' = program,
         \A t \in Subgoal : tree[t] \subseteq tree'[t],
         \A t \in Subgoal : OpenTable(t)' /\ ~ sf'[t].complete =>
           \/ /\ OpenTable(t) /\ ~ sf[t].complete /\ sf'[t].cp = sf[t].cp
              /\ cps'[sf[t].cp].pc = "tableretry" <=> cps[sf[t].cp].pc = "tableretry"
              /\ cps[sf[t].cp].pc = "tableretry" => cps'[sf[t].cp].next = cps[sf[t].cp].next
           \/ \A k \in DOMAIN Clauses(program, t) :
                (cps'[sf'[t].cp].pc = "tableretry" => k < cps'[sf'[t].cp].next)
                  => Clauses(program, t)[k] \in tree'[t]
  PROVE  ClausesAreRun'
BY DEF ClausesAreRun

\* Consumers have had no more answers than there are.
LEMMA CountsKept ==
  ASSUME Typed, AnswersAreCounted,
         \A t \in Subgoal : OpenTable(t)' =>
           /\ \/ ~ sf'[t].complete
              \/ t \in Ground /\ sf'[t].answers # <<>>
              \/ OpenTable(t) /\ sf[t].complete /\ sf'[t].answers = sf[t].answers
           /\ \A c \in Consumers(t)' :
                \/ /\ OpenTable(t) /\ c \in Consumers(t) /\ cps'[c].ret = cps[c].ret
                   /\ Len(sf'[t].answers) \in Nat /\ Len(sf[t].answers) <= Len(sf'[t].answers)
                   /\ cps[c].ret \in Nat
                \/ cps'[c].ret <= Len(sf'[t].answers)
  PROVE  AnswersAreCounted'
<1>1. \A t \in Subgoal : Len(sf[t].answers) \in Nat
  BY TableTyped
<1> QED  BY <1>1 DEF AnswersAreCounted

LEMMA StepReturns ==
  ASSUME OrderInv, OrderInv', AnswersAreCounted,
         \A u \in Subgoal : (OpenTable(u) => StaysOpen(u)) /\ KeepsAnswers(u) /\ tree[u] \subseteq tree'[u],
         \A q \in 1..top_of_cpstack : cps[q].pc = "trie" => \A a \in cps[q].left : StaysLeft(q, a)
  PROVE  \A t, u \in Subgoal : OpenTable(t) /\ OpenTable(t)' /\ ~ sf'[t].complete =>
           \A g \in tree[t] : Returned(t, g, u) => Returned(t, g, u)'
BY ReturnedStays

\* What an open table has on the stack.
LEMMA OnStack ==
  ASSUME OrderInv, NEW u \in Subgoal, OpenTable(u)
  PROVE  /\ sf[u].cp \in 2..top_of_cpstack
         /\ \A c \in Consumers(u) : /\ c \in 2..top_of_cpstack /\ c \in 1..Len(cps)
                                    /\ cps[c].pc = "answer_return" /\ cps[c].subgoal = u
                                    /\ cps[c].ret \in Nat /\ sf[u].cp <= c /\ c <= bfreg
<1>1. Typed /\ StackInv
  BY DEF OrderInv
<1>2. sf[u].cp \in 2..top_of_cpstack
  BY <1>1, OpenTyped
<1>3. ASSUME NEW c \in Consumers(u)
      PROVE  /\ c \in 2..top_of_cpstack /\ c \in 1..Len(cps)
             /\ cps[c].pc = "answer_return" /\ cps[c].subgoal = u
             /\ cps[c].ret \in Nat /\ sf[u].cp <= c /\ c <= bfreg
  <2>1. cps[c].pc = "answer_return" /\ cps[c].subgoal = u /\ c <= bfreg /\ sf[u].cp <= c /\ c \in Nat
    BY <1>1, <1>3, ConsumersTyped DEF StackInv, Stacked, TablesAreOnStack
  <2>2. c \in 2..top_of_cpstack /\ c \in 1..Len(cps)
    BY <1>1, <1>2, <2>1, Tops
  <2> QED  BY <1>1, <2>1, <2>2, EntryTyped
<1> QED  BY <1>2, <1>3

\* Steps that leave the choice points there are as they are.
LEMMA SameStackReturns ==
  ASSUME OrderInv, OrderInv', AnswersAreCounted, top_of_cpstack <= top_of_cpstack',
         \A i \in 1..top_of_cpstack : cps'[i] = cps[i],
         \A u \in Subgoal :
           /\ OpenTable(u) => OpenTable(u)' /\ sf'[u].cp = sf[u].cp /\ Consumers(u) \subseteq Consumers(u)'
           /\ KeepsAnswers(u) /\ tree[u] \subseteq tree'[u]
  PROVE  \A t, u \in Subgoal : OpenTable(t) /\ OpenTable(t)' /\ ~ sf'[t].complete =>
           \A g \in tree[t] : Returned(t, g, u) => Returned(t, g, u)'
<1>1. top_of_cpstack \in Nat /\ top_of_cpstack' \in Nat
  <2>1. breg' \in Nat /\ bfreg' \in Nat
    BY DEF OrderInv, Typed
  <2>2. Typed
    BY DEF OrderInv
  <2> QED  BY <2>1, <2>2, Tops DEF top_of_cpstack, Higher
<1>2. \A i \in 1..top_of_cpstack : Continues(i) /\ i \in 1..top_of_cpstack'
  BY <1>1 DEF Continues, IsGenerator
<1>3. ASSUME NEW u \in Subgoal, OpenTable(u)  PROVE StaysOpen(u)
  <2>1. sf[u].cp \in 1..top_of_cpstack /\ \A c \in Consumers(u) : c \in 1..top_of_cpstack
    BY <1>1, <1>3, OnStack
  <2> QED  BY <1>2, <1>3, <2>1 DEF StaysOpen
<1>4. \A q \in 1..top_of_cpstack : \A a \in cps[q].left : cps[q].pc = "trie" => StaysLeft(q, a)
  BY <1>2 DEF StaysLeft
<1> QED  BY <1>3, <1>4, StepReturns

LEMMA IdleWork == OrderInv /\ WorkInv /\ (UserAnswer \/ NextQuery) => WorkInv'
<1> SUFFICES ASSUME OrderInv, WorkInv, UserAnswer \/ NextQuery  PROVE WorkInv'
  OBVIOUS
<1>1. OrderInv' /\ Typed /\ ClausesAreRun /\ AnswersAreCounted /\ GoalsAreFollowed
  BY UserAnswerOrder, NextQueryOrder DEF OrderInv, WorkInv
<1>2. /\ UNCHANGED <<program, sf, cps, breg, bfreg>>
      /\ \A t \in Subgoal : tree'[t] = tree[t]
      /\ ~ running \/ ptcpreg = User
  BY EngineAssumption DEF UserAnswer, NextQuery, Fail1, FailTo, Run
<1>3. /\ top_of_cpstack' = top_of_cpstack /\ top_of_cpstack \in Nat
      /\ \A u \in Subgoal : OpenTable(u)' = OpenTable(u) /\ Consumers(u)' = Consumers(u) /\ KeepsAnswers(u)
  BY <1>1, <1>2, Tops DEF top_of_cpstack, OpenTable, Consumers, KeepsAnswers
<1>4. GoalsAreFollowed'
  <2>1. \A t, u \in Subgoal : OpenTable(t) /\ OpenTable(t)' /\ ~ sf'[t].complete =>
           \A g \in tree[t] : Returned(t, g, u) => Returned(t, g, u)'
    BY <1>1, <1>2, <1>3, SameStackReturns
  <2>2. ~ (running /\ ptcpreg \in Subgoal)
    BY <1>2, EngineAssumption
  <2> QED  BY <1>1, <1>2, <1>3, <2>1, <2>2, GoalsKept
<1>5. ClausesAreRun' /\ AnswersAreCounted'
  BY <1>1, <1>2, <1>3 DEF ClausesAreRun, AnswersAreCounted
<1> QED  BY <1>4, <1>5 DEF WorkInv

\* The goals a step adds are the one it runs.
LEMMA RunsAdded ==
  ASSUME Typed, Fail1 \/ (\E g, p : Run(g, p))
  PROVE  \A t \in Subgoal : /\ tree[t] \subseteq tree'[t]
                            /\ \A g \in tree'[t] : g \in tree[t] \/ (running' /\ ptcpreg' = t /\ goal' = g)
BY DEF Fail1, Run, Typed

LEMMA NewProducerWork == OrderInv /\ WorkInv /\ (\E s \in Subgoal : NewProducer(s)) => WorkInv'
<1> SUFFICES ASSUME OrderInv, WorkInv, NEW s \in Subgoal, NewProducer(s)  PROVE WorkInv'
  OBVIOUS
<1>1. OrderInv' /\ Typed /\ TablesAreSound /\ ClausesAreRun /\ AnswersAreCounted /\ GoalsAreFollowed
  BY NewProducerOrder DEF OrderInv, WorkInv
<1>T. PICK T \in Nat : T = top_of_cpstack
  BY <1>1, Tops
<1>p. PICK p : p = ptcpreg
  OBVIOUS
<1>h. PICK h : h = goal
  OBVIOUS
<1> DEFINE k == T + 1
<1>2. /\ \A i \in 1..T : cps'[i] = cps[i]
      /\ cps'[k].pc = "tableretry" \/ cps'[k].pc = "check_complete"
      /\ cps'[k].pc = "check_complete" => ~ (Len(Clauses(program, s)) > 1)
      /\ cps'[k].cont = h /\ cps'[k].ptcp = p /\ cps'[k].next = 2 /\ top_of_cpstack' = k
      /\ \A t \in Subgoal : t # s => sf'[t] = sf[t]
      /\ sf'[s].called /\ ~ sf'[s].complete /\ ~ sf'[s].reclaimed /\ sf'[s].answers = <<>>
      /\ sf'[s].asf = <<>> /\ sf'[s].cp = k
      /\ \A t \in Subgoal : t # s => tree'[t] = tree[t]
      /\ Clauses(program, s)[1] \in tree'[s]
  BY <1>1, <1>T, <1>p, <1>h, NewProducerFacts
<1>3. \E g, q : Run(g, q)
  BY DEF NewProducer
<1>4. program' = program /\ Calling(s) /\ ~ sf[s].called
  BY DEF NewProducer
<1>5. sf[s].answers = <<>> /\ ~ sf[s].complete /\ tree[s] = {} /\ ~ OpenTable(s)
  BY <1>1, <1>4 DEF TablesAreSound, NoTable, OpenTable
<1>6. \A t \in Subgoal : /\ tree[t] \subseteq tree'[t]
                         /\ \A g \in tree'[t] : g \in tree[t] \/ (running' /\ ptcpreg' = t /\ goal' = g)
  BY <1>1, <1>3, RunsAdded
<1>7. ASSUME NEW u \in Subgoal
      PROVE  /\ OpenTable(u) => OpenTable(u)' /\ sf'[u] = sf[u] /\ Consumers(u)' = Consumers(u)
             /\ KeepsAnswers(u) /\ (sf[u].complete => sf'[u].complete)
             /\ Range(sf[u].answers) \subseteq Range(sf'[u].answers)
             /\ OpenTable(u)' => OpenTable(u) \/ u = s
  <2>1. CASE u = s
    BY <1>2, <1>5, <2>1 DEF KeepsAnswers, OpenTable
  <2>2. CASE u # s
    BY <1>2, <2>2 DEF KeepsAnswers, OpenTable, Consumers
  <2> QED  BY <2>1, <2>2
<1>8. GoalsAreFollowed'
  <2>1. \A t, u \in Subgoal : OpenTable(t) /\ OpenTable(t)' /\ ~ sf'[t].complete =>
           \A g \in tree[t] : Returned(t, g, u) => Returned(t, g, u)'
    BY <1>1, <1>2, <1>T, <1>6, <1>7, SameStackReturns
  <2>2. ASSUME p \in Subgoal  PROVE Followed(p, h)'
    <3>1. Calls(h) = s /\ s # Done
      BY <1>1, <1>4, <1>p, <1>h, <2>2, CallingTyped, EngineAssumption, ProgramAssumption
    <3>2. OpenTable(s)' /\ IsGenerator(k)' /\ sf'[s].cp = k /\ cps'[k].cont = h /\ cps'[k].ptcp = p
      BY <1>2 DEF OpenTable, IsGenerator
    <3>3. Returned(p, h, s)'
      BY <3>2 DEF Returned, IsGenerator
    <3> QED  BY <3>1, <3>3 DEF Followed
  <2> QED  BY <1>1, <1>p, <1>h, <1>5, <1>6, <1>7, <2>1, <2>2, GoalsKept
<1>9. ClausesAreRun'
  <2>1. ASSUME NEW t \in Subgoal, OpenTable(t)', t # s
        PROVE  /\ OpenTable(t) /\ sf'[t] = sf[t] /\ cps'[sf[t].cp] = cps[sf[t].cp]
    <3>1. OpenTable(t)
      BY <1>7, <2>1
    <3>2. sf[t].cp \in 1..T
      BY <1>T, <3>1, OnStack
    <3> QED  BY <1>2, <2>1, <3>1, <3>2
  <2>2. ASSUME NEW n \in DOMAIN Clauses(program, s), cps'[k].pc = "tableretry" => n < cps'[k].next
        PROVE  n = 1
    <3>1. Clauses(program, s) \in Seq(Goal)
      BY <1>1, ProgramAssumption DEF Typed
    <3>2. n \in Nat /\ n >= 1 /\ n <= Len(Clauses(program, s)) /\ Len(Clauses(program, s)) \in Nat
      BY <3>1
    <3> QED  BY <1>2, <2>2, <3>2
  <2> QED  BY <1>1, <1>2, <1>4, <1>6, <2>1, <2>2, ClausesKept
<1>10. AnswersAreCounted'
  <2>1. ASSUME NEW t \in Subgoal, OpenTable(t)', t # s, NEW c \in Consumers(t)'
        PROVE  /\ OpenTable(t) /\ c \in Consumers(t) /\ cps'[c].ret = cps[c].ret
               /\ cps[c].ret \in Nat
    <3>1. OpenTable(t) /\ c \in Consumers(t)
      BY <1>7, <2>1
    <3>2. c \in 1..T /\ cps[c].ret \in Nat
      BY <1>T, <3>1, OnStack
    <3> QED  BY <1>2, <3>1, <3>2
  <2>2. Consumers(s)' = {}
    BY <1>2 DEF Consumers, Range
  <2>3. \A t \in Subgoal : Len(sf[t].answers) \in Nat
    BY <1>1, TableTyped
  <2> QED  BY <1>1, <1>2, <1>7, <2>1, <2>2, <2>3, CountsKept
<1> QED  BY <1>8, <1>9, <1>10 DEF WorkInv

LEMMA ConsumeWork == OrderInv /\ WorkInv /\ (\E s \in Subgoal : Consume(s)) => WorkInv'
<1> SUFFICES ASSUME OrderInv, WorkInv, NEW s \in Subgoal, Consume(s)  PROVE WorkInv'
  OBVIOUS
<1>1. OrderInv' /\ Typed /\ StackInv /\ TablesAreSound /\ ClausesAreRun /\ AnswersAreCounted /\ GoalsAreFollowed
  BY ConsumeOrder DEF OrderInv, WorkInv
<1>T. PICK T \in Nat : T = top_of_cpstack
  BY <1>1, Tops
<1>p. PICK p : p = ptcpreg
  OBVIOUS
<1>h. PICK h : h = goal
  OBVIOUS
<1>l. PICK list : list = sf[s].answers
  OBVIOUS
<1> DEFINE k == T + 1
<1>2. /\ OpenTable(s) /\ \A i \in 1..T : cps'[i] = cps[i]
      /\ cps'[k].pc = "answer_return" /\ cps'[k].cont = h /\ cps'[k].ptcp = p
      /\ cps'[k].ret = IF list # <<>> THEN 1 ELSE 0
      /\ top_of_cpstack' = k
      /\ \A t \in Subgoal : /\ t # s => sf'[t] = sf[t]
                            /\ OpenTable(t)' = OpenTable(t) /\ sf'[t].cp = sf[t].cp
                            /\ sf'[t].answers = sf[t].answers /\ sf'[t].complete = sf[t].complete
      /\ Consumers(s)' = {k} \cup Consumers(s)
      /\ \/ list # <<>> /\ Return(list[1], h, p)
         \/ list = <<>> /\ Fail1
  <2>1. /\ OpenTable(s) /\ \A i \in 1..top_of_cpstack : cps'[i] = cps[i]
        /\ cps'[top_of_cpstack + 1].pc = "answer_return"
        /\ cps'[top_of_cpstack + 1].cont = goal /\ cps'[top_of_cpstack + 1].ptcp = ptcpreg
        /\ cps'[top_of_cpstack + 1].ret = IF sf[s].answers # <<>> THEN 1 ELSE 0
        /\ top_of_cpstack' = top_of_cpstack + 1
        /\ \A t \in Subgoal : /\ t # s => sf'[t] = sf[t]
                              /\ OpenTable(t)' = OpenTable(t) /\ sf'[t].cp = sf[t].cp
                              /\ sf'[t].answers = sf[t].answers /\ sf'[t].complete = sf[t].complete
        /\ Consumers(s)' = {top_of_cpstack + 1} \cup Consumers(s)
    BY <1>1, ConsumeFacts
  <2>2. \/ sf[s].answers # <<>> /\ Return(sf[s].answers[1], goal, ptcpreg)
        \/ sf[s].answers = <<>> /\ ~ running' /\ UNCHANGED <<goal, ptcpreg, tree>>
    BY <1>1, ConsumeFacts
  <2>3. \/ list # <<>> /\ Return(list[1], h, p)
        \/ list = <<>> /\ Fail1
    BY <1>p, <1>h, <1>l, <2>2 DEF Fail1
  <2> QED  BY <1>T, <1>p, <1>h, <1>l, <2>1, <2>3
<1>3. program' = program /\ Calling(s) /\ list \in Seq(Answer) /\ Len(list) \in Nat
  BY <1>1, <1>l, TableTyped DEF Consume
<1>4. Fail1 \/ \E g, q : Run(g, q)
  BY <1>2 DEF Return
<1>6. \A t \in Subgoal : /\ tree[t] \subseteq tree'[t]
                         /\ \A g \in tree'[t] : g \in tree[t] \/ (running' /\ ptcpreg' = t /\ goal' = g)
  BY <1>1, <1>4, RunsAdded
<1>7. ASSUME NEW u \in Subgoal
      PROVE  /\ OpenTable(u)' = OpenTable(u) /\ sf'[u].cp = sf[u].cp /\ Consumers(u) \subseteq Consumers(u)'
             /\ KeepsAnswers(u) /\ (sf[u].complete => sf'[u].complete)
             /\ Range(sf[u].answers) \subseteq Range(sf'[u].answers)
  <2>1. Consumers(u) \subseteq Consumers(u)'
    BY <1>2 DEF Consumers
  <2> QED  BY <1>2, <2>1 DEF KeepsAnswers
<1>8. GoalsAreFollowed'
  <2>1. \A t, u \in Subgoal : OpenTable(t) /\ OpenTable(t)' /\ ~ sf'[t].complete =>
           \A g \in tree[t] : Returned(t, g, u) => Returned(t, g, u)'
    BY <1>1, <1>2, <1>T, <1>6, <1>7, SameStackReturns
  <2>2. ASSUME p \in Subgoal  PROVE Followed(p, h)'
    <3>1. Calls(h) = s /\ s # Done
      BY <1>1, <1>3, <1>p, <1>h, <2>2, CallingTyped, EngineAssumption, ProgramAssumption
    <3>2. list # <<>> => After(h, list[1]) \in tree'[p]
      BY <1>1, <1>2, <2>2, EngineAssumption DEF Return, Run, Typed
    <3>3. OpenTable(s)' /\ k \in Consumers(s)' /\ sf'[s].answers = list
      BY <1>2, <1>l
    <3>4. ASSUME NEW n \in DOMAIN list, n <= cps'[k].ret  PROVE After(h, list[n]) \in tree'[p]
      <4>1. n \in Nat /\ n >= 1 /\ list # <<>>
        BY <1>3
      <4>2. n = 1
        BY <1>2, <3>4, <4>1
      <4> QED  BY <3>2, <4>1, <4>2
    <3>5. Returned(p, h, s)'
      BY <1>2, <3>3, <3>4 DEF Returned
    <3> QED  BY <3>1, <3>5 DEF Followed
  <2> QED  BY <1>1, <1>p, <1>h, <1>6, <1>7, <2>1, <2>2, GoalsKept
<1>9. ClausesAreRun'
  <2>1. ASSUME NEW t \in Subgoal, OpenTable(t)'  PROVE cps'[sf[t].cp] = cps[sf[t].cp]
    <3>1. sf[t].cp \in 1..T
      BY <1>T, <1>7, <2>1, OnStack
    <3> QED  BY <1>2, <3>1
  <2> QED  BY <1>1, <1>2, <1>3, <1>6, <1>7, <2>1, ClausesKept
<1>10. AnswersAreCounted'
  <2>1. ASSUME NEW t \in Subgoal, OpenTable(t)', NEW c \in Consumers(t)', ~ (t = s /\ c = k)
        PROVE  OpenTable(t) /\ c \in Consumers(t) /\ cps'[c].ret = cps[c].ret /\ cps[c].ret \in Nat
    <3>1. OpenTable(t) /\ c \in Consumers(t)
      BY <1>2, <2>1 DEF Consumers
    <3>2. c \in 1..T /\ cps[c].ret \in Nat
      BY <1>T, <3>1, OnStack
    <3> QED  BY <1>2, <3>1, <3>2
  <2>2. cps'[k].ret <= Len(sf'[s].answers)
    <3>1. list # <<>> => Len(list) >= 1
      BY <1>3
    <3> QED  BY <1>2, <1>3, <1>l, <3>1
  <2>3. \A t \in Subgoal : Len(sf[t].answers) \in Nat
    BY <1>1, TableTyped
  <2> QED  BY <1>1, <1>2, <2>1, <2>2, <2>3, CountsKept
<1> QED  BY <1>8, <1>9, <1>10 DEF WorkInv

\* The answers of a completed table, one returned, the others left in a trie choice point.
TakesFirstAnswer(s, T, p, h) ==
  /\ T \in Nat /\ top_of_cpstack' \in Nat /\ T <= top_of_cpstack'
  /\ \A i \in 1..T : cps'[i] = cps[i]
  /\ Calling(s) /\ sf[s].complete /\ UNCHANGED <<program, sf, bfreg, openreg, query, results>>
  /\ \/ sf[s].answers = <<>> /\ Fail1
     \/ \E a \in Range(sf[s].answers) :
          /\ Return(a, h, p)
          /\ \A b \in Range(sf[s].answers) \ {a} :
               \E q \in 1..top_of_cpstack' :
                 cps'[q].pc = "trie" /\ cps'[q].cont = h /\ cps'[q].ptcp = p /\ b \in cps'[q].left

LEMMA CallCompletedFacts ==
  ASSUME OrderInv, NEW s \in Subgoal, CallCompleted(s), NEW T, T = top_of_cpstack, NEW p, p = ptcpreg, NEW h, h = goal
  PROVE  TakesFirstAnswer(s, T, p, h)
<1> SUFFICES /\ T \in Nat /\ top_of_cpstack' \in Nat /\ T <= top_of_cpstack'
             /\ \A i \in 1..T : cps'[i] = cps[i]
             /\ Calling(s) /\ sf[s].complete /\ UNCHANGED <<program, sf, bfreg, openreg, query, results>>
             /\ \/ sf[s].answers = <<>> /\ Fail1
                \/ \E a \in Range(sf[s].answers) :
                     /\ Return(a, h, p)
                     /\ \A b \in Range(sf[s].answers) \ {a} :
                          \E q \in 1..top_of_cpstack' :
                            cps'[q].pc = "trie" /\ cps'[q].cont = h /\ cps'[q].ptcp = p /\ b \in cps'[q].left
  BY DEF TakesFirstAnswer
<1>1. Typed
  BY DEF OrderInv
<1>2. /\ Calling(s) /\ sf[s].complete /\ UNCHANGED <<program, sf, bfreg, openreg, query, results>>
  BY DEF CallCompleted
<1>3. T \in Nat /\ T \in 0..Len(cps) /\ breg \in Nat /\ breg <= T /\ bfreg \in Nat /\ bfreg <= T
  BY <1>1, Tops
<1>l. PICK left : left = Range(sf[s].answers)
  OBVIOUS
<1>4. left \subseteq Answer /\ h \in Goal \cup {Asking} /\ p \in Subgoal \cup {User} /\ cps \in Seq(Entry)
  BY <1>1, <1>2, <1>l, CallingTyped, TableTyped, RangeOfSeq DEF Typed
<1>5. CASE sf[s].answers = <<>>
  <2>1. Fail1 /\ UNCHANGED <<cps, breg>>
    BY <1>5 DEF CallCompleted
  <2>2. top_of_cpstack' = T
    BY <1>2, <2>1 DEF top_of_cpstack
  <2> QED  BY <1>2, <1>3, <1>5, <2>1, <2>2
<1>6. CASE sf[s].answers # <<>>
  <2>1. PICK a \in left :
          /\ IF left = {a}
               THEN cps' = cps /\ breg' = breg
               ELSE cps' = Push(cps, T, TrieChoicePoint(left \ {a}, h, p, breg)) /\ breg' = T + 1
          /\ Return(a, h, p)
    BY <1>6, <1>l DEF CallCompleted, TrieReturn
  <2>2. CASE left = {a}
    <3>1. top_of_cpstack' = T
      BY <1>2, <2>1, <2>2 DEF top_of_cpstack
    <3> QED  BY <1>2, <1>3, <1>l, <2>1, <2>2, <3>1
  <2>3. CASE left # {a}
    <3>1. cps' = Push(cps, T, TrieChoicePoint(left \ {a}, h, p, breg)) /\ breg' = T + 1
      BY <2>1, <2>3
    <3>2. /\ \A i \in 1..T : cps'[i] = cps[i]
          /\ cps'[T + 1].pc = "trie" /\ cps'[T + 1].ptcp = p /\ cps'[T + 1].cont = h
          /\ cps'[T + 1].left = left \ {a}
      <4> PICK rest \in SUBSET Answer : rest = left \ {a}
        BY <1>4
      <4> PICK b \in Nat : b = breg
        BY <1>3
      <4>1. cps' = Push(cps, T, TrieChoicePoint(rest, h, p, b))
        BY <3>1
      <4> QED  BY <1>3, <1>4, <4>1, PushedTrie
    <3>3. top_of_cpstack' = T + 1
      BY <1>2, <1>3, <3>1 DEF top_of_cpstack, Higher
    <3>4. T + 1 \in 1..top_of_cpstack'
      BY <1>3, <3>3
    <3> QED  BY <1>2, <1>3, <1>l, <2>1, <3>2, <3>3, <3>4
  <2> QED  BY <2>2, <2>3
<1> QED  BY <1>5, <1>6

LEMMA CallCompletedWork == OrderInv /\ WorkInv /\ (\E s \in Subgoal : CallCompleted(s)) => WorkInv'
<1> SUFFICES ASSUME OrderInv, WorkInv, NEW s \in Subgoal, CallCompleted(s)  PROVE WorkInv'
  OBVIOUS
<1>1. OrderInv' /\ Typed /\ ClausesAreRun /\ AnswersAreCounted /\ GoalsAreFollowed
  BY CallCompletedOrder DEF OrderInv, WorkInv
<1>T. PICK T : T = top_of_cpstack
  OBVIOUS
<1>p. PICK p : p = ptcpreg
  OBVIOUS
<1>h. PICK h : h = goal
  OBVIOUS
<1>2. /\ T \in Nat /\ top_of_cpstack' \in Nat /\ T <= top_of_cpstack'
      /\ \A i \in 1..T : cps'[i] = cps[i]
      /\ Calling(s) /\ sf[s].complete /\ UNCHANGED <<program, sf, bfreg, openreg, query, results>>
      /\ \/ sf[s].answers = <<>> /\ Fail1
         \/ \E a \in Range(sf[s].answers) :
              /\ Return(a, h, p)
              /\ \A b \in Range(sf[s].answers) \ {a} :
                   \E q \in 1..top_of_cpstack' :
                     cps'[q].pc = "trie" /\ cps'[q].cont = h /\ cps'[q].ptcp = p /\ b \in cps'[q].left
  <2>1. TakesFirstAnswer(s, T, p, h)
    BY <1>T, <1>p, <1>h, CallCompletedFacts
  <2> QED  BY <2>1 DEF TakesFirstAnswer
<1>4. Fail1 \/ \E g, q : Run(g, q)
  BY <1>2 DEF Return
<1>6. \A t \in Subgoal : /\ tree[t] \subseteq tree'[t]
                         /\ \A g \in tree'[t] : g \in tree[t] \/ (running' /\ ptcpreg' = t /\ goal' = g)
  BY <1>1, <1>4, RunsAdded
<1>7. \A u \in Subgoal : OpenTable(u)' = OpenTable(u) /\ Consumers(u)' = Consumers(u) /\ KeepsAnswers(u)
  BY <1>2 DEF OpenTable, Consumers, KeepsAnswers
<1>8. GoalsAreFollowed'
  <2>1. \A t, u \in Subgoal : OpenTable(t) /\ OpenTable(t)' /\ ~ sf'[t].complete =>
           \A g \in tree[t] : Returned(t, g, u) => Returned(t, g, u)'
    BY <1>1, <1>2, <1>T, <1>6, <1>7, SameStackReturns
  <2>2. ASSUME p \in Subgoal  PROVE Followed(p, h)'
    <3>1. Calls(h) = s /\ s # Done
      BY <1>1, <1>2, <1>p, <1>h, <2>2, CallingTyped, EngineAssumption, ProgramAssumption
    <3>2. \A a \in Range(sf'[s].answers) :
                \/ After(h, a) \in tree'[p]
                \/ \E q \in 1..top_of_cpstack' :
                     cps'[q].pc = "trie" /\ cps'[q].cont = h /\ cps'[q].ptcp = p /\ a \in cps'[q].left
      <4>1. CASE sf[s].answers = <<>>
        BY <1>2, <4>1 DEF Range
      <4>2. ASSUME NEW a \in Range(sf[s].answers), Return(a, h, p)  PROVE After(h, a) \in tree'[p]
        BY <1>1, <2>2, <4>2, EngineAssumption DEF Return, Run, Typed
      <4> QED  BY <1>2, <4>1, <4>2
    <3>3. Returned(p, h, s)'
      BY <1>2, <3>2 DEF Returned
    <3> QED  BY <3>1, <3>3 DEF Followed
  <2> QED  BY <1>1, <1>2, <1>p, <1>h, <1>6, <1>7, <2>1, <2>2, GoalsKept
<1>9. ClausesAreRun'
  <2>1. ASSUME NEW t \in Subgoal, OpenTable(t)'  PROVE cps'[sf[t].cp] = cps[sf[t].cp]
    <3>1. sf[t].cp \in 1..T
      BY <1>T, <1>7, <2>1, OnStack
    <3> QED  BY <1>2, <3>1
  <2> QED  BY <1>1, <1>2, <1>6, <1>7, <2>1, ClausesKept
<1>10. AnswersAreCounted'
  <2>1. ASSUME NEW t \in Subgoal, OpenTable(t), NEW c \in Consumers(t)
        PROVE  cps'[c] = cps[c]
    <3>1. c \in 1..T
      BY <1>T, <2>1, OnStack
    <3> QED  BY <1>2, <3>1
  <2> QED  BY <1>1, <1>2, <1>7, <2>1 DEF AnswersAreCounted
<1> QED  BY <1>8, <1>9, <1>10 DEF WorkInv

\* Steps that change the fields of choice points, or drop some that have become useless.
LEMMA ChangedStackReturns ==
  ASSUME OrderInv, OrderInv', AnswersAreCounted,
         \A i \in 1..top_of_cpstack : Continues(i),
         \A u \in Subgoal :
           /\ OpenTable(u) => OpenTable(u)' /\ sf'[u].cp = sf[u].cp /\ Consumers(u) \subseteq Consumers(u)'
           /\ KeepsAnswers(u) /\ tree[u] \subseteq tree'[u],
         \A q \in 1..top_of_cpstack : ReturnsMore(q) => \A a \in cps[q].left : StaysLeft(q, a)
  PROVE  \A t, u \in Subgoal : OpenTable(t) /\ OpenTable(t)' /\ ~ sf'[t].complete =>
           \A g \in tree[t] : Returned(t, g, u) => Returned(t, g, u)'
<1>1. Typed
  BY DEF OrderInv
<1>2. top_of_cpstack \in Nat /\ top_of_cpstack \in 1..Len(cps)
  BY <1>1, Tops
<1>3. ASSUME NEW u \in Subgoal, OpenTable(u)  PROVE StaysOpen(u)
  <2>1. sf[u].cp \in 1..top_of_cpstack /\ \A c \in Consumers(u) : c \in 1..top_of_cpstack
    BY <1>2, <1>3, OnStack
  <2> QED  BY <1>3, <2>1 DEF StaysOpen
<1>4. ASSUME NEW q \in 1..top_of_cpstack, cps[q].pc = "trie", NEW a \in cps[q].left  PROVE StaysLeft(q, a)
  <2>1. CASE ReturnsMore(q)
    BY <1>4, <2>1
  <2>2. CASE ~ ReturnsMore(q)
    <3>1. cps[q].ptcp \in Subgoal \cup {User}
      BY <1>1, <1>2, EntryTyped
    <3>2. cps[q].ptcp # User /\ (sf[cps[q].ptcp].complete \/ After(cps[q].cont, a) \in tree[cps[q].ptcp])
      BY <1>4, <2>2 DEF ReturnsMore
    <3> QED  BY <3>1, <3>2 DEF StaysLeft, KeepsAnswers
  <2> QED  BY <2>1, <2>2
<1> QED  BY <1>3, <1>4, StepReturns

LEMMA NewAnswerFacts ==
  ASSUME OrderInv, AnswersAreCounted, NEW s \in Subgoal, NewAnswer(s)
  PROVE  /\ running /\ ptcpreg = s /\ OpenTable(s) /\ goal \in Goal /\ Calls(goal) = Done /\ goal \in tree[s]
         /\ Fail1 /\ UNCHANGED <<program, bfreg, frames, openreg, query, results>>
         /\ \/ /\ UNCHANGED <<sf, cps, breg>>
               /\ Gives(goal) \in Range(sf[s].answers) \/ sf[s].complete
            \/ /\ sf' = [sf EXCEPT ![s].answers = Append(@, Gives(goal)), ![s].complete = @ \/ s \in Ground]
               /\ ~ sf[s].complete /\ (s \in Ground => sf[s].answers = <<>>)
               /\ IF s \in Ground THEN cps' = perform_early_completion(s) /\ breg' = sf[s].cp
                                  ELSE UNCHANGED <<cps, breg>>
<1>1. Typed /\ StackInv /\ TablesAreSound /\ ReturnsToCall
  BY DEF OrderInv
<1>2. running /\ ptcpreg = s /\ s # User /\ Calls(goal) = Done
      /\ Fail1 /\ UNCHANGED <<program, bfreg, frames, openreg, query, results>>
  BY EngineAssumption DEF NewAnswer
<1>3. OpenTable(s) /\ goal \in Goal /\ goal \in tree[s]
  BY <1>1, <1>2 DEF StackInv, RunsInOrder, Typed, ReturnsToCall
<1>4. ~ subgoal_space_has_been_reclaimed(s)
  BY <1>1, <1>3 DEF subgoal_space_has_been_reclaimed, StackInv, FramesHoldTables
<1>5. CASE isNewAnswer(s, Gives(goal))
  <2>1. /\ sf' = [sf EXCEPT ![s].answers = Append(@, Gives(goal)), ![s].complete = @ \/ s \in Ground]
        /\ IF s \in Ground THEN cps' = perform_early_completion(s) /\ breg' = sf[s].cp
                           ELSE UNCHANGED <<cps, breg>>
    BY <1>4, <1>5 DEF NewAnswer
  <2>2. ~ sf[s].complete /\ (s \in Ground => sf[s].answers = <<>>)
    BY <1>3, <1>5 DEF isNewAnswer, AnswersAreCounted
  <2> QED  BY <1>2, <1>3, <2>1, <2>2
<1>6. CASE ~ isNewAnswer(s, Gives(goal))
  <2>1. UNCHANGED <<sf, cps, breg>>
    BY <1>6 DEF NewAnswer
  <2>2. Gives(goal) \in Range(sf[s].answers) \/ sf[s].complete
    BY <1>1, <1>6 DEF isNewAnswer, TablesAreSound
  <2> QED  BY <1>2, <1>3, <2>1, <2>2
<1> QED  BY <1>5, <1>6

\* The table of s with an answer more.
LEMMA AppendedTable ==
  ASSUME Typed, NEW s \in Subgoal, NEW a \in Answer,
         sf' = [sf EXCEPT ![s].answers = Append(@, a), ![s].complete = @ \/ s \in Ground]
  PROVE  /\ \A t \in Subgoal : t # s => sf'[t] = sf[t]
         /\ sf'[s].answers = Append(sf[s].answers, a) /\ (sf'[s].complete <=> sf[s].complete \/ s \in Ground)
         /\ \A t \in Subgoal : /\ sf'[t].called = sf[t].called /\ sf'[t].cp = sf[t].cp /\ sf'[t].asf = sf[t].asf
                               /\ sf'[t].reclaimed = sf[t].reclaimed
         /\ Len(sf'[s].answers) = Len(sf[s].answers) + 1
         /\ \A k \in 1..Len(sf[s].answers) : sf'[s].answers[k] = sf[s].answers[k]
         /\ Range(sf'[s].answers) = Range(sf[s].answers) \cup {a}
<1>c. PICK c \in BOOLEAN : c = (sf[s].complete \/ s \in Ground)
  OBVIOUS
<1>l. PICK l : l = sf[s].answers
  OBVIOUS
<1>1. l \in Seq(Answer) /\ sf \in [Subgoal -> SubgoalFrame] /\ sf[s] \in SubgoalFrame
  BY <1>l, TableTyped DEF Typed
<1>2. PICK list : list = Append(l, a)
  OBVIOUS
<1>3. /\ list \in Seq(Answer) /\ Len(list) = Len(l) + 1 /\ \A k \in 1..Len(l) : list[k] = l[k]
      /\ list[Len(l) + 1] = a /\ Len(l) \in Nat
  BY <1>1, <1>2
<1>4. Range(list) = Range(l) \cup {a}
  <2>1. DOMAIN list = 1..Len(l) + 1 /\ DOMAIN l = 1..Len(l)
    BY <1>1, <1>3
  <2>2. \A k : k \in 1..Len(l) + 1 <=> k \in 1..Len(l) \/ k = Len(l) + 1
    BY <1>3
  <2> QED  BY <1>3, <2>1, <2>2 DEF Range
<1> DEFINE e == [sf[s] EXCEPT !.answers = list, !.complete = c]
<1>5. e.answers = list /\ e.complete = c /\ e.called = sf[s].called /\ e.cp = sf[s].cp
      /\ e.reclaimed = sf[s].reclaimed /\ e.asf = sf[s].asf
  BY <1>1 DEF SubgoalFrame
<1>6. sf' = [sf EXCEPT ![s] = e]
  BY <1>1, <1>2, <1>l, <1>c
<1> HIDE DEF e
<1>7. sf'[s] = e /\ \A t \in Subgoal : t # s => sf'[t] = sf[t]
  BY <1>1, <1>6
<1> QED  BY <1>c, <1>l, <1>2, <1>3, <1>4, <1>5, <1>7

LEMMA NewAnswerWork == OrderInv /\ WorkInv /\ (\E s \in Subgoal : NewAnswer(s)) => WorkInv'
<1> SUFFICES ASSUME OrderInv, WorkInv, NEW s \in Subgoal, NewAnswer(s)  PROVE WorkInv'
  OBVIOUS
<1>1. OrderInv' /\ Typed /\ StackInv /\ ClausesAreRun /\ AnswersAreCounted /\ GoalsAreFollowed
  BY NewAnswerOrder DEF OrderInv, WorkInv
<1>T. PICK T \in Nat : T = top_of_cpstack
  BY <1>1, Tops
<1>h. PICK h : h = goal
  OBVIOUS
<1>2. /\ running /\ ptcpreg = s /\ OpenTable(s) /\ h \in Goal /\ Calls(h) = Done /\ h \in tree[s]
      /\ Fail1 /\ UNCHANGED <<program, bfreg>>
      /\ \/ /\ UNCHANGED <<sf, cps, breg>>
            /\ Gives(h) \in Range(sf[s].answers) \/ sf[s].complete
         \/ /\ sf' = [sf EXCEPT ![s].answers = Append(@, Gives(h)), ![s].complete = @ \/ s \in Ground]
            /\ ~ sf[s].complete /\ (s \in Ground => sf[s].answers = <<>>)
            /\ IF s \in Ground THEN cps' = perform_early_completion(s) /\ breg' = sf[s].cp
                               ELSE UNCHANGED <<cps, breg>>
  BY <1>1, <1>h, NewAnswerFacts
<1>3. \A t \in Subgoal : /\ tree'[t] = tree[t] /\ Len(sf[t].answers) \in Nat
                         /\ \A g \in tree'[t] : g \in tree[t] \/ (running' /\ ptcpreg' = t /\ goal' = g)
  BY <1>1, <1>2, TableTyped DEF Fail1
<1>4. CASE /\ UNCHANGED <<sf, cps, breg>>
           /\ Gives(h) \in Range(sf[s].answers) \/ sf[s].complete
  <2>1. /\ top_of_cpstack' = top_of_cpstack /\ top_of_cpstack \in Nat
        /\ \A u \in Subgoal : OpenTable(u)' = OpenTable(u) /\ Consumers(u)' = Consumers(u) /\ KeepsAnswers(u)
    BY <1>1, <1>2, <1>4, Tops DEF top_of_cpstack, OpenTable, Consumers, KeepsAnswers
  <2>2. GoalsAreFollowed'
    <3>1. \A t, u \in Subgoal : OpenTable(t) /\ OpenTable(t)' /\ ~ sf'[t].complete =>
             \A g \in tree[t] : Returned(t, g, u) => Returned(t, g, u)'
      BY <1>1, <1>3, <1>4, <2>1, SameStackReturns
    <3>2. ~ sf'[s].complete => Followed(s, h)'
      BY <1>2, <1>4 DEF Followed
    <3> QED  BY <1>1, <1>2, <1>3, <1>4, <1>h, <2>1, <3>1, <3>2, GoalsKept
  <2>3. ClausesAreRun' /\ AnswersAreCounted'
    BY <1>1, <1>2, <1>3, <1>4, <2>1 DEF ClausesAreRun, AnswersAreCounted
  <2> QED  BY <2>2, <2>3 DEF WorkInv
<1>5. CASE /\ sf' = [sf EXCEPT ![s].answers = Append(@, Gives(h)), ![s].complete = @ \/ s \in Ground]
           /\ ~ sf[s].complete /\ (s \in Ground => sf[s].answers = <<>>)
           /\ IF s \in Ground THEN cps' = perform_early_completion(s) /\ breg' = sf[s].cp
                              ELSE UNCHANGED <<cps, breg>>
  <2>1. /\ \A t \in Subgoal : t # s => sf'[t] = sf[t]
        /\ (sf'[s].complete <=> s \in Ground)
        /\ \A t \in Subgoal : /\ sf'[t].called = sf[t].called /\ sf'[t].cp = sf[t].cp /\ sf'[t].asf = sf[t].asf
                              /\ sf'[t].reclaimed = sf[t].reclaimed
        /\ Len(sf'[s].answers) = Len(sf[s].answers) + 1
        /\ \A k \in 1..Len(sf[s].answers) : sf'[s].answers[k] = sf[s].answers[k]
        /\ Range(sf'[s].answers) = Range(sf[s].answers) \cup {Gives(h)}
    BY <1>1, <1>2, <1>5, AppendedTable, ProgramAssumption
  <2>2. ASSUME NEW u \in Subgoal
        PROVE  /\ OpenTable(u)' = OpenTable(u) /\ Consumers(u)' = Consumers(u) /\ sf'[u].cp = sf[u].cp
               /\ KeepsAnswers(u) /\ (sf[u].complete => sf'[u].complete)
               /\ Range(sf[u].answers) \subseteq Range(sf'[u].answers)
    <3>1. OpenTable(u)' = OpenTable(u) /\ Consumers(u)' = Consumers(u)
      BY <2>1 DEF OpenTable, Consumers
    <3>2. KeepsAnswers(u)
      BY <1>5, <2>1 DEF KeepsAnswers
    <3>3. Range(sf[u].answers) \subseteq Range(sf'[u].answers)
      BY <2>1
    <3> QED  BY <2>1, <3>1, <3>2, <3>3 DEF KeepsAnswers
  <2>3. ASSUME NEW i \in 1..T
        PROVE  /\ cps'[i].cont = cps[i].cont /\ cps'[i].ptcp = cps[i].ptcp /\ cps'[i].ret = cps[i].ret
               /\ cps'[i].left = cps[i].left /\ cps'[i].next = cps[i].next
               /\ \/ cps'[i].pc = cps[i].pc
                  \/ IsGenerator(i) /\ cps'[i].pc = "check_complete" /\ i = sf[s].cp /\ s \in Ground
    <3>0. i \in 1..Len(cps) /\ i \in 1..T
      BY <1>1, <1>T, <2>3, Tops
    <3>1. cps[i] \in Entry
      BY <1>1, <3>0, EntryTyped
    <3>2. CASE s \notin Ground
      BY <1>5, <3>2
    <3>3. CASE s \in Ground
      <4>k. PICK k : k = sf[s].cp
        OBVIOUS
      <4>1. cps[k].pc = "answer_return" \/ IsGenerator(k)
        BY <1>1, <1>2, <4>k DEF StackInv, Stacked, TablesAreOnStack
      <4>2. PICK pc : pc = IF cps[k].pc = "answer_return" THEN "answer_return" ELSE "check_complete"
        OBVIOUS
      <4> DEFINE e == [cps[k] EXCEPT !.pc = pc]
      <4>3. cps' = [cps EXCEPT ![k] = e] /\ i \in DOMAIN cps
        <5>1. k \in 1..Len(cps) /\ cps[k] \in Entry /\ cps \in Seq(Entry)
          BY <1>1, <1>2, <4>k, OpenTyped, EntryTyped DEF Typed
        <5>2. cps' = [cps EXCEPT ![k] = e]
          BY <1>5, <3>3, <4>1, <4>2, <4>k, <5>1 DEF perform_early_completion
        <5> QED  BY <3>0, <5>1, <5>2
      <4>4. CASE i # k
        BY <4>3, <4>4
      <4>5. CASE i = k
        <5>1. e.cont = cps[i].cont /\ e.ptcp = cps[i].ptcp /\ e.ret = cps[i].ret /\ e.left = cps[i].left
              /\ e.next = cps[i].next /\ e.pc = pc
          BY <3>1, <4>5 DEF Entry
        <5>2. cps'[i] = e
          BY <4>3, <4>5
        <5> HIDE DEF e
        <5> QED  BY <3>3, <4>1, <4>2, <4>5, <4>k, <5>1, <5>2
      <4> QED  BY <4>4, <4>5
    <3> QED  BY <3>2, <3>3
  <2>4. \A i \in 1..T : Continues(i)
    BY <2>3 DEF Continues, IsGenerator
  <2>5. ASSUME NEW q \in 1..T, ReturnsMore(q), NEW a \in cps[q].left  PROVE StaysLeft(q, a)
    <3>1. cps[q].pc = "trie" /\ cps'[q].pc = "trie" /\ cps'[q].left = cps[q].left
          /\ cps'[q].cont = cps[q].cont /\ cps'[q].ptcp = cps[q].ptcp
      BY <2>3, <2>5 DEF ReturnsMore, IsGenerator
    <3>2. CASE s \in Ground /\ cps[q].ptcp = s
      BY <2>1, <3>2 DEF StaysLeft
    <3>3. CASE ~ (s \in Ground /\ cps[q].ptcp = s)
      <4>1. q \in 1..top_of_cpstack'
        <5>1. CASE s \notin Ground
          BY <1>2, <1>5, <1>T, <2>5, <5>1 DEF top_of_cpstack
        <5>2. CASE s \in Ground
          <6>1. q <= sf[s].cp
            BY <1>1, <1>2, <1>T, <2>5, <3>3, <5>2, RunsNewest, EngineAssumption DEF Waits, Precedes
          <6>2. sf[s].cp <= top_of_cpstack' /\ top_of_cpstack' \in Nat /\ sf[s].cp \in Nat
            BY <1>1, <1>2, <1>5, <5>2, Tops, TableTyped DEF top_of_cpstack, Higher
          <6> QED  BY <6>1, <6>2
        <5> QED  BY <5>1, <5>2
      <4> QED  BY <2>5, <3>1, <4>1 DEF StaysLeft
    <3> QED  BY <3>2, <3>3
  <2>6. GoalsAreFollowed'
    <3>1. \A t, u \in Subgoal : OpenTable(t) /\ OpenTable(t)' /\ ~ sf'[t].complete =>
             \A g \in tree[t] : Returned(t, g, u) => Returned(t, g, u)'
      BY <1>1, <1>3, <1>T, <2>2, <2>4, <2>5, ChangedStackReturns
    <3>2. Followed(s, h)'
      BY <1>2, <2>1 DEF Followed
    <3> QED  BY <1>1, <1>2, <1>3, <1>h, <2>2, <3>1, <3>2, GoalsKept
  <2>7. ClausesAreRun'
    <3>1. ASSUME NEW t \in Subgoal, OpenTable(t)', ~ sf'[t].complete
          PROVE  /\ OpenTable(t) /\ ~ sf[t].complete /\ cps'[sf[t].cp].next = cps[sf[t].cp].next
                 /\ cps'[sf[t].cp].pc = cps[sf[t].cp].pc
      <4>1. OpenTable(t) /\ ~ sf[t].complete
        BY <2>2, <3>1
      <4>2. sf[t].cp \in 1..T
        BY <1>T, <4>1, OnStack
      <4>3. ~ (sf[t].cp = sf[s].cp /\ s \in Ground)
        BY <1>1, <1>2, <2>1, <3>1, <4>1, AgeOrder
      <4> QED  BY <2>3, <4>1, <4>2, <4>3
    <3> QED  BY <1>1, <1>2, <1>3, <2>2, <3>1, ClausesKept
  <2>8. AnswersAreCounted'
    <3>1. ASSUME NEW t \in Subgoal, OpenTable(t), NEW c \in Consumers(t)
          PROVE  cps'[c].ret = cps[c].ret /\ cps[c].ret \in Nat
      <4>1. c \in 1..T /\ cps[c].ret \in Nat
        BY <1>T, <3>1, OnStack
      <4> QED  BY <2>3, <4>1
    <3>2. ASSUME NEW t \in Subgoal
          PROVE  /\ Len(sf'[t].answers) \in Nat /\ Len(sf[t].answers) <= Len(sf'[t].answers)
                 /\ ~ sf'[t].complete \/ (t \in Ground /\ sf'[t].answers # <<>>)
                    \/ (sf[t].complete /\ sf'[t].answers = sf[t].answers)
      <4>1. CASE t = s
        BY <1>3, <2>1, <4>1
      <4>2. CASE t # s
        BY <1>3, <2>1, <4>2
      <4> QED  BY <4>1, <4>2
    <3> QED  BY <1>1, <2>2, <3>1, <3>2, CountsKept
  <2> QED  BY <2>6, <2>7, <2>8 DEF WorkInv
<1> QED  BY <1>2, <1>4, <1>5

\* A generator, or a consumer, that is resumed is of an open table.
LEMMA ResumedIs ==
  ASSUME OrderInv, NEW k, k = breg, cps[k].pc \in {"tableretry", "answer_return", "trie"}
  PROVE  /\ k \in 2..top_of_cpstack /\ k \in 1..top_of_cpstack /\ k \in 1..Len(cps) /\ cps[k] \in Entry
         /\ cps[k].pc \in {"tableretry", "answer_return"} =>
              /\ cps[k].subgoal \in Subgoal /\ OpenTable(cps[k].subgoal)
              /\ IF cps[k].pc = "tableretry" THEN sf[cps[k].subgoal].cp = k ELSE k \in Consumers(cps[k].subgoal)
<1>1. Typed /\ StackInv
  BY DEF OrderInv
<1>2. k \in 1..top_of_cpstack /\ k \in 1..Len(cps) /\ top_of_cpstack \in Nat
  BY <1>1, Tops DEF Typed
<1>3. k # 1 /\ (cps[k].pc \in {"tableretry", "answer_return"} =>
              /\ cps[k].subgoal \in Subgoal /\ OpenTable(cps[k].subgoal)
              /\ IF cps[k].pc = "tableretry" THEN sf[cps[k].subgoal].cp = k ELSE k \in Consumers(cps[k].subgoal))
  BY <1>1, <1>2 DEF StackInv, Stacked, EntriesAreAlive, IsGenerator
<1> QED  BY <1>1, <1>2, <1>3, EntryTyped

LEMMA NextClauseWork == OrderInv /\ WorkInv /\ NextClause => WorkInv'
<1> SUFFICES ASSUME OrderInv, WorkInv, NextClause  PROVE WorkInv'
  OBVIOUS
<1>1. OrderInv' /\ Typed /\ StackInv /\ ClausesAreRun /\ AnswersAreCounted /\ GoalsAreFollowed
  BY NextClauseOrder DEF OrderInv, WorkInv
<1>T. PICK T \in Nat : T = top_of_cpstack
  BY <1>1, Tops
<1>k. PICK k : k = breg
  OBVIOUS
<1>s. PICK s : s = cps[k].subgoal
  OBVIOUS
<1>n. PICK n : n = cps[k].next
  OBVIOUS
<1>m. PICK m : m = Len(Clauses(program, s))
  OBVIOUS
<1>2. /\ k \in 2..T /\ k \in 1..T /\ k \in 1..Len(cps) /\ cps[k] \in Entry /\ s \in Subgoal
      /\ cps[k].pc = "tableretry" /\ n \in 2..m /\ OpenTable(s) /\ sf[s].cp = k
      /\ m \in Nat /\ DOMAIN Clauses(program, s) = 1..m
  <2>1. cps[k].pc = "tableretry"
    BY <1>k DEF NextClause, FailTo
  <2>2. /\ k \in 2..T /\ k \in 1..T /\ k \in 1..Len(cps) /\ cps[k] \in Entry /\ s \in Subgoal
        /\ OpenTable(s) /\ sf[s].cp = k
    BY <1>k, <1>s, <1>T, <2>1, ResumedIs
  <2>3. n \in 2..m
    BY <1>n, <1>m, <1>s, <1>T, <2>1, <2>2, EntriesAre
  <2>4. Clauses(program, s) \in Seq(Goal)
    BY <1>1, <2>2, ProgramAssumption DEF Typed
  <2> QED  BY <1>m, <2>1, <2>2, <2>3, <2>4
<1>3. /\ ~ running /\ UNCHANGED <<program, sf, breg, bfreg>>
      /\ cps' = [cps EXCEPT ![k].next = @ + 1, ![k].pc = IF n = m THEN "check_complete" ELSE @]
      /\ Run(Clauses(program, s)[n], s)
  BY <1>k, <1>s, <1>n, <1>m DEF NextClause, FailTo
<1>4. ASSUME NEW i \in 1..T
      PROVE  /\ cps'[i].cont = cps[i].cont /\ cps'[i].ptcp = cps[i].ptcp /\ cps'[i].ret = cps[i].ret
             /\ cps'[i].left = cps[i].left
             /\ IF i = k THEN cps'[i].next = n + 1 /\ cps'[i].pc = IF n = m THEN "check_complete" ELSE "tableretry"
                         ELSE cps'[i] = cps[i]
  <2>0. i \in DOMAIN cps /\ cps \in Seq(Entry)
    BY <1>1, <1>T, <1>4, Tops DEF Typed
  <2>1. CASE i # k
    BY <1>3, <2>0, <2>1
  <2>2. CASE i = k
    <3>c. PICK pc : pc = IF n = m THEN "check_complete" ELSE "tableretry"
      OBVIOUS
    <3> DEFINE e == [cps[k] EXCEPT !.next = n + 1, !.pc = pc]
    <3>1. e.cont = cps[k].cont /\ e.ptcp = cps[k].ptcp /\ e.ret = cps[k].ret /\ e.left = cps[k].left
          /\ e.next = n + 1 /\ e.pc = pc
      BY <1>2 DEF Entry
    <3>2. cps' = [cps EXCEPT ![k] = e]
      BY <1>2, <1>3, <1>n, <3>c
    <3> HIDE DEF e
    <3>3. cps'[i] = e
      BY <2>0, <2>2, <3>2
    <3> QED  BY <2>2, <3>1, <3>3, <3>c
  <2> QED  BY <2>1, <2>2
<1>5. \A t \in Subgoal : /\ tree[t] \subseteq tree'[t]
                         /\ \A g \in tree'[t] : g \in tree[t] \/ (running' /\ ptcpreg' = t /\ goal' = g)
  BY <1>1, <1>3, RunsAdded
<1>6. \A u \in Subgoal : OpenTable(u)' = OpenTable(u) /\ Consumers(u)' = Consumers(u) /\ KeepsAnswers(u)
  BY <1>3 DEF OpenTable, Consumers, KeepsAnswers
<1>7. GoalsAreFollowed'
  <2>1. \A i \in 1..T : Continues(i)
    BY <1>2, <1>4 DEF Continues, IsGenerator
  <2>2. top_of_cpstack' = T
    BY <1>3, <1>T DEF top_of_cpstack
  <2>3. ASSUME NEW q \in 1..T, ReturnsMore(q), NEW a \in cps[q].left  PROVE StaysLeft(q, a)
    BY <1>2, <1>4, <2>2, <2>3 DEF StaysLeft, ReturnsMore
  <2>4. \A t, u \in Subgoal : OpenTable(t) /\ OpenTable(t)' /\ ~ sf'[t].complete =>
           \A g \in tree[t] : Returned(t, g, u) => Returned(t, g, u)'
    BY <1>1, <1>3, <1>T, <1>5, <1>6, <2>1, <2>3, ChangedStackReturns
  <2> QED  BY <1>1, <1>3, <1>5, <1>6, <2>4, GoalsKept
<1>8. ClausesAreRun'
  <2>1. ASSUME NEW t \in Subgoal, OpenTable(t), t # s
        PROVE  sf[t].cp # k /\ sf[t].cp \in 1..T
    BY <1>1, <1>2, <1>T, <2>1, AgeOrder, OnStack
  <2>2. Clauses(program, s)[n] \in tree'[s]
    BY <1>1, <1>2, <1>3 DEF Run, Typed
  <2>3. ASSUME ~ sf[s].complete, NEW j \in 1..m, cps'[k].pc = "tableretry" => j < n + 1
        PROVE  Clauses(program, s)[j] \in tree'[s]
    <3>1. CASE j = n
      BY <2>2, <3>1
    <3>2. CASE j # n
      <4>1. j < n
        BY <1>2, <1>4, <2>3, <3>2
      <4>2. Clauses(program, s)[j] \in tree[s]
        BY <1>1, <1>2, <1>n, <2>3, <4>1 DEF ClausesAreRun
      <4> QED  BY <1>2, <1>5, <4>2
    <3> QED  BY <3>1, <3>2
  <2>4. ASSUME NEW t \in Subgoal, OpenTable(t)', ~ sf'[t].complete
        PROVE
           \/ /\ OpenTable(t) /\ ~ sf[t].complete /\ sf'[t].cp = sf[t].cp
              /\ cps'[sf[t].cp].pc = "tableretry" <=> cps[sf[t].cp].pc = "tableretry"
              /\ cps[sf[t].cp].pc = "tableretry" => cps'[sf[t].cp].next = cps[sf[t].cp].next
           \/ \A j \in DOMAIN Clauses(program, t) :
                (cps'[sf'[t].cp].pc = "tableretry" => j < cps'[sf'[t].cp].next)
                  => Clauses(program, t)[j] \in tree'[t]
    <3>1. CASE t = s
      BY <1>2, <1>3, <1>4, <2>3, <2>4, <3>1
    <3>2. CASE t # s
      BY <1>3, <1>4, <1>6, <2>1, <2>4, <3>2
    <3> QED  BY <3>1, <3>2
  <2> QED  BY <1>1, <1>3, <1>5, <2>4, ClausesKept
<1>9. AnswersAreCounted'
  <2>1. ASSUME NEW t \in Subgoal, OpenTable(t), NEW c \in Consumers(t)
        PROVE  cps'[c].ret = cps[c].ret
    <3>1. c \in 1..T
      BY <1>T, <2>1, OnStack
    <3> QED  BY <1>4, <3>1
  <2> QED  BY <1>1, <1>3, <1>6, <2>1 DEF AnswersAreCounted
<1> QED  BY <1>7, <1>8, <1>9 DEF WorkInv

LEMMA NextOfTrieWork == OrderInv /\ WorkInv /\ NextOfTrie => WorkInv'
<1> SUFFICES ASSUME OrderInv, WorkInv, NextOfTrie  PROVE WorkInv'
  OBVIOUS
<1>1. OrderInv' /\ Typed /\ StackInv /\ ClausesAreRun /\ AnswersAreCounted /\ GoalsAreFollowed
  BY NextOfTrieOrder DEF OrderInv, WorkInv
<1>T. PICK T \in Nat : T = top_of_cpstack
  BY <1>1, Tops
<1>k. PICK k : k = breg
  OBVIOUS
<1>b. PICK b : b = cps[k].prev
  OBVIOUS
<1>l. PICK left : left = cps[k].left
  OBVIOUS
<1>h. PICK h : h = cps[k].cont
  OBVIOUS
<1>p. PICK p : p = cps[k].ptcp
  OBVIOUS
<1>2. /\ k \in 2..T /\ k \in 1..Len(cps) /\ cps[k] \in Entry /\ cps[k].pc = "trie" /\ p \in Subgoal \cup {User}
  <2>1. cps[k].pc = "trie"
    BY <1>k DEF NextOfTrie, FailTo
  <2> QED  BY <1>1, <1>k, <1>p, <1>T, <2>1, ResumedIs, EntryTyped
<1>3. PICK a \in left :
        /\ IF left = {a} THEN breg' = b /\ UNCHANGED cps
                         ELSE cps' = [cps EXCEPT ![k].left = @ \ {a}] /\ UNCHANGED breg
        /\ Return(a, h, p)
  BY <1>k, <1>b, <1>l, <1>h, <1>p DEF NextOfTrie
<1>4. ~ running /\ UNCHANGED <<program, sf, bfreg>>
  BY DEF NextOfTrie, FailTo
<1>5. ASSUME NEW i \in 1..T
      PROVE  /\ cps'[i].cont = cps[i].cont /\ cps'[i].ptcp = cps[i].ptcp /\ cps'[i].ret = cps[i].ret
             /\ cps'[i].pc = cps[i].pc /\ cps'[i].next = cps[i].next
             /\ cps'[i].left = IF i = k /\ left # {a} THEN left \ {a} ELSE cps[i].left
  <2>1. CASE left = {a}
    BY <1>3, <2>1
  <2>2. CASE left # {a}
    <3>1. i \in DOMAIN cps /\ cps \in Seq(Entry)
      BY <1>1, <1>T, <1>5, Tops DEF Typed
    <3> DEFINE e == [cps[k] EXCEPT !.left = left \ {a}]
    <3>2. e.cont = cps[k].cont /\ e.ptcp = cps[k].ptcp /\ e.ret = cps[k].ret /\ e.left = left \ {a}
          /\ e.next = cps[k].next /\ e.pc = cps[k].pc
      BY <1>2 DEF Entry
    <3>3. cps' = [cps EXCEPT ![k] = e]
      BY <1>2, <1>3, <1>l, <2>2
    <3> HIDE DEF e
    <3>4. cps'[i] = IF i = k THEN e ELSE cps[i]
      BY <3>1, <3>3
    <3> QED  BY <2>2, <3>2, <3>4
  <2> QED  BY <2>1, <2>2
<1>6. \E g, q : Run(g, q)
  BY <1>3 DEF Return
<1>7. \A t \in Subgoal : /\ tree[t] \subseteq tree'[t]
                         /\ \A g \in tree'[t] : g \in tree[t] \/ (running' /\ ptcpreg' = t /\ goal' = g)
  BY <1>1, <1>6, RunsAdded
<1>8. \A u \in Subgoal : OpenTable(u)' = OpenTable(u) /\ Consumers(u)' = Consumers(u) /\ KeepsAnswers(u)
  BY <1>4 DEF OpenTable, Consumers, KeepsAnswers
<1>9. GoalsAreFollowed'
  <2>1. \A i \in 1..T : Continues(i)
    BY <1>5 DEF Continues, IsGenerator
  <2>2. p # User => After(h, a) \in tree'[p]
    BY <1>1, <1>2, <1>3 DEF Return, Run, Typed
  <2>3. \A q \in 1..T : Waits(q) /\ (q # k \/ left # {a}) => q \in 1..top_of_cpstack'
    <3>1. CASE left = {a}
      <4>1. breg' = b /\ b \in 1..T /\ \A q \in 1..T : Waits(q) => q <= b \/ q = k
        BY <1>1, <1>2, <1>3, <1>b, <1>k, <1>T, <3>1, Backs DEF IsGenerator
      <4>2. top_of_cpstack' \in Nat /\ b <= top_of_cpstack'
        BY <1>1, <1>4, <4>1, Tops DEF top_of_cpstack, Higher
      <4> QED  BY <3>1, <4>1, <4>2
    <3>2. CASE left # {a}
      BY <1>3, <1>4, <1>T, <3>2 DEF top_of_cpstack
    <3> QED  BY <3>1, <3>2
  <2>4. ASSUME NEW q \in 1..T, ReturnsMore(q), NEW x \in cps[q].left  PROVE StaysLeft(q, x)
    <3>1. CASE q = k /\ x = a
      BY <1>h, <1>p, <2>2, <3>1 DEF StaysLeft
    <3>2. CASE ~ (q = k /\ x = a)
      <4>1. q \in 1..top_of_cpstack'
        BY <1>l, <2>3, <2>4, <3>2 DEF Waits
      <4>2. x \in cps'[q].left
        BY <1>5, <1>l, <2>4, <3>2
      <4> QED  BY <1>5, <2>4, <4>1, <4>2 DEF StaysLeft, ReturnsMore
    <3> QED  BY <3>1, <3>2
  <2>5. \A t, u \in Subgoal : OpenTable(t) /\ OpenTable(t)' /\ ~ sf'[t].complete =>
           \A g \in tree[t] : Returned(t, g, u) => Returned(t, g, u)'
    BY <1>1, <1>4, <1>T, <1>7, <1>8, <2>1, <2>4, ChangedStackReturns
  <2> QED  BY <1>1, <1>4, <1>7, <1>8, <2>5, GoalsKept
<1>10. ASSUME NEW t \in Subgoal, OpenTable(t)
       PROVE  /\ cps'[sf[t].cp].pc = cps[sf[t].cp].pc /\ cps'[sf[t].cp].next = cps[sf[t].cp].next
              /\ \A c \in Consumers(t) : cps'[c].ret = cps[c].ret
  <2>1. sf[t].cp \in 1..T /\ \A c \in Consumers(t) : c \in 1..T
    BY <1>T, <1>10, OnStack
  <2> QED  BY <1>5, <2>1
<1>11. ClausesAreRun'
  BY <1>1, <1>4, <1>7, <1>8, <1>10, ClausesKept
<1>12. AnswersAreCounted'
  BY <1>1, <1>4, <1>8, <1>10 DEF AnswersAreCounted
<1> QED  BY <1>9, <1>11, <1>12 DEF WorkInv

LEMMA AnswerReturnWork == OrderInv /\ WorkInv /\ AnswerReturn => WorkInv'
<1> SUFFICES ASSUME OrderInv, WorkInv, AnswerReturn  PROVE WorkInv'
  OBVIOUS
<1>1. OrderInv' /\ Typed /\ StackInv /\ ClausesAreRun /\ AnswersAreCounted /\ GoalsAreFollowed
  BY AnswerReturnOrder DEF OrderInv, WorkInv
<1>T. PICK T \in Nat : T = top_of_cpstack
  BY <1>1, Tops
<1>k. PICK k : k = breg
  OBVIOUS
<1>s. PICK s : s = cps[k].subgoal
  OBVIOUS
<1>l. PICK list : list = sf[s].answers
  OBVIOUS
<1>r. PICK r : r = cps[k].ret
  OBVIOUS
<1>2. /\ k \in 2..T /\ k \in 1..Len(cps) /\ cps[k] \in Entry /\ cps[k].pc = "answer_return"
      /\ s \in Subgoal /\ OpenTable(s) /\ k \in Consumers(s) /\ cps[k].ptcp \in Subgoal \cup {User}
      /\ r \in Nat /\ Len(list) \in Nat
  <2>1. cps[k].pc = "answer_return"
    BY <1>k DEF AnswerReturn, FailTo
  <2>2. /\ k \in 2..T /\ k \in 1..Len(cps) /\ cps[k] \in Entry
        /\ s \in Subgoal /\ OpenTable(s) /\ k \in Consumers(s)
    BY <1>k, <1>s, <1>T, <2>1, ResumedIs
  <2> QED  BY <1>1, <1>l, <1>r, <2>1, <2>2, EntryTyped, TableTyped
<1>3. /\ ~ running /\ UNCHANGED <<program, sf, bfreg>>
      /\ IF r < Len(list)
           THEN /\ cps' = [cps EXCEPT ![k].ret = @ + 1] /\ Return(list[r + 1], cps[k].cont, cps[k].ptcp)
                /\ UNCHANGED breg
           ELSE breg' = cps[k].prev /\ Fail1 /\ UNCHANGED cps
  BY <1>k, <1>s, <1>l, <1>r DEF AnswerReturn, FailTo
<1>5. ASSUME NEW i \in 1..T
      PROVE  /\ cps'[i].cont = cps[i].cont /\ cps'[i].ptcp = cps[i].ptcp /\ cps'[i].left = cps[i].left
             /\ cps'[i].pc = cps[i].pc /\ cps'[i].next = cps[i].next
             /\ cps'[i].ret = IF i = k /\ r < Len(list) THEN r + 1 ELSE cps[i].ret
  <2>1. CASE ~ (r < Len(list))
    BY <1>3, <2>1
  <2>2. CASE r < Len(list)
    <3>1. i \in DOMAIN cps /\ cps \in Seq(Entry)
      BY <1>1, <1>T, <1>5, Tops DEF Typed
    <3> DEFINE e == [cps[k] EXCEPT !.ret = r + 1]
    <3>2. e.cont = cps[k].cont /\ e.ptcp = cps[k].ptcp /\ e.ret = r + 1 /\ e.left = cps[k].left
          /\ e.next = cps[k].next /\ e.pc = cps[k].pc
      BY <1>2 DEF Entry
    <3>3. cps' = [cps EXCEPT ![k] = e]
      BY <1>2, <1>3, <1>r, <2>2
    <3> HIDE DEF e
    <3>4. cps'[i] = IF i = k THEN e ELSE cps[i]
      BY <3>1, <3>3
    <3> QED  BY <2>2, <3>2, <3>4
  <2> QED  BY <2>1, <2>2
<1>6. Fail1 \/ \E g, q : Run(g, q)
  BY <1>3 DEF Return
<1>7. \A t \in Subgoal : /\ tree[t] \subseteq tree'[t]
                         /\ \A g \in tree'[t] : g \in tree[t] \/ (running' /\ ptcpreg' = t /\ goal' = g)
  BY <1>1, <1>6, RunsAdded
<1>8. \A u \in Subgoal : OpenTable(u)' = OpenTable(u) /\ Consumers(u)' = Consumers(u) /\ KeepsAnswers(u)
  BY <1>3 DEF OpenTable, Consumers, KeepsAnswers
<1>9. GoalsAreFollowed'
  <2>1. ASSUME NEW i \in 1..T  PROVE Continues(i)
    <3>1. CASE i = k /\ r < Len(list)
      <4>1. cps[k].ptcp # User => After(cps[k].cont, list[r + 1]) \in tree'[cps[k].ptcp]
        BY <1>1, <1>2, <1>3, <3>1 DEF Return, Run, Typed
      <4>2. cps'[k].ret = cps[k].ret + 1
        BY <1>5, <1>r, <2>1, <3>1
      <4> QED  BY <1>2, <1>5, <1>l, <1>r, <1>s, <2>1, <3>1, <4>1, <4>2 DEF Continues, IsGenerator
    <3>2. CASE ~ (i = k /\ r < Len(list))
      BY <1>5, <2>1, <3>2 DEF Continues, IsGenerator
    <3> QED  BY <3>1, <3>2
  <2>3. \A q \in 1..T : ReturnsMore(q) => q \in 1..top_of_cpstack'
    <3>1. CASE ~ (r < Len(list))
      <4>0. k >= 2 /\ ~ IsGenerator(k) /\ \A q \in 1..T : ReturnsMore(q) => q # k
        BY <1>2 DEF ReturnsMore, IsGenerator
      <4>1. \A q \in 1..T : Waits(q) => q <= cps[k].prev \/ q = k
        BY <1>1, <1>k, <1>T, <4>0, Backs
      <4>2. breg' = cps[k].prev /\ breg' \in 1..T
        BY <1>1, <1>3, <1>k, <1>T, <3>1, <4>0, Backs
      <4>3. top_of_cpstack' \in Nat /\ cps[k].prev <= top_of_cpstack'
        BY <1>1, <1>3, <4>2, Tops DEF top_of_cpstack, Higher
      <4> QED  BY <4>0, <4>1, <4>2, <4>3 DEF Waits
    <3>2. CASE r < Len(list)
      BY <1>3, <1>T, <3>2 DEF top_of_cpstack
    <3> QED  BY <3>1, <3>2
  <2>4. ASSUME NEW q \in 1..T, ReturnsMore(q), NEW x \in cps[q].left  PROVE StaysLeft(q, x)
    BY <1>5, <2>3, <2>4 DEF StaysLeft, ReturnsMore
  <2>5. \A t, u \in Subgoal : OpenTable(t) /\ OpenTable(t)' /\ ~ sf'[t].complete =>
           \A g \in tree[t] : Returned(t, g, u) => Returned(t, g, u)'
    BY <1>1, <1>3, <1>T, <1>7, <1>8, <2>1, <2>4, ChangedStackReturns
  <2> QED  BY <1>1, <1>3, <1>7, <1>8, <2>5, GoalsKept
<1>10. ASSUME NEW t \in Subgoal, OpenTable(t)
       PROVE  /\ cps'[sf[t].cp].pc = cps[sf[t].cp].pc /\ cps'[sf[t].cp].next = cps[sf[t].cp].next
              /\ \A c \in Consumers(t) : cps'[c].ret = cps[c].ret \/ (c = k /\ t = s /\ r < Len(list) /\ cps'[c].ret = r + 1)
  <2>1. sf[t].cp \in 1..T /\ \A c \in Consumers(t) : c \in 1..T /\ cps[c].subgoal = t
    BY <1>T, <1>10, OnStack
  <2> QED  BY <1>5, <1>s, <2>1
<1>11. ClausesAreRun'
  BY <1>1, <1>3, <1>7, <1>8, <1>10, ClausesKept
<1>12. AnswersAreCounted'
  <2>1. r < Len(list) => r + 1 <= Len(list)
    BY <1>2
  <2> QED  BY <1>1, <1>3, <1>8, <1>10, <1>l, <2>1 DEF AnswersAreCounted
<1> QED  BY <1>9, <1>11, <1>12 DEF WorkInv

LEMMA ScheduleWork == OrderInv /\ WorkInv /\ (\E s \in Subgoal : ScheduleOwn(s) \/ ScheduleFollowers(s)) => WorkInv'
<1> SUFFICES ASSUME OrderInv, WorkInv, NEW s \in Subgoal, ScheduleOwn(s) \/ ScheduleFollowers(s)  PROVE WorkInv'
  OBVIOUS
<1>1. OrderInv' /\ Typed /\ StackInv /\ ClausesAreRun /\ AnswersAreCounted /\ GoalsAreFollowed
  BY ScheduleOrder DEF OrderInv, WorkInv
<1>T. PICK T \in Nat : T = top_of_cpstack
  BY <1>1, Tops
<1>2. /\ AtCheckComplete(s) /\ Fail1 /\ ~ running
      /\ cps' = Linked(s) \/ cps' = find_fixpoint(s)
      /\ UNCHANGED <<program, sf, bfreg>>
  BY DEF ScheduleOwn, ScheduleFollowers, AtCheckComplete, FailTo
<1>3. \A i \in 1..T :
        /\ cps'[i].cont = cps[i].cont /\ cps'[i].ptcp = cps[i].ptcp /\ cps'[i].ret = cps[i].ret
        /\ cps'[i].pc = cps[i].pc /\ cps'[i].next = cps[i].next /\ cps'[i].left = cps[i].left
  <2>1. \A i \in 1..T : i \in 1..Len(cps)
    BY <1>1, <1>T, Tops
  <2> QED  BY <1>1, <1>2, <2>1, LinkedTyped
<1>7. \A t \in Subgoal : /\ tree'[t] = tree[t]
                         /\ OpenTable(t)' = OpenTable(t) /\ Consumers(t)' = Consumers(t) /\ KeepsAnswers(t)
  BY <1>2 DEF OpenTable, Consumers, KeepsAnswers, Fail1
<1>9. GoalsAreFollowed'
  <2>1. \A i \in 1..T : Continues(i)
    BY <1>3 DEF Continues, IsGenerator
  <2>k. PICK k, T2 : k = breg /\ T2 = top_of_cpstack'
    OBVIOUS
  <2>2. k \in Nat /\ T2 \in Nat /\ k <= T2
    <3>1. OpenTable(s)' /\ sf'[s].cp = k
      BY <1>1, <1>2, <1>7, <2>k, GeneratorOnTop
    <3>2. sf'[s].cp \in 2..T2
      BY <1>1, <2>k, <3>1 DEF OrderInv, StackInv, Stacked, TablesAreOnStack
    <3>3. k \in Nat
      BY <1>1, <2>k, Tops
    <3>4. Typed'
      BY <1>1 DEF OrderInv
    <3>5. T2 \in Nat
      BY <3>4, <2>k DEF Typed, top_of_cpstack, Higher
    <3> QED  BY <3>1, <3>2, <3>3, <3>5
  <2>3. ASSUME NEW q \in 1..T, ReturnsMore(q), NEW a \in cps[q].left  PROVE StaysLeft(q, a)
    <3>1. q <= k
      BY <1>1, <1>T, <2>k, <2>3 DEF StackInv, Stacked, WaitsBelow, Waits
    <3>2. q \in 1..T2
      BY <1>T, <2>2, <2>3, <3>1
    <3>3. q \in 1..top_of_cpstack'
      BY <2>k, <3>2
    <3> QED  BY <1>3, <2>3, <3>3 DEF StaysLeft, ReturnsMore
  <2>4. \A t, u \in Subgoal : OpenTable(t) /\ OpenTable(t)' /\ ~ sf'[t].complete =>
           \A g \in tree[t] : Returned(t, g, u) => Returned(t, g, u)'
    BY <1>1, <1>2, <1>T, <1>7, <2>1, <2>3, ChangedStackReturns
  <2> QED  BY <1>1, <1>2, <1>7, <2>4, GoalsKept
<1>10. ASSUME NEW t \in Subgoal, OpenTable(t)
       PROVE  /\ cps'[sf[t].cp].pc = cps[sf[t].cp].pc /\ cps'[sf[t].cp].next = cps[sf[t].cp].next
              /\ \A c \in Consumers(t) : cps'[c].ret = cps[c].ret
  <2>1. sf[t].cp \in 1..T /\ \A c \in Consumers(t) : c \in 1..T
    BY <1>T, <1>10, OnStack
  <2> QED  BY <1>3, <2>1
<1>11. ClausesAreRun'
  BY <1>1, <1>2, <1>7, <1>10, ClausesKept
<1>12. AnswersAreCounted'
  BY <1>1, <1>2, <1>7, <1>10 DEF AnswersAreCounted
<1> QED  BY <1>9, <1>11, <1>12 DEF WorkInv

LEMMA makeConsumerWork == OrderInv /\ WorkInv /\ (\E s \in Subgoal : makeConsumerFromGenerator(s)) => WorkInv'
<1> SUFFICES ASSUME OrderInv, WorkInv, NEW s \in Subgoal, makeConsumerFromGenerator(s)  PROVE WorkInv'
  OBVIOUS
<1>1. OrderInv' /\ Typed /\ StackInv /\ ClausesAreRun /\ AnswersAreCounted /\ GoalsAreFollowed
  BY makeConsumerOrder DEF OrderInv, WorkInv
<1>T. PICK T \in Nat : T = top_of_cpstack
  BY <1>1, Tops
<1>k. PICK k : k = breg
  OBVIOUS
<1>2. /\ OpenTable(s) /\ sf[s].cp = k /\ IsGenerator(k) /\ k \in 2..T /\ top_of_cpstack' = T
      /\ \A i \in 1..Len(cps) : /\ i # k => cps'[i] = cps[i]
                                /\ cps'[i].cont = cps[i].cont /\ cps'[i].ptcp = cps[i].ptcp
                                /\ cps'[i].left = cps[i].left
      /\ cps'[k].pc = "answer_return" /\ cps'[k].ret = 0
      /\ \A t \in Subgoal : /\ t # s => sf'[t] = sf[t]
                            /\ OpenTable(t)' = OpenTable(t) /\ sf'[t].cp = sf[t].cp
                            /\ sf'[t].answers = sf[t].answers /\ sf'[t].complete = sf[t].complete
      /\ Consumers(s)' = {k} \cup Consumers(s)
      /\ ~ running' /\ UNCHANGED <<goal, ptcpreg, tree, bfreg>>
  BY <1>1, <1>T, <1>k, makeConsumerFacts
<1>3. program' = program /\ ~ running /\ cps[k].pc = "check_complete"
  BY <1>k DEF makeConsumerFromGenerator, AtCheckComplete, FailTo
<1>4. \A i \in 1..T : i \in 1..Len(cps)
  BY <1>1, <1>T, Tops
<1>7. ASSUME NEW t \in Subgoal
      PROVE  /\ tree'[t] = tree[t] /\ Consumers(t) \subseteq Consumers(t)' /\ KeepsAnswers(t)
             /\ \A c \in Consumers(t)' : c \in Consumers(t) \/ (t = s /\ c = k)
             /\ Len(sf[t].answers) \in Nat
  <2>1. tree'[t] = tree[t] /\ KeepsAnswers(t)
    BY <1>2 DEF KeepsAnswers
  <2>2. Len(sf[t].answers) \in Nat
    BY <1>1, TableTyped
  <2>3. CASE t = s
    BY <1>2, <2>1, <2>2, <2>3
  <2>4. CASE t # s
    <3>1. Consumers(t)' = Consumers(t)
      BY <1>2, <2>4 DEF Consumers
    <3> QED  BY <2>1, <2>2, <3>1
  <2> QED  BY <2>3, <2>4
<1>9. GoalsAreFollowed'
  <2>1. \A i \in 1..T : Continues(i)
    BY <1>2, <1>4 DEF Continues, IsGenerator
  <2>3. ASSUME NEW q \in 1..T, ReturnsMore(q), NEW a \in cps[q].left  PROVE StaysLeft(q, a)
    BY <1>2, <1>4, <2>3 DEF StaysLeft, ReturnsMore, IsGenerator
  <2>4. \A t, u \in Subgoal : OpenTable(t) /\ OpenTable(t)' /\ ~ sf'[t].complete =>
           \A g \in tree[t] : Returned(t, g, u) => Returned(t, g, u)'
    BY <1>1, <1>2, <1>T, <1>7, <2>1, <2>3, ChangedStackReturns
  <2> QED  BY <1>1, <1>2, <1>3, <1>7, <2>4, GoalsKept
<1>10. ASSUME NEW t \in Subgoal, OpenTable(t)
       PROVE  /\ cps'[sf[t].cp].pc = "tableretry" <=> cps[sf[t].cp].pc = "tableretry"
              /\ cps[sf[t].cp].pc = "tableretry" => cps'[sf[t].cp].next = cps[sf[t].cp].next
              /\ \A c \in Consumers(t) : cps'[c].ret = cps[c].ret /\ cps[c].ret \in Nat
  <2>1. sf[t].cp \in 1..Len(cps) /\ \A c \in Consumers(t) : c \in 1..Len(cps) /\ cps[c].pc = "answer_return" /\ cps[c].ret \in Nat
    BY <1>T, <1>4, <1>10, OnStack
  <2> QED  BY <1>2, <1>3, <2>1
<1>11. ClausesAreRun'
  BY <1>1, <1>2, <1>3, <1>7, <1>10, ClausesKept
<1>12. AnswersAreCounted'
  BY <1>1, <1>2, <1>7, <1>10, CountsKept DEF AnswersAreCounted
<1> QED  BY <1>9, <1>11, <1>12 DEF WorkInv

\* When nothing is left to schedule, the consumers of the leader and its followers have had
\* all answers.
LEMMA NothingLeft ==
  ASSUME OrderInv, NEW s \in Subgoal, AtCheckComplete(s), sched_answers(s) = {}, ScheduledFrames(s) = {},
         NEW u \in Subgoal, OpenTable(u), sf[s].frame <= sf[u].frame, NEW c \in Consumers(u)
  PROVE  Len(sf[u].answers) <= cps[c].ret
<1>1. Typed /\ StackInv
  BY DEF OrderInv
<1>2. OpenTable(s)
  BY <1>1, GeneratorOnTop
<1>3. sched_answers(u) = {}
  <2>1. CASE u = s
    BY <2>1
  <2>2. CASE u # s
    <3>1. sf[u].frame # sf[s].frame
      BY <1>1, <1>2, <2>2, AgeOrder
    <3>2. /\ sf[u].frame \in 1..openreg /\ sf[s].frame \in 1..openreg /\ frames[sf[u].frame].subgoal = u
          /\ openreg \in Nat
      BY <1>1, <1>2, OpenTyped
    <3>3. sf[u].frame \in Followers(s)
      BY <3>1, <3>2 DEF Followers
    <3> QED  BY <3>2, <3>3 DEF ScheduledFrames
  <2> QED  BY <2>1, <2>2
<1>4. PICK k \in DOMAIN sf[u].asf : sf[u].asf[k] = c
  BY DEF Consumers, Range
<1>5. ~ (cps[c].ret < Len(sf[u].answers))
  BY <1>3, <1>4 DEF sched_answers
<1>6. cps[c].ret \in Nat /\ Len(sf[u].answers) \in Nat
  BY <1>1, OnStack, TableTyped
<1> QED  BY <1>5, <1>6

\* The answers of s returned to the goal h of p: one at once, the others from a trie choice point.
ReturnsAll(s, h, p) ==
  \/ sf[s].answers = <<>> /\ Fail1
  \/ \E a \in Range(sf[s].answers) :
       /\ Return(a, h, p)
       /\ \A x \in Range(sf[s].answers) \ {a} :
            \E q \in 1..top_of_cpstack' :
              cps'[q].pc = "trie" /\ cps'[q].cont = h /\ cps'[q].ptcp = p /\ x \in cps'[q].left

\* A leader completed: what is below its choice point stays, and its answers are returned, one
\* at once, the others from a trie choice point.
LEMMA CompleteFacts ==
  ASSUME OrderInv, NEW s \in Subgoal, Complete(s), NEW k, k = breg, NEW b, b = cps[k].prev,
         NEW T, T = Higher(b, bfreg'), NEW p, p = cps[k].ptcp, NEW h, h = cps[k].cont
  PROVE  /\ k \in 2..top_of_cpstack /\ top_of_cpstack \in Nat /\ cps[k].pc = "check_complete" /\ ~ running
         /\ b \in 1..T /\ T \in Nat /\ T < k /\ bfreg' <= T /\ T <= top_of_cpstack' /\ top_of_cpstack' \in Nat
         /\ \A i \in 1..T : cps'[i] = cps[i]
         /\ p \in Subgoal \cup {User} /\ (p # User => h \in Goal /\ Calls(h) # Done)
         /\ ReturnsAll(s, h, p)
<1>1. Typed /\ StackInv /\ ReturnsToCall
  BY DEF OrderInv
<1>l. PICK left : left = Range(sf[s].answers)
  OBVIOUS
<1>2. k \in 2..top_of_cpstack /\ top_of_cpstack \in Nat /\ cps[k].pc = "check_complete" /\ ~ running /\ cps[k].subgoal = s
  <2>1. AtCheckComplete(s)
    BY <1>1, CompletedTables
  <2> QED  BY <1>1, <2>1, GeneratorOnTop, Tops DEF AtCheckComplete, FailTo
<1>3. k \in Nat
  BY <1>2
<1>4. p \in Subgoal \cup {User} /\ (p # User => h \in Goal /\ Calls(h) # Done)
  <2>1. IsForCall(k)
    BY <1>1, <1>2 DEF ReturnsToCall
  <2> QED  BY <1>1, <1>2, <2>1, CallOfTyped DEF IsForCall
<1>5. /\ b \in 1..k - 1 /\ T \in 1..k - 1 /\ b <= T /\ bfreg' <= T
      /\ \A i \in 1..T : cps'[i] = cps[i]
      /\ \/ /\ sf[s].answers = <<>> /\ Fail1 /\ breg' = b
         \/ \E a \in left :
              /\ Return(a, h, p)
              /\ \/ breg' = b /\ left = {a}
                 \/ /\ breg' = T + 1
                    /\ cps'[T + 1].pc = "trie" /\ cps'[T + 1].ptcp = p /\ cps'[T + 1].cont = h
                    /\ cps'[T + 1].left = left \ {a}
  BY <1>1, <1>l, CompletedEntries
<1>6. bfreg' \in 1..k - 1
  BY <1>1, Reclaimed
<1>7. b \in Nat /\ T \in Nat /\ b \in 1..T /\ T < k
  BY <1>3, <1>5
<1>8. bfreg' \in Nat /\ bfreg' <= T
  BY <1>3, <1>5, <1>6
<1>9. breg' = b => T = top_of_cpstack'
  BY DEF top_of_cpstack, Higher
<1>10. breg' = T + 1 => T + 1 = top_of_cpstack'
  <2>1. T + 1 > bfreg'
    BY <1>7, <1>8
  <2> QED  BY <2>1 DEF top_of_cpstack, Higher
<1>11. T <= top_of_cpstack' /\ top_of_cpstack' \in Nat
  BY <1>5, <1>7, <1>9, <1>10
<1>12. \/ sf[s].answers = <<>> /\ Fail1
       \/ \E a \in left :
            /\ Return(a, h, p)
            /\ \A x \in left \ {a} :
                 \E q \in 1..top_of_cpstack' :
                   cps'[q].pc = "trie" /\ cps'[q].cont = h /\ cps'[q].ptcp = p /\ x \in cps'[q].left
  <2>1. CASE sf[s].answers = <<>> /\ Fail1
    BY <2>1
  <2>2. ASSUME NEW a \in left, Return(a, h, p), left = {a}
        PROVE  \E y \in left :
            /\ Return(y, h, p)
            /\ \A x \in left \ {y} :
                 \E q \in 1..top_of_cpstack' :
                   cps'[q].pc = "trie" /\ cps'[q].cont = h /\ cps'[q].ptcp = p /\ x \in cps'[q].left
    BY <2>2
  <2>3. ASSUME NEW a \in left, Return(a, h, p), breg' = T + 1,
               cps'[T + 1].pc = "trie", cps'[T + 1].ptcp = p, cps'[T + 1].cont = h,
               cps'[T + 1].left = left \ {a}
        PROVE  \E y \in left :
            /\ Return(y, h, p)
            /\ \A x \in left \ {y} :
                 \E q \in 1..top_of_cpstack' :
                   cps'[q].pc = "trie" /\ cps'[q].cont = h /\ cps'[q].ptcp = p /\ x \in cps'[q].left
    <3>1. T + 1 \in 1..top_of_cpstack'
      BY <1>7, <1>10, <2>3
    <3> QED  BY <2>3, <3>1
  <2> QED  BY <1>5, <2>1, <2>2, <2>3
<1>13. ReturnsAll(s, h, p)
  BY <1>12, <1>l DEF ReturnsAll
<1> QED  BY <1>2, <1>4, <1>5, <1>7, <1>8, <1>11, <1>13

\* Completion leaves what has been returned to the tables older than the leader, and ends for
\* them what the tables it completes owed.
LEMMA CompleteReturns ==
  ASSUME OrderInv, AnswersAreCounted, NEW s \in Subgoal, Complete(s), OrderInv',
         NEW t \in Subgoal, OpenTable(t), OpenTable(t)', ~ sf'[t].complete,
         NEW u \in Subgoal, NEW g \in tree[t], Returned(t, g, u)
  PROVE  Returned(t, g, u)'
<1>1. Typed /\ StackInv
  BY DEF OrderInv
<1>k. PICK k : k = breg
  OBVIOUS
<1>b. PICK b : b = cps[k].prev
  OBVIOUS
<1>T. PICK T : T = Higher(b, bfreg')
  OBVIOUS
<1>p. PICK p : p = cps[k].ptcp
  OBVIOUS
<1>h. PICK h : h = cps[k].cont
  OBVIOUS
<1>top. PICK top, top2 : top = top_of_cpstack /\ top2 = top_of_cpstack'
  OBVIOUS
<1>2. /\ k \in 2..top /\ top \in Nat /\ cps[k].pc = "check_complete" /\ ~ running
      /\ b \in 1..T /\ T \in Nat /\ T < k /\ bfreg' <= T /\ T <= top2 /\ top2 \in Nat
      /\ \A i \in 1..T : cps'[i] = cps[i]
      /\ p \in Subgoal \cup {User} /\ (p # User => h \in Goal /\ Calls(h) # Done)
  BY <1>k, <1>b, <1>T, <1>p, <1>h, <1>top, CompleteFacts
<1>3. \/ sf[s].answers = <<>> /\ Fail1
      \/ \E a \in Range(sf[s].answers) :
           /\ Return(a, h, p)
           /\ \A x \in Range(sf[s].answers) \ {a} :
                \E q \in 1..top2 :
                  cps'[q].pc = "trie" /\ cps'[q].cont = h /\ cps'[q].ptcp = p /\ x \in cps'[q].left
  <2>1. ReturnsAll(s, h, p)
    BY <1>k, <1>b, <1>T, <1>p, <1>h, CompleteFacts
  <2> QED  BY <1>top, <2>1 DEF ReturnsAll
<1>4. /\ AtCheckComplete(s) /\ OpenTable(s) /\ sf[s].cp = k
      /\ \A v \in Subgoal :
           /\ OpenTable(v)' <=> OpenTable(v) /\ sf[v].frame < sf[s].frame
           /\ OpenTable(v)' => sf'[v] = sf[v]
           /\ sf'[v].answers = sf[v].answers
           /\ IF OpenTable(v) /\ sf[s].frame <= sf[v].frame
                THEN sf'[v].complete /\ sf'[v].reclaimed
                ELSE sf'[v] = sf[v]
  BY <1>1, <1>k, CompletedTables
<1>5. Fail1 \/ (\E x, q : Run(x, q))
  BY <1>3 DEF Return
<1>6. \A v \in Subgoal : tree[v] \subseteq tree'[v]
  BY <1>1, <1>5, RunsAdded
<1>7. ASSUME NEW q \in 1..top, cps[q].pc = "trie", NEW a \in cps[q].left  PROVE StaysLeft(q, a)
  <2>0. q \in 1..Len(cps) /\ cps[q].ptcp \in Subgoal \cup {User}
    <3>1. q \in 1..Len(cps)
      BY <1>1, <1>top, Tops
    <3> QED  BY <1>1, <3>1, EntryTyped
  <2>1. CASE ReturnsMore(q)
    <3>1. q <= k /\ q # k
      BY <1>1, <1>2, <1>k, <1>top, <1>7, <2>1 DEF StackInv, Stacked, WaitsBelow, Waits
    <3>2. q < k /\ k \in 1..top
      BY <1>2, <3>1
    <3>3. q <= b
      BY <1>1, <1>b, <1>top, <2>1, <3>2 DEF StackInv, Stacked, NoneIsSkipped, Waits
    <3>4. q \in 1..T /\ q \in 1..top2
      BY <1>2, <3>3
    <3>5. cps'[q] = cps[q]
      BY <1>2, <3>4
    <3> QED  BY <1>7, <1>top, <3>4, <3>5 DEF StaysLeft
  <2>2. CASE ~ ReturnsMore(q)
    <3>1. cps[q].ptcp \in Subgoal /\ (sf[cps[q].ptcp].complete \/ After(cps[q].cont, a) \in tree[cps[q].ptcp])
      BY <1>7, <2>0, <2>2 DEF ReturnsMore
    <3>2. \A v \in Subgoal : sf[v].complete => sf'[v].complete
      BY <1>4
    <3> QED  BY <1>6, <3>1, <3>2 DEF StaysLeft
  <2> QED  BY <2>1, <2>2
<1>8. KeepsAnswers(u)
  BY <1>4 DEF KeepsAnswers
<1>9. CASE ~ OpenTable(u)
  BY <1>6, <1>7, <1>8, <1>9, <1>top, ReturnedStays
<1>10. CASE OpenTable(u)'
  <2>1. OpenTable(u) /\ sf'[u] = sf[u]
    BY <1>4, <1>10
  <2>2. TablesAreOnStack(T)'
    BY <1>1, <1>k, <1>b, <1>T, CompletedStacked DEF Stacked
  <2>3. sf[u].cp \in 1..T /\ \A c \in Consumers(u) : c \in 1..T
    <3>1. sf'[u].cp \in 2..T /\ \A c \in Consumers(u)' : c <= bfreg'
      BY <1>10, <2>2 DEF TablesAreOnStack
    <3>2. Consumers(u)' = Consumers(u)
      BY <2>1 DEF Consumers
    <3>3. \A c \in Consumers(u) : c \in Nat /\ c >= 2
      BY <1>top, <1>2, <2>1, OnStack
    <3>4. bfreg' \in Nat
      BY DEF OrderInv, Typed
    <3>5. \A c \in Consumers(u) : c \in 1..T
      BY <1>2, <3>1, <3>2, <3>3, <3>4
    <3> QED  BY <2>1, <3>1, <3>5
  <2>4. \A i \in 1..T : Continues(i)
    BY <1>2 DEF Continues, IsGenerator
  <2>5. StaysOpen(u)
    <3>1. Consumers(u)' = Consumers(u)
      BY <2>1 DEF Consumers
    <3> QED  BY <1>10, <2>1, <2>3, <2>4, <3>1 DEF StaysOpen
  <2> QED  BY <1>6, <1>7, <1>8, <1>top, <2>5, ReturnedStays
<1>11. CASE OpenTable(u) /\ ~ OpenTable(u)'
  <2>1. sf[s].frame <= sf[u].frame /\ sf'[u].complete /\ sf'[u].answers = sf[u].answers
    <3>1. sf[s].frame \in Nat /\ sf[u].frame \in Nat
      BY <1>1, TableTyped
    <3> QED  BY <1>4, <1>11, <3>1
  <2>2. SUFFICES ASSUME NEW a \in Range(sf[u].answers)
                 PROVE  \/ After(g, a) \in tree'[t]
                        \/ \E q \in 1..top2 :
                             cps'[q].pc = "trie" /\ cps'[q].cont = g /\ cps'[q].ptcp = t /\ a \in cps'[q].left
    BY <1>top, <2>1 DEF Returned
  <2>3. CASE IsGenerator(sf[u].cp) /\ cps[sf[u].cp].cont = g /\ cps[sf[u].cp].ptcp = t
    <3>1. u = s
      <4>1. SUFFICES ASSUME sf[s].frame < sf[u].frame  PROVE FALSE
        <5>1. sf[s].frame \in Nat /\ sf[u].frame \in Nat
          BY <1>1, TableTyped
        <5> QED  BY <1>1, <1>4, <1>11, <2>1, <5>1, AgeOrder
      <4>2. cps[sf[u].cp].pc = "answer_return"
        BY <1>1, <1>4, <1>11, <4>1, GeneratorOnTop
      <4> QED  BY <2>3, <4>2 DEF IsGenerator
    <3>2. h = g /\ p = t
      BY <1>4, <1>h, <1>p, <2>3, <3>1
    <3>3. sf[s].answers # <<>>
      BY <2>2, <3>1 DEF Range
    <3>4. PICK y \in Range(sf[s].answers) :
            /\ Return(y, h, p)
            /\ \A x \in Range(sf[s].answers) \ {y} :
                 \E q \in 1..top2 :
                   cps'[q].pc = "trie" /\ cps'[q].cont = h /\ cps'[q].ptcp = p /\ x \in cps'[q].left
      BY <1>3, <3>3
    <3>5. CASE a = y
      <4>1. y \in Answer /\ t # User
        <5>1. sf[s].answers \in Seq(Answer)
          BY <1>1, TableTyped
        <5> QED  BY <3>4, <5>1, RangeOfSeq, EngineAssumption
      <4>2. After(h, y) \in tree'[p]
        BY <1>1, <1>2, <3>2, <3>4, <4>1, ReturnsTyped
      <4> QED  BY <3>2, <3>5, <4>2
    <3>6. CASE a # y
      BY <2>2, <3>1, <3>2, <3>4, <3>6
    <3> QED  BY <3>5, <3>6
  <2>4. ASSUME NEW c \in Consumers(u),
               \A j \in DOMAIN sf[u].answers : j <= cps[c].ret => After(g, sf[u].answers[j]) \in tree[t]
        PROVE  After(g, a) \in tree'[t]
    <3>1. sched_answers(s) = {} /\ ScheduledFrames(s) = {}
      BY DEF Complete
    <3>2. Len(sf[u].answers) <= cps[c].ret
      BY <1>4, <1>11, <2>1, <3>1, NothingLeft
    <3>3. PICK j \in DOMAIN sf[u].answers : sf[u].answers[j] = a
      BY <2>2 DEF Range
    <3>4. j <= cps[c].ret
      <4>1. cps[c].ret \in Nat
        BY <1>11, OnStack
      <4>2. j \in 1..Len(sf[u].answers) /\ Len(sf[u].answers) \in Nat
        <5>1. sf[u].answers \in Seq(Answer)
          BY <1>1, TableTyped
        <5> QED  BY <5>1, <3>3
      <4> QED  BY <3>2, <4>1, <4>2
    <3> QED  BY <1>6, <2>4, <3>3, <3>4
  <2>5. ASSUME \/ After(g, a) \in tree[t]
               \/ \E q \in 1..top_of_cpstack :
                    cps[q].pc = "trie" /\ cps[q].cont = g /\ cps[q].ptcp = t /\ a \in cps[q].left
        PROVE  \/ After(g, a) \in tree'[t]
               \/ \E q \in 1..top2 :
                    cps'[q].pc = "trie" /\ cps'[q].cont = g /\ cps'[q].ptcp = t /\ a \in cps'[q].left
    <3>1. CASE After(g, a) \in tree[t]
      BY <1>6, <3>1
    <3>2. ASSUME NEW q \in 1..top, cps[q].pc = "trie", cps[q].cont = g, cps[q].ptcp = t, a \in cps[q].left
          PROVE  \/ After(g, a) \in tree'[t]
                 \/ \E r \in 1..top2 :
                      cps'[r].pc = "trie" /\ cps'[r].cont = g /\ cps'[r].ptcp = t /\ a \in cps'[r].left
      <4>1. StaysLeft(q, a)
        BY <1>7, <3>2
      <4>2. t # User
        BY EngineAssumption
      <4> QED  BY <1>top, <3>2, <4>1, <4>2 DEF StaysLeft
    <3> QED  BY <1>top, <2>5, <3>1, <3>2
  <2> QED  BY <2>2, <2>3, <2>4, <2>5 DEF Returned
<1> QED  BY <1>9, <1>10, <1>11

LEMMA CompleteWork == OrderInv /\ WorkInv /\ (\E s \in Subgoal : Complete(s)) => WorkInv'
<1> SUFFICES ASSUME OrderInv, WorkInv, NEW s \in Subgoal, Complete(s)  PROVE WorkInv'
  OBVIOUS
<1>1. OrderInv' /\ Typed /\ StackInv /\ ClausesAreRun /\ AnswersAreCounted /\ GoalsAreFollowed
  BY CompleteOrder DEF OrderInv, WorkInv
<1>k. PICK k : k = breg
  OBVIOUS
<1>b. PICK b : b = cps[k].prev
  OBVIOUS
<1>T. PICK T : T = Higher(b, bfreg')
  OBVIOUS
<1>2. /\ ~ running /\ T \in Nat /\ bfreg' <= T /\ \A i \in 1..T : cps'[i] = cps[i]
      /\ \E p, h : ReturnsAll(s, h, p)
  BY <1>k, <1>b, <1>T, CompleteFacts
<1>3. \A t \in Subgoal :
        /\ OpenTable(t)' => OpenTable(t) /\ sf'[t] = sf[t]
        /\ sf'[t].answers = sf[t].answers
        /\ sf[t].complete => sf'[t].complete
  <2>1. \A t \in Subgoal :
          /\ OpenTable(t)' => OpenTable(t) /\ sf'[t] = sf[t]
          /\ sf'[t].answers = sf[t].answers
          /\ IF OpenTable(t) /\ sf[s].frame <= sf[t].frame
               THEN sf'[t].complete /\ sf'[t].reclaimed
               ELSE sf'[t] = sf[t]
    BY <1>1, CompletedTables
  <2> QED  BY <2>1
<1>4. \A t \in Subgoal : /\ tree[t] \subseteq tree'[t]
                         /\ \A g \in tree'[t] : g \in tree[t] \/ (running' /\ ptcpreg' = t /\ goal' = g)
  <2>1. Fail1 \/ (\E x, q : Run(x, q))
    BY <1>2 DEF ReturnsAll, Return
  <2> QED  BY <1>1, <2>1, RunsAdded
<1>5. program' = program
  BY DEF Complete
<1>6. ASSUME NEW t \in Subgoal, OpenTable(t)'
      PROVE  /\ OpenTable(t) /\ sf'[t] = sf[t] /\ Consumers(t)' = Consumers(t)
             /\ cps'[sf[t].cp] = cps[sf[t].cp]
             /\ \A c \in Consumers(t) : cps'[c] = cps[c] /\ cps[c].ret \in Nat
  <2>1. OpenTable(t) /\ sf'[t] = sf[t] /\ Consumers(t)' = Consumers(t)
    BY <1>3, <1>6 DEF Consumers
  <2>2. TablesAreOnStack(T)'
    BY <1>1, <1>k, <1>b, <1>T, CompletedStacked DEF Stacked
  <2>3. sf'[t].cp \in 2..T /\ \A c \in Consumers(t)' : c <= bfreg'
    BY <1>6, <2>2 DEF TablesAreOnStack
  <2>4. \A c \in Consumers(t) : c \in Nat /\ c >= 2 /\ cps[c].ret \in Nat
    <3>1. top_of_cpstack \in Nat
      BY <1>1, Tops
    <3> QED  BY <2>1, <3>1, OnStack
  <2>5. bfreg' \in Nat
    BY <1>1 DEF OrderInv, Typed
  <2>6. \A c \in Consumers(t) : c \in 1..T
    BY <1>2, <2>1, <2>3, <2>4, <2>5
  <2>7. sf[t].cp \in 1..T
    BY <2>1, <2>3
  <2> QED  BY <1>2, <2>1, <2>4, <2>6, <2>7
<1>7. ClausesAreRun'
  <2>1. \A t \in Subgoal : OpenTable(t)' /\ ~ sf'[t].complete =>
          /\ OpenTable(t) /\ ~ sf[t].complete /\ sf'[t].cp = sf[t].cp
          /\ cps'[sf[t].cp].pc = cps[sf[t].cp].pc /\ cps'[sf[t].cp].next = cps[sf[t].cp].next
    BY <1>6
  <2> QED  BY <1>1, <1>4, <1>5, <2>1, ClausesKept
<1>8. AnswersAreCounted'
  <2>1. \A t \in Subgoal : Len(sf[t].answers) \in Nat
    BY <1>1, TableTyped
  <2> QED  BY <1>1, <1>6, <2>1, CountsKept
<1>9. GoalsAreFollowed'
  <2>1. \A t, u \in Subgoal : OpenTable(t) /\ OpenTable(t)' /\ ~ sf'[t].complete =>
           \A g \in tree[t] : Returned(t, g, u) => Returned(t, g, u)'
    BY <1>1, CompleteReturns
  <2> QED  BY <1>1, <1>2, <1>3, <1>4, <2>1, GoalsKept
<1> QED  BY <1>7, <1>8, <1>9 DEF WorkInv

--------------------------------------------------------------------------------
(* What is done, always. *)

LEMMA InitWork == Init => WorkInv
<1> SUFFICES ASSUME Init  PROVE WorkInv
  OBVIOUS
<1>1. \A t \in Subgoal : ~ OpenTable(t)
  BY DEF Init, NoTable, OpenTable
<1> QED  BY <1>1 DEF WorkInv, ClausesAreRun, AnswersAreCounted, GoalsAreFollowed

LEMMA WorkStep == OrderInv /\ WorkInv /\ [Next]_vars => WorkInv'
<1> SUFFICES ASSUME OrderInv, WorkInv, [Next]_vars  PROVE WorkInv'
  OBVIOUS
<1>1. CASE \E s \in Subgoal : NewProducer(s)
  BY <1>1, NewProducerWork
<1>2. CASE \E s \in Subgoal : CallCompleted(s)
  BY <1>2, CallCompletedWork
<1>3. CASE \E s \in Subgoal : Consume(s)
  BY <1>3, ConsumeWork
<1>4. CASE \E s \in Subgoal : NewAnswer(s)
  BY <1>4, NewAnswerWork
<1>5. CASE \E s \in Subgoal : ScheduleOwn(s) \/ ScheduleFollowers(s)
  BY <1>5, ScheduleWork
<1>6. CASE \E s \in Subgoal : makeConsumerFromGenerator(s)
  BY <1>6, makeConsumerWork
<1>7. CASE \E s \in Subgoal : Complete(s)
  BY <1>7, CompleteWork
<1>8. CASE UserAnswer \/ NextQuery
  BY <1>8, IdleWork
<1>9. CASE NextClause
  BY <1>9, NextClauseWork
<1>10. CASE NextOfTrie
  BY <1>10, NextOfTrieWork
<1>11. CASE AnswerReturn
  BY <1>11, AnswerReturnWork
<1>12. CASE UNCHANGED vars
  BY <1>12 DEF vars, WorkInv, ClausesAreRun, AnswersAreCounted, GoalsAreFollowed, OpenTable, Consumers,
               Followed, Returned, IsGenerator, top_of_cpstack, Higher
<1> QED  BY <1>1, <1>2, <1>3, <1>4, <1>5, <1>6, <1>7, <1>8, <1>9, <1>10, <1>11, <1>12 DEF Next

\* While a table is not complete its generator has run all its clauses before it comes to its
\* completion, and each of its goals but the one that runs has given its answer, or has been
\* returned those of the table it calls, or waits on the stacks for the rest.
THEOREM GoalsAreServed == Spec => []WorkInv
<1>1. Init => OrderInv /\ WorkInv
  BY InitOrder, InitWork
<1>2. OrderInv /\ WorkInv /\ [Next]_vars => (OrderInv /\ WorkInv)'
  BY OrderStep, WorkStep
<1> QED  BY <1>1, <1>2, PTL DEF Spec

--------------------------------------------------------------------------------
(* The engine evaluates the program as a forest of tables. *)

\* When a leader completes, all clauses of the tables it completes have been run, all their
\* goals have given their answers, and those that made a call have had all answers of a table
\* that is complete by then.
LEMMA LeaderIsDone ==
  ASSUME OrderInv, WorkInv, NEW s \in Subgoal, Complete(s),
         NEW t \in Subgoal, OpenTable(t), sf[s].frame <= sf[t].frame, ~ sf[t].complete
  PROVE  /\ \A n \in DOMAIN Clauses(program, t) : Clauses(program, t)[n] \in tree[t]
         /\ \A g \in tree[t] :
              IF Calls(g) = Done THEN Gives(g) \in Range(sf[t].answers)
              ELSE /\ sf'[Calls(g)].complete
                   /\ \A a \in Range(sf[Calls(g)].answers) : After(g, a) \in tree[t]
<1>1. Typed /\ StackInv /\ ClausesAreRun /\ AnswersAreCounted /\ GoalsAreFollowed
  BY DEF OrderInv, WorkInv
<1>k. PICK k \in Nat : k = breg
  BY <1>1, Tops
<1>2. /\ AtCheckComplete(s) /\ OpenTable(s) /\ sf[s].cp = k /\ Leads(s)
      /\ \A v \in Subgoal : IF OpenTable(v) /\ sf[s].frame <= sf[v].frame THEN sf'[v].complete ELSE sf'[v] = sf[v]
  BY <1>1, <1>k, CompletedTables
<1>3. sched_answers(s) = {} /\ ScheduledFrames(s) = {} /\ ~ running
  BY <1>2 DEF Complete, AtCheckComplete, FailTo
<1>4. sf[s].frame \in Nat /\ sf[t].frame \in Nat /\ sf[t].cp \in Nat
  BY <1>1, TableTyped
<1>5. t = s \/ sf[s].frame < sf[t].frame
  BY <1>1, <1>2, <1>4, AgeOrder
<1>6. k <= sf[t].cp
  <2>1. CASE t = s
    BY <1>2, <2>1
  <2>2. CASE sf[s].frame < sf[t].frame
    BY <1>1, <1>2, <1>4, <2>2, AgeOrder
  <2> QED  BY <1>5, <2>1, <2>2
<1>7. cps[sf[t].cp].pc # "tableretry"
  <2>1. CASE t = s
    BY <1>2, <1>k, <2>1 DEF AtCheckComplete, FailTo
  <2>2. CASE sf[s].frame < sf[t].frame
    BY <1>1, <1>2, <2>2, GeneratorOnTop
  <2> QED  BY <1>5, <2>1, <2>2
<1>8. \A n \in DOMAIN Clauses(program, t) : Clauses(program, t)[n] \in tree[t]
  BY <1>1, <1>7 DEF ClausesAreRun
<1>top. PICK top : top = top_of_cpstack
  OBVIOUS
<1>9. /\ \A q \in 1..top : Waits(q) => q <= k
      /\ \A q \in 1..top : q \in Nat /\ (cps[q].ptcp = t => sf[t].cp < q)
  <2>1. WaitsBelow(k, top) /\ EntriesAreAlive(top)
    BY <1>1, <1>k, <1>top DEF StackInv, Stacked
  <2>2. t # User
    BY EngineAssumption
  <2> QED  BY <2>1, <2>2 DEF WaitsBelow, EntriesAreAlive
<1>10. ASSUME NEW q \in 1..top, Waits(q), cps[q].ptcp = t  PROVE FALSE
  <2>1. q <= k /\ sf[t].cp < q /\ q \in Nat
    BY <1>9, <1>10
  <2> QED  BY <1>4, <1>6, <2>1
<1>11. ASSUME NEW g \in tree[t], NEW u \in Subgoal, Returned(t, g, u)
       PROVE  sf'[u].complete /\ \A a \in Range(sf[u].answers) : After(g, a) \in tree[t]
  <2>1. CASE OpenTable(u) /\ IsGenerator(sf[u].cp) /\ cps[sf[u].cp].cont = g /\ cps[sf[u].cp].ptcp = t
    <3>1. sf[u].cp \in 1..top
      BY <1>top, <2>1, OnStack
    <3> QED  BY <1>10, <2>1, <3>1 DEF Waits
  <2>2. ASSUME OpenTable(u), NEW c \in Consumers(u), cps[c].cont = g, cps[c].ptcp = t,
               \A j \in DOMAIN sf[u].answers : j <= cps[c].ret => After(g, sf[u].answers[j]) \in tree[t]
        PROVE  sf'[u].complete /\ \A a \in Range(sf[u].answers) : After(g, a) \in tree[t]
    <3>1. sf[s].frame <= sf[u].frame
      <4>1. Dependent(u, t)
        BY <1>1, <2>2, EngineAssumption DEF StackInv, ConsumersDepend
      <4>2. sf[u].frame \in Nat
        BY <1>1, TableTyped
      <4> QED  BY <1>2, <1>4, <4>1, <4>2 DEF Dependent
    <3>2. Len(sf[u].answers) <= cps[c].ret
      BY <1>2, <1>3, <2>2, <3>1, NothingLeft
    <3>3. cps[c].ret \in Nat /\ sf[u].answers \in Seq(Answer)
      BY <1>1, <2>2, OnStack, TableTyped
    <3>4. \A j \in DOMAIN sf[u].answers : j <= cps[c].ret
      BY <3>2, <3>3
    <3>5. sf'[u].complete
      BY <1>2, <2>2, <3>1
    <3> QED  BY <2>2, <3>4, <3>5 DEF Range
  <2>3. ASSUME sf[u].complete,
               \A a \in Range(sf[u].answers) :
                 \/ After(g, a) \in tree[t]
                 \/ \E q \in 1..top : cps[q].pc = "trie" /\ cps[q].cont = g /\ cps[q].ptcp = t /\ a \in cps[q].left
        PROVE  sf'[u].complete /\ \A a \in Range(sf[u].answers) : After(g, a) \in tree[t]
    <3>1. sf'[u].complete
      BY <1>2, <2>3
    <3>2. ASSUME NEW a \in Range(sf[u].answers), After(g, a) \notin tree[t]  PROVE FALSE
      <4>1. PICK q \in 1..top : cps[q].pc = "trie" /\ cps[q].cont = g /\ cps[q].ptcp = t /\ a \in cps[q].left
        BY <2>3, <3>2
      <4>2. ReturnsMore(q)
        BY <3>2, <4>1 DEF ReturnsMore
      <4> QED  BY <1>10, <4>1, <4>2 DEF Waits
    <3> QED  BY <3>1, <3>2
  <2> QED  BY <1>11, <1>top, <2>1, <2>2, <2>3 DEF Returned
<1>12. \A g \in tree[t] : Followed(t, g)
  BY <1>1, <1>3 DEF GoalsAreFollowed
<1>13. \A g \in tree[t] : Calls(g) \in Subgoal \cup {Done}
  <2>1. tree[t] \subseteq Goal
    BY <1>1 DEF Typed
  <2> QED  BY <2>1, ProgramAssumption
<1>14. ASSUME NEW g \in tree[t]
       PROVE  IF Calls(g) = Done THEN Gives(g) \in Range(sf[t].answers)
              ELSE /\ sf'[Calls(g)].complete
                   /\ \A a \in Range(sf[Calls(g)].answers) : After(g, a) \in tree[t]
  BY <1>11, <1>12, <1>13 DEF Followed
<1> QED  BY <1>8, <1>14

\* The program goes on, and no table is called or completed or gets an answer.
TablesStay ==
  /\ program' = program
  /\ \A t \in Subgoal : /\ sf'[t].called = sf[t].called /\ sf'[t].complete = sf[t].complete
                        /\ sf'[t].answers = sf[t].answers

\* The goal g comes, in a tree, from a clause, or an answer of the table it calls.
Resolves(g, p) ==
  \/ g \in Range(Clauses(program, p))
  \/ \E h \in tree[p] : Calls(h) # Done /\ \E a \in Range(sf[Calls(h)].answers) : g = After(h, a)

LEMMA RunTree ==
  ASSUME Typed, NEW g, NEW p \in Subgoal \cup {User}, Run(g, p)
  PROVE  IF p = User THEN tree' = tree ELSE tree' = [tree EXCEPT ![p] = @ \cup {g}]
<1>1. tree \in [Subgoal -> SUBSET Goal] /\ User \notin Subgoal
  BY EngineAssumption DEF Typed
<1>2. tree' = [t \in Subgoal |-> IF t = p THEN tree[t] \cup {g} ELSE tree[t]]
  BY DEF Run
<1> QED  BY <1>1, <1>2

LEMMA ResolventsAre ==
  ASSUME Typed, NEW p \in Subgoal, NEW g, Resolves(g, p)
  PROVE  g \in Forest!Resolvents(p)
<1>1. CASE g \in Range(Clauses(program, p))
  BY <1>1 DEF Forest!Resolvents, Range, Forest!Range
<1>2. ASSUME NEW h \in tree[p], Calls(h) # Done, NEW a \in Range(sf[Calls(h)].answers), g = After(h, a)
      PROVE  g \in Forest!Resolvents(p)
  <2>1. Calls(h) \in Subgoal
    BY <1>2, ProgramAssumption DEF Typed
  <2>2. a \in [t \in Subgoal |-> Range(sf[t].answers)][Calls(h)]
    BY <1>2, <2>1
  <2>3. h \in {x \in tree[p] : Calls(x) # Done}
    BY <1>2
  <2>4. g \in {After(h, b) : b \in [t \in Subgoal |-> Range(sf[t].answers)][Calls(h)]}
    BY <1>2, <2>2
  <2>5. g \in UNION {{After(y, b) : b \in [t \in Subgoal |-> Range(sf[t].answers)][Calls(y)]} : y \in {x \in tree[p] : Calls(x) # Done}}
    BY <2>3, <2>4
  <2> QED  BY <2>5 DEF Forest!Resolvents, Range
<1> QED  BY <1>1, <1>2 DEF Resolves

LEMMA TablesSame ==
  ASSUME TablesStay
  PROVE  /\ {t \in Subgoal : sf[t].called}' = {t \in Subgoal : sf[t].called}
         /\ {t \in Subgoal : sf[t].complete}' = {t \in Subgoal : sf[t].complete}
         /\ [t \in Subgoal |-> Range(sf[t].answers)]' = [t \in Subgoal |-> Range(sf[t].answers)]
BY DEF TablesStay

\* Steps that run a goal where the tables let it come from, or run nothing.
LEMMA ForestResolves ==
  ASSUME Typed, TablesStay,
         Fail1 \/ (\E g, p : Run(g, p) /\ (p = User \/ (p \in Subgoal /\ sf[p].called /\ Resolves(g, p))))
  PROVE  [Forest!ForestNext]_(Forest!forestVars)
<1>1. program' = program
  BY DEF TablesStay
<1>2. CASE tree' = tree
  BY <1>1, <1>2, TablesSame DEF Forest!forestVars
<1>3. ASSUME NEW p \in Subgoal, NEW g, sf[p].called, Resolves(g, p), tree' = [tree EXCEPT ![p] = @ \cup {g}]
      PROVE  Forest!Resolve(p)
  <2>1. Forest!Grow(p)
    BY <1>3, ResolventsAre DEF Forest!Grow
  <2> QED  BY <1>1, <1>3, <2>1, TablesSame DEF Forest!Resolve
<1>4. ASSUME NEW g, NEW p, Run(g, p), p = User \/ (p \in Subgoal /\ sf[p].called /\ Resolves(g, p))
      PROVE  [Forest!ForestNext]_(Forest!forestVars)
  <2>1. CASE p = User
    BY <1>2, <1>4, <2>1, RunTree
  <2>2. CASE p # User
    <3>1. Forest!Resolve(p)
      BY <1>3, <1>4, <2>2, RunTree
    <3> QED  BY <1>4, <2>2, <3>1 DEF Forest!ForestNext
  <2> QED  BY <2>1, <2>2
<1> QED  BY <1>2, <1>4 DEF Fail1

\* An answer of the table it calls, returned to a goal of a tree, resolves it.
LEMMA ReturnForest ==
  ASSUME Typed, TablesStay, NEW p \in Subgoal \cup {User}, NEW h, NEW s \in Subgoal, NEW a \in Range(sf[s].answers),
         p # User => sf[p].called /\ h \in tree[p] /\ Calls(h) = s, Return(a, h, p)
  PROVE  [Forest!ForestNext]_(Forest!forestVars)
<1>1. CASE p = User
  <2>1. Run(Got(a), User)
    BY <1>1 DEF Return
  <2> QED  BY <2>1, ForestResolves
<1>2. CASE p # User
  <2>1. Run(After(h, a), p)
    BY <1>2 DEF Return
  <2>2. Calls(h) # Done
    BY <1>2, ProgramAssumption
  <2>3. Resolves(After(h, a), p)
    BY <1>2, <2>2 DEF Resolves
  <2> QED  BY <1>2, <2>1, <2>3, ForestResolves
<1> QED  BY <1>1, <1>2

LEMMA NewProducerForest ==
  ASSUME OrderInv, NEW s \in Subgoal, NewProducer(s)
  PROVE  [Forest!ForestNext]_(Forest!forestVars)
<1>1. Typed /\ StackInv /\ TablesAreSound /\ ReturnsToCall
  BY DEF OrderInv
<1>2. Calling(s) /\ ~ sf[s].called /\ program' = program /\ Run(Clauses(program, s)[1], s)
      /\ sf' = [sf EXCEPT ![s] = [NoTable EXCEPT !.called = TRUE, !.cp = top_of_cpstack + 1, !.frame = openreg']]
  BY DEF NewProducer
<1>3. sf[s] = NoTable /\ tree[s] = {}
  BY <1>1, <1>2 DEF TablesAreSound
<1>4. sf \in [Subgoal -> SubgoalFrame] /\ tree \in [Subgoal -> SUBSET Goal] /\ program \in Program
  BY <1>1 DEF Typed
<1>5. \A t \in Subgoal : /\ sf'[t].called <=> sf[t].called \/ t = s
                         /\ sf'[t].complete = sf[t].complete /\ sf'[t].answers = sf[t].answers
  <2>1. \A t \in Subgoal : t # s => sf'[t] = sf[t]
    BY <1>2, <1>4
  <2>2. sf'[s] = [NoTable EXCEPT !.called = TRUE, !.cp = top_of_cpstack + 1, !.frame = openreg']
    BY <1>2, <1>4
  <2>3. sf'[s].called /\ sf'[s].complete = sf[s].complete /\ sf'[s].answers = sf[s].answers
    BY <1>3, <2>2 DEF NoTable
  <2> QED  BY <2>1, <2>3
<1>6. /\ {t \in Subgoal : sf[t].called}' = {t \in Subgoal : sf[t].called} \cup {s}
      /\ {t \in Subgoal : sf[t].complete}' = {t \in Subgoal : sf[t].complete}
      /\ [t \in Subgoal |-> Range(sf[t].answers)]' = [t \in Subgoal |-> Range(sf[t].answers)]
  BY <1>5
<1>7. Clauses(program, s)[1] \in Range(Clauses(program, s)) /\ tree' = [tree EXCEPT ![s] = {Clauses(program, s)[1]}]
  <2>1. Clauses(program, s) \in Seq(Goal) /\ Clauses(program, s) # <<>>
    BY <1>4, ProgramAssumption
  <2>2. 1 \in DOMAIN Clauses(program, s)
    BY <2>1
  <2>3. s # User
    BY EngineAssumption
  <2>4. tree' = [tree EXCEPT ![s] = tree[s] \cup {Clauses(program, s)[1]}]
    BY <1>1, <1>2, <2>3, RunTree
  <2> QED  BY <1>3, <2>2, <2>4 DEF Range
<1>8. Forest!Wanted(s)
  <2>1. /\ running /\ ptcpreg \in Subgoal \cup {User}
        /\ ptcpreg = User => query \in 1..Len(Query) /\ Query[query] = s
        /\ ptcpreg # User => Calls(goal) = s
    BY <1>1, <1>2, CallingTyped
  <2>2. CASE ptcpreg = User
    <3>1. query \in DOMAIN Query
      BY <2>1, <2>2, ProgramAssumption
    <3>2. s \in Forest!Range(Query)
      BY <2>1, <2>2, <3>1 DEF Forest!Range
    <3> QED  BY <3>2 DEF Forest!Wanted
  <2>3. CASE ptcpreg # User
    <3>1. goal \in tree[ptcpreg] /\ sf[ptcpreg].called /\ ptcpreg \in Subgoal
      BY <1>1, <2>1, <2>3, RunsNewest DEF ReturnsToCall, OpenTable
    <3> QED  BY <2>1, <2>3, <3>1 DEF Forest!Wanted
  <2> QED  BY <2>2, <2>3
<1>9. Forest!Call(s)
  BY <1>2, <1>6, <1>7, <1>8 DEF Forest!Call, Range, Forest!Range
<1> QED  BY <1>9 DEF Forest!ForestNext

LEMMA CallCompletedForest ==
  ASSUME OrderInv, NEW s \in Subgoal, CallCompleted(s)
  PROVE  [Forest!ForestNext]_(Forest!forestVars)
<1>p. PICK p, h : p = ptcpreg /\ h = goal
  OBVIOUS
<1>1. Typed /\ StackInv /\ ReturnsToCall
  BY DEF OrderInv
<1>2. /\ Calling(s) /\ UNCHANGED <<program, sf>>
      /\ (sf[s].answers = <<>> /\ Fail1) \/ (\E a \in Range(sf[s].answers) : Return(a, h, p))
  <2> PICK T : T = top_of_cpstack
    OBVIOUS
  <2>1. TakesFirstAnswer(s, T, p, h)
    BY <1>p, CallCompletedFacts
  <2> QED  BY <2>1 DEF TakesFirstAnswer
<1>3. p \in Subgoal \cup {User} /\ (p # User => sf[p].called /\ h \in tree[p] /\ Calls(h) = s)
  BY <1>1, <1>2, <1>p, CallingTyped, RunsNewest DEF ReturnsToCall, OpenTable
<1>4. TablesStay
  BY <1>2 DEF TablesStay
<1> QED  BY <1>1, <1>2, <1>3, <1>4, ReturnForest, ForestResolves

LEMMA ConsumeForest ==
  ASSUME OrderInv, NEW s \in Subgoal, Consume(s)
  PROVE  [Forest!ForestNext]_(Forest!forestVars)
<1>1. Typed /\ StackInv /\ ReturnsToCall
  BY DEF OrderInv
<1>2. /\ Calling(s) /\ program' = program
      /\ sf' = [sf EXCEPT ![s].asf = <<top_of_cpstack + 1>> \o @]
      /\ Fail1 \/ (sf[s].answers # <<>> /\ Return(sf[s].answers[1], goal, ptcpreg))
  BY DEF Consume
<1>3. ptcpreg \in Subgoal \cup {User} /\ (ptcpreg # User => sf[ptcpreg].called /\ goal \in tree[ptcpreg] /\ Calls(goal) = s)
  BY <1>1, <1>2, CallingTyped, RunsNewest DEF ReturnsToCall, OpenTable
<1>4. TablesStay
  <2>1. sf \in [Subgoal -> SubgoalFrame]
    BY <1>1 DEF Typed
  <2>2. \A t \in Subgoal : /\ sf'[t].called = sf[t].called /\ sf'[t].complete = sf[t].complete
                           /\ sf'[t].answers = sf[t].answers
    BY <1>2, <2>1 DEF SubgoalFrame
  <2> QED  BY <1>2, <2>2 DEF TablesStay
<1>5. sf[s].answers # <<>> => sf[s].answers[1] \in Range(sf[s].answers)
  <2>1. sf[s].answers \in Seq(Answer)
    BY <1>1, TableTyped
  <2> QED  BY <2>1 DEF Range
<1> QED  BY <1>1, <1>2, <1>3, <1>4, <1>5, ReturnForest, ForestResolves

LEMMA NewAnswerForest ==
  ASSUME OrderInv, AnswersAreCounted, NEW s \in Subgoal, NewAnswer(s)
  PROVE  [Forest!ForestNext]_(Forest!forestVars)
<1>1. Typed
  BY DEF OrderInv
<1>a. PICK a : a = Gives(goal)
  OBVIOUS
<1>2. /\ OpenTable(s) /\ goal \in Goal /\ Calls(goal) = Done /\ goal \in tree[s]
      /\ Fail1 /\ program' = program
      /\ \/ sf' = sf
         \/ /\ sf' = [sf EXCEPT ![s].answers = Append(@, a), ![s].complete = @ \/ s \in Ground]
            /\ s \in Ground => sf[s].answers = <<>>
  BY <1>a, NewAnswerFacts
<1>3. CASE sf' = sf
  BY <1>1, <1>2, <1>3, ForestResolves DEF TablesStay
<1>4. CASE sf' # sf
  <2>1. a \in Answer
    BY <1>2, <1>a, ProgramAssumption
  <2>2. /\ \A t \in Subgoal : t # s => sf'[t] = sf[t]
        /\ sf'[s].complete <=> sf[s].complete \/ s \in Ground
        /\ \A t \in Subgoal : sf'[t].called = sf[t].called
        /\ Range(sf'[s].answers) = Range(sf[s].answers) \cup {a}
    BY <1>1, <1>2, <1>4, <2>1, AppendedTable
  <2>3. /\ {t \in Subgoal : sf[t].called}' = {t \in Subgoal : sf[t].called}
        /\ {t \in Subgoal : sf[t].complete}' = {t \in Subgoal : sf[t].complete} \cup ({s} \cap Ground)
    BY <2>2
  <2>4. [t \in Subgoal |-> Range(sf[t].answers)]'
          = [[t \in Subgoal |-> Range(sf[t].answers)] EXCEPT ![s] = @ \cup {a}]
    BY <2>2
  <2>5. s \in Ground => [t \in Subgoal |-> Range(sf[t].answers)][s] = {}
    BY <1>2, <1>4 DEF Range
  <2>6. s \in {t \in Subgoal : sf[t].called}
    BY <1>2 DEF OpenTable
  <2>7. tree' = tree
    BY <1>2 DEF Fail1
  <2>8. Forest!AddAnswer(s)
    BY <1>2, <1>a, <2>3, <2>4, <2>5, <2>6, <2>7 DEF Forest!AddAnswer, Forest!Decided
  <2> QED  BY <2>8 DEF Forest!ForestNext
<1> QED  BY <1>3, <1>4

\* What only moves on the stacks.
LEMMA QuietForest ==
  ASSUME OrderInv,
         \/ UserAnswer \/ NextQuery
         \/ \E s \in Subgoal : ScheduleOwn(s) \/ ScheduleFollowers(s) \/ makeConsumerFromGenerator(s)
  PROVE  [Forest!ForestNext]_(Forest!forestVars)
<1>1. Typed /\ sf \in [Subgoal -> SubgoalFrame]
  BY DEF OrderInv, Typed
<1>2. program' = program /\ (Fail1 \/ Run(Asking, User))
  BY DEF UserAnswer, NextQuery, ScheduleOwn, ScheduleFollowers, makeConsumerFromGenerator
<1>3. sf' = sf \/ (\E s \in Subgoal : sf' = [sf EXCEPT ![s].asf = <<breg>> \o @])
  BY DEF UserAnswer, NextQuery, ScheduleOwn, ScheduleFollowers, makeConsumerFromGenerator
<1>4. TablesStay
  <2>1. CASE sf' = sf
    BY <1>2, <2>1 DEF TablesStay
  <2>2. ASSUME NEW s \in Subgoal, NEW list, sf' = [sf EXCEPT ![s].asf = list]  PROVE TablesStay
    <3>1. sf[s] \in SubgoalFrame
      BY <1>1
    <3>2. /\ sf'[s].called = sf[s].called /\ sf'[s].complete = sf[s].complete
          /\ sf'[s].answers = sf[s].answers
      BY <1>1, <2>2, <3>1 DEF SubgoalFrame
    <3>3. \A t \in Subgoal : t # s => sf'[t] = sf[t]
      BY <1>1, <2>2
    <3> QED  BY <1>2, <3>2, <3>3 DEF TablesStay
  <2> QED  BY <1>3, <2>1, <2>2
<1> QED  BY <1>1, <1>2, <1>4, ForestResolves

LEMMA NextClauseForest ==
  ASSUME OrderInv, NextClause
  PROVE  [Forest!ForestNext]_(Forest!forestVars)
<1>1. Typed
  BY DEF OrderInv
<1>k. PICK k, s, n : k = breg /\ s = cps[k].subgoal /\ n = cps[k].next
  OBVIOUS
<1>2. cps[k].pc = "tableretry" /\ UNCHANGED <<program, sf>> /\ Run(Clauses(program, s)[n], s)
  BY <1>k DEF NextClause, FailTo
<1>3. k \in 2..top_of_cpstack /\ s \in Subgoal /\ OpenTable(s)
  BY <1>k, <1>2, ResumedIs
<1>4. n \in 2..Len(Clauses(program, s))
  BY <1>k, <1>2, <1>3, EntriesAre
<1>5. Resolves(Clauses(program, s)[n], s)
  <2>1. Clauses(program, s) \in Seq(Goal)
    BY <1>1, <1>3, ProgramAssumption DEF Typed
  <2>2. n \in DOMAIN Clauses(program, s)
    BY <1>4, <2>1
  <2> QED  BY <2>2 DEF Resolves, Range
<1>6. TablesStay /\ sf[s].called
  BY <1>2, <1>3 DEF TablesStay, OpenTable
<1> QED  BY <1>1, <1>2, <1>3, <1>5, <1>6, ForestResolves

\* The goal a choice point returns answers to, and the table it returns them from.
LEMMA ReturnsFrom ==
  ASSUME OrderInv, NEW k \in 2..top_of_cpstack
  PROVE  /\ cps[k].ptcp \in Subgoal \cup {User} /\ CallOf(k) \in Subgoal
         /\ cps[k].ptcp # User => /\ sf[cps[k].ptcp].called /\ cps[k].cont \in tree[cps[k].ptcp]
                                  /\ Calls(cps[k].cont) = CallOf(k)
         /\ cps[k].pc = "trie" => cps[k].left \subseteq Range(sf[CallOf(k)].answers)
         /\ cps[k].pc # "trie" => cps[k].subgoal = CallOf(k)
<1>1. Typed /\ StackInv /\ ReturnsToCall /\ IsForCall(k)
  BY DEF OrderInv, ReturnsToCall
<1>2. k \in 1..top_of_cpstack
  BY <1>1, Tops
<1>3. cps[k].ptcp # User => OpenTable(cps[k].ptcp)
  BY <1>1, <1>2 DEF StackInv, Stacked, EntriesAreAlive
<1> QED  BY <1>1, <1>3, CallOfTyped DEF IsForCall, OpenTable

LEMMA NextOfTrieForest ==
  ASSUME OrderInv, NextOfTrie
  PROVE  [Forest!ForestNext]_(Forest!forestVars)
<1>1. Typed
  BY DEF OrderInv
<1>k. PICK k, h, p : k = breg /\ h = cps[k].cont /\ p = cps[k].ptcp
  OBVIOUS
<1>2. cps[k].pc = "trie" /\ UNCHANGED <<program, sf>> /\ \E a \in cps[k].left : Return(a, h, p)
  BY <1>k DEF NextOfTrie, FailTo
<1>3. k \in 2..top_of_cpstack
  BY <1>k, <1>2, ResumedIs
<1>s. PICK s : s = CallOf(k)
  OBVIOUS
<1>4. /\ p \in Subgoal \cup {User} /\ s \in Subgoal
      /\ p # User => sf[p].called /\ h \in tree[p] /\ Calls(h) = s
      /\ cps[k].left \subseteq Range(sf[s].answers)
  BY <1>k, <1>s, <1>2, <1>3, ReturnsFrom
<1>5. TablesStay
  BY <1>2 DEF TablesStay
<1> QED  BY <1>1, <1>2, <1>4, <1>5, ReturnForest

LEMMA AnswerReturnForest ==
  ASSUME OrderInv, AnswerReturn
  PROVE  [Forest!ForestNext]_(Forest!forestVars)
<1>1. Typed
  BY DEF OrderInv
<1>k. PICK k, h, p, s : k = breg /\ h = cps[k].cont /\ p = cps[k].ptcp /\ s = cps[k].subgoal
  OBVIOUS
<1>2. /\ cps[k].pc = "answer_return" /\ UNCHANGED <<program, sf>>
      /\ Fail1 \/ (cps[k].ret < Len(sf[s].answers) /\ Return(sf[s].answers[cps[k].ret + 1], h, p))
  BY <1>k DEF AnswerReturn, FailTo
<1>3. k \in 2..top_of_cpstack /\ k \in 1..Len(cps)
  BY <1>k, <1>2, ResumedIs
<1>4. /\ p \in Subgoal \cup {User} /\ s \in Subgoal
      /\ p # User => sf[p].called /\ h \in tree[p] /\ Calls(h) = s
  BY <1>k, <1>2, <1>3, ReturnsFrom
<1>5. cps[k].ret < Len(sf[s].answers) => sf[s].answers[cps[k].ret + 1] \in Range(sf[s].answers)
  <2>1. cps[k].ret \in Nat /\ sf[s].answers \in Seq(Answer)
    BY <1>1, <1>3, <1>4, EntryTyped, TableTyped
  <2>2. cps[k].ret < Len(sf[s].answers) => cps[k].ret + 1 \in DOMAIN sf[s].answers
    BY <2>1
  <2> QED  BY <2>2 DEF Range
<1>6. TablesStay
  BY <1>2 DEF TablesStay
<1> QED  BY <1>1, <1>2, <1>4, <1>5, <1>6, ReturnForest, ForestResolves

LEMMA CompleteForest ==
  ASSUME OrderInv, WorkInv, NEW s \in Subgoal, Complete(s)
  PROVE  [Forest!ForestNext]_(Forest!forestVars)
<1>1. Typed /\ StackInv /\ TablesAreSound /\ ReturnsToCall
  BY DEF OrderInv
<1>k. PICK k, h, p : k = breg /\ h = cps[k].cont /\ p = cps[k].ptcp
  OBVIOUS
<1>d. PICK done : done = {t \in Subgoal : OpenTable(t) /\ sf[s].frame <= sf[t].frame /\ ~ sf[t].complete}
  OBVIOUS
<1>2. /\ OpenTable(s) /\ program' = program
      /\ \A t \in Subgoal :
           /\ sf'[t].answers = sf[t].answers /\ sf'[t].called = sf[t].called
           /\ IF OpenTable(t) /\ sf[s].frame <= sf[t].frame THEN sf'[t].complete ELSE sf'[t] = sf[t]
  BY <1>1, CompletedTables DEF Complete
<1>3. (sf[s].answers = <<>> /\ Fail1) \/ (\E a \in Range(sf[s].answers) : Return(a, h, p))
  <2>1. PICK b, T : b = cps[k].prev /\ T = Higher(b, bfreg')
    OBVIOUS
  <2> QED  BY <1>k, <2>1, CompleteFacts DEF ReturnsAll
<1>4. k \in 2..top_of_cpstack /\ cps[k].pc = "check_complete" /\ cps[k].subgoal = s
  <2>1. AtCheckComplete(s)
    BY DEF Complete
  <2> QED  BY <1>1, <1>k, <2>1, GeneratorOnTop DEF AtCheckComplete, FailTo
<1>5. p \in Subgoal \cup {User} /\ (p # User => sf[p].called /\ h \in tree[p] /\ Calls(h) = s)
  BY <1>k, <1>4, ReturnsFrom
<1>6. \A t \in Subgoal : sf'[t].complete <=> sf[t].complete \/ t \in done
  BY <1>d, <1>2
<1>7. CASE done = {}
  <2>1. \A t \in Subgoal : sf'[t].complete = sf[t].complete
    <3>1. ASSUME NEW t \in Subgoal  PROVE sf'[t].complete = sf[t].complete
      <4>1. CASE OpenTable(t) /\ sf[s].frame <= sf[t].frame
        <5>1. sf'[t].complete /\ sf[t].complete
          BY <1>2, <1>d, <1>7, <4>1
        <5>2. sf[t].complete \in BOOLEAN /\ sf'[t].complete \in BOOLEAN
          BY <1>1, TableTyped, CompletedTables DEF SubgoalFrame
        <5> QED  BY <5>1, <5>2
      <4> QED  BY <1>2, <4>1
    <3> QED  BY <3>1
  <2>2. TablesStay
    BY <1>2, <2>1 DEF TablesStay
  <2> QED  BY <1>1, <1>3, <1>5, <2>2, ReturnForest, ForestResolves
<1>8. CASE done # {}
  <2>1. done \subseteq {t \in Subgoal : sf[t].called} \ {t \in Subgoal : sf[t].complete}
    BY <1>d DEF OpenTable
  <2>2. /\ {t \in Subgoal : sf[t].complete}' = {t \in Subgoal : sf[t].complete} \cup done
        /\ {t \in Subgoal : sf[t].called}' = {t \in Subgoal : sf[t].called}
        /\ [t \in Subgoal |-> Range(sf[t].answers)]' = [t \in Subgoal |-> Range(sf[t].answers)]
    BY <1>2, <1>6, <1>d
  <2>3. \A t \in done : Forest!Saturated(t, done \cup {v \in Subgoal : sf[v].complete})
    <3> SUFFICES ASSUME NEW t \in done  PROVE Forest!Saturated(t, done \cup {v \in Subgoal : sf[v].complete})
      OBVIOUS
    <3>1. t \in Subgoal /\ OpenTable(t) /\ sf[s].frame <= sf[t].frame /\ ~ sf[t].complete
      BY <1>d
    <3>2. /\ \A n \in DOMAIN Clauses(program, t) : Clauses(program, t)[n] \in tree[t]
          /\ \A g \in tree[t] :
               IF Calls(g) = Done THEN Gives(g) \in Range(sf[t].answers)
               ELSE /\ sf'[Calls(g)].complete
                    /\ \A a \in Range(sf[Calls(g)].answers) : After(g, a) \in tree[t]
      BY <3>1, LeaderIsDone
    <3>3. \A g \in tree[t] : Calls(g) \in Subgoal \cup {Done}
      BY <1>1, <3>1, ProgramAssumption DEF Typed
    <3>4. Forest!Resolvents(t) \subseteq tree[t]
      <4>1. \A g \in tree[t] : Calls(g) # Done =>
              {After(g, a) : a \in [v \in Subgoal |-> Range(sf[v].answers)][Calls(g)]} \subseteq tree[t]
        BY <3>2, <3>3
      <4>2. Forest!Range(Clauses(program, t)) \subseteq tree[t]
        BY <3>2 DEF Forest!Range
      <4>3. Range(Clauses(program, t)) \subseteq tree[t]
        BY <3>2 DEF Range
      <4> QED  BY <4>1, <4>2, <4>3 DEF Forest!Resolvents
    <3>5. \A g \in tree[t] : IF Calls(g) = Done THEN Gives(g) \in [v \in Subgoal |-> Range(sf[v].answers)][t]
                             ELSE Calls(g) \in done \cup {v \in Subgoal : sf[v].complete}
      BY <1>6, <3>1, <3>2, <3>3
    <3> QED  BY <3>4, <3>5 DEF Forest!Saturated
  <2>4. tree' = tree \/ (\E t \in {v \in Subgoal : sf[v].called} : Forest!Grow(t))
    <3>1. CASE Fail1
      BY <3>1 DEF Fail1
    <3>2. ASSUME NEW a \in Range(sf[s].answers), Return(a, h, p)
          PROVE  tree' = tree \/ (\E t \in {v \in Subgoal : sf[v].called} : Forest!Grow(t))
      <4>1. CASE p = User
        BY <1>1, <3>2, <4>1, RunTree DEF Return
      <4>2. CASE p # User
        <5>1. tree' = [tree EXCEPT ![p] = @ \cup {After(h, a)}]
          BY <1>1, <1>5, <3>2, <4>2, RunTree DEF Return
        <5>2. Resolves(After(h, a), p)
          BY <1>5, <3>2, <4>2, ProgramAssumption DEF Resolves
        <5>3. After(h, a) \in Forest!Resolvents(p)
          BY <1>1, <1>5, <4>2, <5>2, ResolventsAre
        <5>4. Forest!Grow(p)
          BY <5>1, <5>3 DEF Forest!Grow
        <5> QED  BY <1>5, <4>2, <5>4
      <4> QED  BY <4>1, <4>2
    <3> QED  BY <1>3, <3>1, <3>2
  <2>5. Forest!CompleteAll(done)
    BY <1>2, <1>8, <2>2, <2>3, <2>4 DEF Forest!CompleteAll
  <2> QED  BY <2>1, <2>5 DEF Forest!ForestNext
<1> QED  BY <1>7, <1>8

LEMMA ForestStep ==
  ASSUME OrderInv, WorkInv, [Next]_vars
  PROVE  [Forest!ForestNext]_(Forest!forestVars)
<1>1. CASE \E s \in Subgoal : NewProducer(s) \/ CallCompleted(s) \/ Consume(s)
  BY <1>1, NewProducerForest, CallCompletedForest, ConsumeForest
<1>2. CASE \E s \in Subgoal : NewAnswer(s)
  BY <1>2, NewAnswerForest DEF WorkInv
<1>3. CASE \/ UserAnswer \/ NextQuery
           \/ \E s \in Subgoal : ScheduleOwn(s) \/ ScheduleFollowers(s) \/ makeConsumerFromGenerator(s)
  BY <1>3, QuietForest
<1>4. CASE \E s \in Subgoal : Complete(s)
  BY <1>4, CompleteForest
<1>5. CASE NextClause \/ NextOfTrie \/ AnswerReturn
  BY <1>5, NextClauseForest, NextOfTrieForest, AnswerReturnForest
<1>6. CASE UNCHANGED vars
  BY <1>6 DEF vars, Forest!forestVars
<1> QED  BY <1>1, <1>2, <1>3, <1>4, <1>5, <1>6 DEF Next

\* Refinement: with its stacks and its scheduling the engine only ever calls a subgoal that is
\* asked for, resolves a goal with a clause or with an answer there is, adds the answer of a goal
\* that is done, and completes tables for which nothing is left to do.
THEOREM EngineImplementsForest == Spec => ForestSpec
<1>1. Init => Forest!ForestInit
  BY DEF Init, Forest!ForestInit, NoTable, Range
<1>2. Init => OrderInv /\ WorkInv
  BY InitOrder, InitWork
<1>3. OrderInv /\ WorkInv /\ [Next]_vars => (OrderInv /\ WorkInv)'
  BY OrderStep, WorkStep
<1>4. OrderInv /\ WorkInv /\ [Next]_vars => [Forest!ForestNext]_(Forest!forestVars)
  BY ForestStep
<1> QED  BY <1>1, <1>2, <1>3, <1>4, PTL DEF Spec, ForestSpec, Forest!ForestSpec

\* The theorems about the forest, of the engine's tables.
Tables == INSTANCE SLGForestProofs
            WITH called <- {s \in Subgoal : sf[s].called},
                 answers <- [s \in Subgoal |-> Range(sf[s].answers)],
                 complete <- {s \in Subgoal : sf[s].complete}

LEMMA TablesAreForest == Spec => Tables!ForestSpec
<1>1. Forest!ForestInit => Tables!ForestInit
  BY DEF Forest!ForestInit, Tables!ForestInit
<1>2. \A s : Forest!Resolvents(s) = Tables!Resolvents(s)
  BY DEF Forest!Resolvents, Tables!Resolvents, Forest!Range, Tables!Range
<1>3. \A s : Forest!Grow(s) = Tables!Grow(s)
  BY <1>2 DEF Forest!Grow, Tables!Grow
<1>4. \A s : Forest!Call(s) => Tables!Call(s)
  BY DEF Forest!Call, Tables!Call, Forest!Wanted, Tables!Wanted, Forest!Range, Tables!Range
<1>5. \A s : Forest!Resolve(s) => Tables!Resolve(s)
  BY <1>3 DEF Forest!Resolve, Tables!Resolve
<1>6. \A s : Forest!AddAnswer(s) => Tables!AddAnswer(s)
  BY DEF Forest!AddAnswer, Tables!AddAnswer, Forest!Decided, Tables!Decided
<1>7. \A S : Forest!CompleteAll(S) => Tables!CompleteAll(S)
  BY <1>2, <1>3 DEF Forest!CompleteAll, Tables!CompleteAll, Forest!Saturated, Tables!Saturated
<1>8. [Forest!ForestNext]_(Forest!forestVars) => [Tables!ForestNext]_(Tables!forestVars)
  BY <1>4, <1>5, <1>6, <1>7 DEF Forest!ForestNext, Tables!ForestNext, Forest!forestVars, Tables!forestVars
<1> QED  BY <1>1, <1>8, EngineImplementsForest, PTL DEF ForestSpec, Forest!ForestSpec, Tables!ForestSpec

LEMMA TablesAssumption == Tables!ProgramAssumption
BY ProgramAssumption

\* Completeness: a table the engine marks complete, and from then on only reads answers from,
\* has the one answer of a subgoal without variables, or has run all goals that its clauses lead
\* to with the answers of complete tables, and holds the answers these goals give.
THEOREM CompleteTablesAreExact == Spec => []Forest!CompletedExact
<1>1. Tables!ForestSpec => []Tables!CompletedExact
  BY TablesAssumption, Tables!ForestComplete, PTL
<1>2. Tables!CompletedExact => Forest!CompletedExact
  BY DEF Tables!CompletedExact, Forest!CompletedExact, Tables!Saturated, Forest!Saturated,
         Forest!Resolvents, Tables!Resolvents, Forest!Range, Tables!Range
<1> QED  BY <1>1, <1>2, TablesAreForest, PTL

\* Soundness: the engine tables no goal and no answer beyond goals and answers that are closed
\* under the program's clauses, whichever these are.
THEOREM TablesAreWithinModels ==
  ASSUME NEW CONSTANT mt, NEW CONSTANT ma
  PROVE  Spec => [](Forest!IsModel(mt, ma) => Forest!WithinModel(mt, ma))
<1>1. Tables!ForestSpec => [](Tables!IsModel(mt, ma) => Tables!WithinModel(mt, ma))
  BY TablesAssumption, Tables!ForestSound
<1>2. (Tables!IsModel(mt, ma) => Tables!WithinModel(mt, ma)) => (Forest!IsModel(mt, ma) => Forest!WithinModel(mt, ma))
  BY DEF Tables!IsModel, Forest!IsModel, Tables!WithinModel, Forest!WithinModel, Forest!Range, Tables!Range
<1> QED  BY <1>1, <1>2, TablesAreForest, PTL

\* A complete table stays complete and gets no other answer.
THEOREM CompleteTablesAreFinal == Spec => Forest!CompletedIsFinal
<1>1. Tables!ForestSpec => Tables!CompletedIsFinal
  BY TablesAssumption, Tables!CompletedNeverChanges, PTL
<1>2. Tables!CompletedIsFinal => Forest!CompletedIsFinal
  BY PTL DEF Tables!CompletedIsFinal, Forest!CompletedIsFinal, Tables!forestVars, Forest!forestVars
<1> QED  BY <1>1, <1>2, TablesAreForest, PTL

--------------------------------------------------------------------------------
(* What the program is answered. *)

\* Tables only grow, and a complete one does no more.
LEMMA TablesGrow ==
  ASSUME OrderInv, AnswersAreCounted, Next, NEW t \in Subgoal
  PROVE  /\ sf[t].complete => sf'[t].complete /\ sf'[t].answers = sf[t].answers
         /\ Range(sf[t].answers) \subseteq Range(sf'[t].answers)
<1>1. Typed /\ StackInv /\ TablesAreSound /\ sf \in [Subgoal -> SubgoalFrame]
  BY DEF OrderInv, Typed
<1>2. CASE sf' = sf
  BY <1>2
<1>3. ASSUME NEW s \in Subgoal, NEW list, sf' = [sf EXCEPT ![s].asf = list]
      PROVE  sf'[t].complete = sf[t].complete /\ sf'[t].answers = sf[t].answers
  <2>1. CASE t = s
    <3>1. sf[t] \in SubgoalFrame
      BY <1>1
    <3> QED  BY <1>1, <1>3, <2>1, <3>1 DEF SubgoalFrame
  <2>2. CASE t # s
    BY <1>1, <1>3, <2>2
  <2> QED  BY <2>1, <2>2
<1>4. ASSUME NEW s \in Subgoal, NewProducer(s)
      PROVE  sf[t].complete => t # s
  BY <1>1, <1>4 DEF NewProducer, TablesAreSound
<1>5. ASSUME NEW s \in Subgoal, NewProducer(s)
      PROVE  t # s => sf'[t] = sf[t]
  BY <1>1, <1>5 DEF NewProducer
<1>6. ASSUME NEW s \in Subgoal, NewProducer(s)
      PROVE  Range(sf[s].answers) = {}
  BY <1>1, <1>6 DEF NewProducer, TablesAreSound, NoTable, Range
<1>7. ASSUME NEW s \in Subgoal, NewAnswer(s)
      PROVE  /\ sf[t].complete => sf'[t].complete /\ sf'[t].answers = sf[t].answers
             /\ Range(sf[t].answers) \subseteq Range(sf'[t].answers)
  <2>a. PICK a : a = Gives(goal)
    OBVIOUS
  <2>1. /\ goal \in Goal /\ Calls(goal) = Done
        /\ sf' = sf \/ (sf' = [sf EXCEPT ![s].answers = Append(@, a), ![s].complete = @ \/ s \in Ground] /\ ~ sf[s].complete)
    BY <1>7, <2>a, NewAnswerFacts
  <2>2. a \in Answer
    BY <2>a, <2>1, ProgramAssumption
  <2>3. CASE sf' # sf
    <3>1. /\ t # s => sf'[t] = sf[t]
          /\ Range(sf'[s].answers) = Range(sf[s].answers) \cup {a} /\ ~ sf[s].complete
      BY <1>1, <2>1, <2>2, <2>3, AppendedTable
    <3> QED  BY <3>1
  <2> QED  BY <1>2, <2>3
<1>8. ASSUME NEW s \in Subgoal, Complete(s)
      PROVE  (sf[t].complete => sf'[t].complete) /\ sf'[t].answers = sf[t].answers
  BY <1>1, <1>8, CompletedTables
<1>9. \/ \E s \in Subgoal : NewProducer(s) \/ NewAnswer(s) \/ Complete(s)
      \/ \E s \in Subgoal : \E list : sf' = [sf EXCEPT ![s].asf = list]
      \/ sf' = sf
  BY DEF Next, CallCompleted, Consume, ScheduleOwn, ScheduleFollowers, makeConsumerFromGenerator,
         UserAnswer, NextQuery, NextClause, NextOfTrie, AnswerReturn
<1> QED  BY <1>2, <1>3, <1>4, <1>5, <1>6, <1>7, <1>8, <1>9

\* With a table open the program waits at the bottom of the stack, for the oldest.
LEMMA OpenWaits ==
  ASSUME OrderInv, openreg > 0
  PROVE  /\ breg > 1 /\ (running => ptcpreg # User)
         /\ ~ UserAnswer /\ ~ NextQuery
<1>1. Typed /\ StackInv
  BY DEF OrderInv
<1>2. breg > 1
  <2>1. PICK s : s = frames[1].subgoal
    OBVIOUS
  <2>2. s \in Subgoal /\ OpenTable(s) /\ sf[s].cp <= breg
    BY <1>1, <2>1, OldestLeads
  <2>3. sf[s].cp \in Nat /\ sf[s].cp >= 2
    BY <1>1, <2>2, OpenTyped, Tops
  <2> QED  BY <1>1, <2>2, <2>3, Tops
<1>3. running => ptcpreg # User
  BY <1>1, RunsNewest
<1>5. ~ NextQuery
  <2>1. breg \in 1..top_of_cpstack
    <3>1. breg \in Nat /\ breg >= 1 /\ breg <= top_of_cpstack /\ top_of_cpstack \in Nat
      BY <1>1, Tops DEF Typed
    <3> QED  BY <3>1
  <2>2. cps[breg].pc = "query" => breg = 1
    BY <1>1, <2>1 DEF StackInv, Stacked, EntriesAreAlive
  <2> QED  BY <1>2, <2>2 DEF NextQuery, FailTo
<1> QED  BY <1>2, <1>3, <1>5 DEF UserAnswer

\* With no table open nothing is frozen, and the stack holds, above the program's own choice
\* point, only tries that return answers to it.
LEMMA ClosedStacks ==
  ASSUME OrderInv, openreg = 0
  PROVE  /\ bfreg = 1 /\ top_of_cpstack = breg /\ breg \in Nat /\ breg >= 1 /\ breg <= Len(cps) /\ Len(cps) \in Nat
         /\ \A t \in Subgoal : ~ OpenTable(t)
         /\ running => ptcpreg = User
         /\ \A i \in 1..breg : /\ cps[i].ptcp = User /\ cps[i] \in Entry /\ cps[i].pc \in {"query", "trie"}
                               /\ cps[i].pc = "query" <=> i = 1
<1>1. Typed /\ StackInv
  BY DEF OrderInv
<1>2. bfreg = 1 /\ openreg \in Nat
  BY <1>1 DEF StackInv, FramesHoldTables, Typed
<1>3. breg \in Nat /\ breg >= 1 /\ breg <= Len(cps) /\ Len(cps) \in Nat /\ top_of_cpstack = breg
  <2>1. breg \in 1..Len(cps) /\ Len(cps) \in Nat
    BY <1>1 DEF Typed
  <2>2. breg \in Nat /\ breg >= 1 /\ breg <= Len(cps)
    BY <2>1
  <2> QED  BY <1>2, <2>1, <2>2 DEF top_of_cpstack, Higher
<1>4. \A t \in Subgoal : ~ OpenTable(t)
  BY <1>1, OpenTyped
<1>5. running => ptcpreg = User
  BY <1>1, <1>4, RunsNewest
<1>6. ASSUME NEW i \in 1..breg
      PROVE  /\ cps[i].ptcp = User /\ cps[i] \in Entry /\ cps[i].pc \in {"query", "trie"}
             /\ cps[i].pc = "query" <=> i = 1
  <2>1. i \in 1..Len(cps)
    BY <1>3
  <2>2. cps[i] \in Entry /\ cps[i].ptcp \in Subgoal \cup {User}
    BY <1>1, <2>1, EntryTyped
  <2>3. EntriesAreAlive(breg)
    BY <1>1, <1>3 DEF StackInv, Stacked
  <2>4. /\ cps[i].ptcp # User => OpenTable(cps[i].ptcp)
        /\ IsGenerator(i) => cps[i].subgoal \in Subgoal /\ OpenTable(cps[i].subgoal)
        /\ cps[i].pc = "answer_return" => cps[i].subgoal \in Subgoal /\ OpenTable(cps[i].subgoal)
        /\ cps[i].pc = "query" <=> i = 1
    BY <2>3 DEF EntriesAreAlive
  <2>5. cps[i].ptcp = User
    BY <1>4, <2>2, <2>4
  <2>6. cps[i].pc \notin {"tableretry", "check_complete", "answer_return"}
    BY <1>4, <2>4 DEF IsGenerator
  <2>7. cps[i].pc \in {"query", "trie"}
    BY <2>2, <2>6 DEF Entry
  <2> QED  BY <2>2, <2>4, <2>5, <2>7
<1> QED  BY <1>2, <1>3, <1>4, <1>5, <1>6

\* An answer returned to the program, the others being left in a trie, and nothing had before.
LEMMA FirstServed ==
  ASSUME NEW s, NEW q, NEW a \in Range(sf'[s].answers), sf'[s].complete, results'[q] = <<>>,
         running', goal' = Got(a),
         \/ Range(sf'[s].answers) = {a} /\ breg' = 1
         \/ breg' = 2 /\ cps'[2].pc = "trie" /\ cps'[2].left = Range(sf'[s].answers) \ {a}
  PROVE  Serves(q, s)'
<1>1. goal' # Asking /\ goal'.user[1] = a
  BY DEF Got, Asking
<1>2. AtCall' = {a}
  BY <1>1 DEF AtCall
<1>3. Range(results'[q]) = {}
  BY DEF Range
<1>4. InTrie' = Range(sf'[s].answers) \ {a} /\ breg' \in {1, 2} /\ (breg' = 2 => cps'[2].pc = "trie")
  BY DEF InTrie
<1> QED  BY <1>1, <1>2, <1>3, <1>4 DEF Serves

\* A call with no answers.
LEMMA NoneServed ==
  ASSUME NEW s, NEW q, sf'[s].answers = <<>>, sf'[s].complete, results'[q] = <<>>, ~ running', breg' = 1
  PROVE  Serves(q, s)'
<1>1. AtCall' = {} /\ InTrie' = {} /\ Range(results'[q]) = {} /\ Range(sf'[s].answers) = {}
  BY DEF AtCall, InTrie, Range
<1> QED  BY <1>1 DEF Serves

\* While the oldest table is open, the call it is for waits as before.
LEMMA OpenStays ==
  ASSUME OrderInv, AnswersAreCounted, Next, openreg > 0, ~ \E s \in Subgoal : Complete(s)
  PROVE  /\ openreg' > 0 /\ frames'[1].subgoal = frames[1].subgoal
         /\ sf'[frames[1].subgoal].cp = sf[frames[1].subgoal].cp
         /\ UNCHANGED <<query, results>>
<1> PICK s : s = frames[1].subgoal
  OBVIOUS
<1>1. Typed /\ StackInv /\ TablesAreSound /\ sf \in [Subgoal -> SubgoalFrame]
  BY DEF OrderInv, Typed
<1>2. s \in Subgoal /\ OpenTable(s) /\ 1 \in 1..openreg /\ openreg \in Nat
  <2>1. openreg \in Nat
    BY <1>1 DEF Typed
  <2> QED  BY <1>1, <2>1, OldestLeads
<1>3. ASSUME NEW t \in Subgoal, NewProducer(t)
      PROVE  openreg' > 0 /\ frames'[1].subgoal = s /\ sf'[s].cp = sf[s].cp /\ UNCHANGED <<query, results>>
  <2>1. t # s
    BY <1>2, <1>3 DEF NewProducer, OpenTable
  <2>2. openreg' = openreg + 1 /\ frames'[1] = frames[1] /\ sf'[s] = sf[s]
    BY <1>1, <1>2, <1>3, <2>1, NewProducerFacts
  <2>3. UNCHANGED <<query, results>>
    BY <1>3 DEF NewProducer
  <2> QED  BY <1>2, <2>2, <2>3
<1>4. ASSUME NEW t \in Subgoal, Consume(t)
      PROVE  openreg' > 0 /\ frames'[1].subgoal = s /\ sf'[s].cp = sf[s].cp /\ UNCHANGED <<query, results>>
  <2>1. openreg' = openreg /\ frames'[1].subgoal = frames[1].subgoal /\ sf'[s].cp = sf[s].cp
    BY <1>1, <1>2, <1>4, ConsumeFacts
  <2> QED  BY <1>4, <2>1 DEF Consume
<1>5. ASSUME NEW t \in Subgoal, NewAnswer(t)
      PROVE  sf'[s].cp = sf[s].cp
  <2>a. PICK a : a = Gives(goal)
    OBVIOUS
  <2>1. /\ goal \in Goal /\ Calls(goal) = Done
        /\ sf' = sf \/ sf' = [sf EXCEPT ![t].answers = Append(@, a), ![t].complete = @ \/ t \in Ground]
    BY <1>5, <2>a, NewAnswerFacts
  <2>2. a \in Answer
    BY <2>a, <2>1, ProgramAssumption
  <2> QED  BY <1>1, <1>2, <2>1, <2>2, AppendedTable
<1>6. ASSUME NEW t \in Subgoal, makeConsumerFromGenerator(t)
      PROVE  sf'[s].cp = sf[s].cp
  BY <1>1, <1>2, <1>6, makeConsumerFacts
<1>7. CASE \E t \in Subgoal : NewProducer(t) \/ Consume(t)
  BY <1>3, <1>4, <1>7
<1>8. CASE \/ \E t \in Subgoal : NewAnswer(t) \/ makeConsumerFromGenerator(t)
           \/ \E t \in Subgoal : CallCompleted(t) \/ ScheduleOwn(t) \/ ScheduleFollowers(t)
           \/ NextClause \/ NextOfTrie \/ AnswerReturn
  <2>1. UNCHANGED <<frames, openreg, query, results>>
    BY <1>8 DEF NewAnswer, makeConsumerFromGenerator, CallCompleted, ScheduleOwn, ScheduleFollowers,
                NextClause, NextOfTrie, AnswerReturn
  <2>2. CASE \E t \in Subgoal : NewAnswer(t) \/ makeConsumerFromGenerator(t)
    BY <1>5, <1>6, <2>1, <2>2
  <2>3. CASE ~ \E t \in Subgoal : NewAnswer(t) \/ makeConsumerFromGenerator(t)
    <3>1. sf' = sf
      BY <1>8, <2>3 DEF CallCompleted, ScheduleOwn, ScheduleFollowers, NextClause, NextOfTrie, AnswerReturn
    <3> QED  BY <2>1, <3>1
  <2> QED  BY <2>2, <2>3
<1> QED  BY <1>7, <1>8, OpenWaits DEF Next

\* The oldest table is completed: the program's call has its answers.
LEMMA CompleteServes ==
  ASSUME OrderInv, NEW s \in Subgoal, Complete(s), openreg > 0, query > 0, QueryIsServed, NEW q, q = query
  PROVE  IF openreg' > 0 THEN /\ results'[q] = <<>> /\ frames'[1].subgoal = Query[q]
                              /\ sf'[Query[q]].cp = 2
                         ELSE Serves(q, Query[q])'
<1>u. PICK u : u = Query[q]
  OBVIOUS
<1>1. Typed /\ StackInv
  BY DEF OrderInv
<1>2. results[q] = <<>> /\ frames[1].subgoal = u /\ sf[u].cp = 2 /\ q \in 1..Len(Query) /\ u \in Subgoal
  <2>1. q \in 1..Len(Query)
    BY <1>1 DEF Typed
  <2>2. Query[q] \in Subgoal
    BY <2>1, ProgramAssumption
  <2> QED  BY <1>u, <2>1, <2>2 DEF QueryIsServed
<1>3. UNCHANGED <<frames, results>>
  BY DEF Complete
<1>4. /\ AtCheckComplete(s) /\ OpenTable(s) /\ sf[s].cp = breg
      /\ \A t \in Subgoal : sf'[t].answers = sf[t].answers /\ sf'[t].cp = sf[t].cp
      /\ sf[s].frame <= sf[s].frame => sf'[s].complete
  BY <1>1, CompletedTables
<1>5. CASE openreg' > 0
  BY <1>2, <1>3, <1>4, <1>5, <1>u
<1>6. CASE ~ (openreg' > 0)
  <2>1. openreg' = sf[s].frame - 1 /\ openreg' \in 0..openreg /\ sf[s].frame \in Nat /\ openreg \in Nat
    BY <1>1, Reclaimed, TableTyped DEF Typed
  <2>2. sf[s].frame = 1 /\ sf'[s].complete
    BY <1>4, <1>6, <2>1
  <2>3. s = u
    <3>1. frames[sf[s].frame].subgoal = s
      BY <1>1, <1>4, OpenTyped
    <3> QED  BY <1>2, <2>2, <3>1
  <2>4. breg = 2
    BY <1>2, <1>4, <2>3
  <2>b. PICK b, T, p : b = cps[breg].prev /\ T = Higher(b, bfreg') /\ p = cps[breg].ptcp
    OBVIOUS
  <2>5. p = User
    <3>1. p # User => sf[p].cp < 2 /\ OpenTable(p)
      BY <1>1, <1>4, <2>4, <2>b, OpenTyped DEF StackInv, Stacked, EntriesAreAlive
    <3>2. p \in Subgoal \cup {User}
      BY <1>1, <1>4, <2>b, CompleteFacts
    <3>3. p # User => sf[p].cp \in Nat /\ sf[p].cp >= 2
      BY <1>1, <3>1, <3>2, OpenTyped, Tops
    <3> QED  BY <3>1, <3>3
  <2>6. b = 1 /\ T = 1
    <3>1. b \in 1..breg - 1 /\ T \in 1..breg - 1
      BY <1>1, <2>b, CompletedEntries
    <3> QED  BY <2>4, <3>1
  <2>l. PICK left : left = Range(sf[s].answers)
    OBVIOUS
  <2>7. \/ sf[s].answers = <<>> /\ breg' = b /\ Fail1
        \/ \E a \in left :
             /\ Return(a, cps[breg].cont, p)
             /\ \/ breg' = b /\ left = {a}
                \/ breg' = T + 1 /\ cps'[T + 1].pc = "trie" /\ cps'[T + 1].left = left \ {a}
    BY <1>1, <2>b, <2>l, CompletedEntries
  <2>8. Range(sf'[s].answers) = left
    BY <1>4, <2>l
  <2>9. ASSUME NEW a \in left, Return(a, cps[breg].cont, p)
        PROVE  running' /\ goal' = Got(a)
    BY <2>5, <2>9 DEF Return, Run
  <2>10. Serves(q, u)'
    <3>1. CASE sf[s].answers = <<>> /\ breg' = b /\ Fail1
      BY <1>2, <1>3, <1>4, <2>2, <2>3, <2>6, <3>1, NoneServed DEF Fail1
    <3>2. ASSUME NEW a \in left, Return(a, cps[breg].cont, p),
                 \/ breg' = 1 /\ left = {a}
                 \/ breg' = 2 /\ cps'[2].pc = "trie" /\ cps'[2].left = left \ {a}
          PROVE  Serves(q, u)'
      BY <1>2, <1>3, <2>2, <2>3, <2>8, <2>9, <3>2, FirstServed
    <3>3. T + 1 = 2
      BY <2>6
    <3> QED  BY <2>6, <2>7, <3>1, <3>2, <3>3
  <2> QED  BY <1>6, <1>u, <2>10
<1> QED  BY <1>5, <1>6

\* With no table open, the program is the one that runs or is backtracked to.
LEMMA ClosedNext ==
  ASSUME OrderInv, openreg = 0, Next
  PROVE  \/ UserAnswer /\ goal # Asking
         \/ NextQuery /\ ~ running /\ breg = 1
         \/ NextOfTrie /\ ~ running /\ breg >= 2 /\ cps[breg].ptcp = User /\ cps[breg] \in Entry
         \/ \E s \in Subgoal : /\ NewProducer(s) \/ CallCompleted(s)
                               /\ running /\ goal = Asking /\ ptcpreg = User /\ query > 0 /\ s = Query[query]
<1>1. Typed /\ StackInv /\ TablesAreSound
  BY DEF OrderInv
<1>2. /\ breg \in Nat /\ breg >= 1
      /\ \A t \in Subgoal : ~ OpenTable(t)
      /\ running => ptcpreg = User
      /\ cps[breg].ptcp = User /\ cps[breg] \in Entry /\ cps[breg].pc \in {"query", "trie"}
      /\ cps[breg].pc = "query" <=> breg = 1
  <2>1. breg \in Nat /\ breg >= 1
    BY ClosedStacks
  <2>2. breg \in 1..breg
    BY <2>1
  <2> QED  BY <2>1, <2>2, ClosedStacks
<1>3. ASSUME NEW s \in Subgoal, NewProducer(s) \/ CallCompleted(s)
      PROVE  running /\ goal = Asking /\ ptcpreg = User /\ query > 0 /\ s = Query[query]
  <2>1. Calling(s)
    BY <1>3 DEF NewProducer, CallCompleted
  <2>2. running /\ (ptcpreg = User => goal = Asking /\ query \in 1..Len(Query) /\ Query[query] = s)
    BY <1>1, <2>1, CallingTyped
  <2> QED  BY <1>1, <1>2, <2>2 DEF Typed
<1>4. \A s \in Subgoal : ~ Consume(s)
  BY <1>1, <1>2, ConsumeFacts
<1>5. \A s \in Subgoal : ~ NewAnswer(s)
  BY <1>2, EngineAssumption DEF NewAnswer
<1>6. \A s \in Subgoal : ~ AtCheckComplete(s)
  BY <1>2 DEF AtCheckComplete, FailTo
<1>7. ~ NextClause /\ ~ AnswerReturn
  BY <1>2 DEF NextClause, AnswerReturn, FailTo
<1>8. NextQuery => ~ running /\ breg = 1
  BY <1>2 DEF NextQuery, FailTo
<1>9. NextOfTrie => ~ running /\ breg >= 2
  BY <1>2 DEF NextOfTrie, FailTo
<1>10. UserAnswer => goal # Asking
  BY DEF UserAnswer
<1> QED  BY <1>2, <1>3, <1>4, <1>5, <1>6, <1>7, <1>8, <1>9, <1>10 DEF Next, ScheduleOwn, ScheduleFollowers, makeConsumerFromGenerator, Complete

\* The program takes an answer.
LEMMA UserAnswerServes ==
  ASSUME OrderInv, openreg = 0, UserAnswer, NEW q, q = query, NEW u, Serves(q, u), IsInjective(results[q])
  PROVE  /\ Serves(q, u)' /\ IsInjective(results'[q])
         /\ Range(results'[q]) \subseteq Range(sf[u].answers)
         /\ \A i \in DOMAIN results : i # q => results'[i] = results[i]
         /\ DOMAIN results' = DOMAIN results
<1>1. Typed
  BY DEF OrderInv
<1>2. running /\ goal # Asking /\ ptcpreg = User /\ Fail1 /\ UNCHANGED <<sf, cps, breg, query>>
      /\ results' = [results EXCEPT ![q] = Append(@, goal.user[1])]
  BY DEF UserAnswer
<1>3. PICK a \in Answer : goal = Got(a)
  BY <1>1, <1>2 DEF Typed
<1>4. goal.user[1] = a
  BY <1>3 DEF Got
<1>5. AtCall = {a}
  BY <1>2, <1>4 DEF AtCall
<1>6. /\ breg \in {1, 2} /\ (breg = 2 => cps[2].pc = "trie") /\ sf[u].complete
      /\ {a} \cap InTrie = {} /\ Range(results[q]) \cap ({a} \cup InTrie) = {}
      /\ Range(results[q]) \cup {a} \cup InTrie = Range(sf[u].answers)
  BY <1>2, <1>5 DEF Serves
<1>7. results \in Seq(Seq(Answer)) /\ q \in DOMAIN results /\ results[q] \in Seq(Answer)
  <2>1. results \in Seq(Seq(Answer)) /\ q = Len(results) /\ q > 0 /\ q \in Nat
    BY <1>1, <1>2 DEF Typed
  <2> QED  BY <2>1
<1>8. results'[q] = Append(results[q], a)
  BY <1>2, <1>4, <1>7
<1>9. IsInjective(Append(results[q], a)) /\ Range(Append(results[q], a)) = Range(results[q]) \cup {a}
  <2>1. a \notin Range(results[q])
    BY <1>6
  <2> QED  BY <1>7, <2>1, InjectiveAppend
<1>10. AtCall' = {} /\ InTrie' = InTrie /\ ~ running'
  BY <1>2 DEF AtCall, InTrie, Fail1
<1>11. Serves(q, u)'
  BY <1>2, <1>6, <1>8, <1>9, <1>10 DEF Serves
<1> QED  BY <1>2, <1>6, <1>7, <1>8, <1>9, <1>11

\* The program asks for the next answer.
LEMMA NextOfTrieServes ==
  ASSUME OrderInv, openreg = 0, NextOfTrie, breg >= 2, cps[breg].ptcp = User, cps[breg] \in Entry, ~ running,
         NEW q, q = query, NEW u, Serves(q, u)
  PROVE  Serves(q, u)'
<1>1. Typed /\ StackInv
  BY DEF OrderInv
<1>2. AtCall = {}
  BY DEF AtCall
<1>3. /\ breg = 2 /\ cps[2].pc = "trie" /\ sf[u].complete
      /\ Range(results[q]) \cap InTrie = {} /\ Range(results[q]) \cup InTrie = Range(sf[u].answers)
  BY <1>2 DEF Serves
<1>4. InTrie = cps[2].left
  BY <1>3 DEF InTrie
<1>5. PICK a \in cps[2].left :
        /\ IF cps[2].left = {a} THEN breg' = cps[2].prev /\ cps' = cps
                                ELSE cps' = [cps EXCEPT ![2].left = @ \ {a}] /\ breg' = breg
        /\ Return(a, cps[2].cont, User)
  BY <1>3 DEF NextOfTrie
<1>6. UNCHANGED <<sf, results>>
  BY DEF NextOfTrie
<1>7. running' /\ goal' = Got(a)
  BY <1>5 DEF Return, Run
<1>8. goal' # Asking /\ goal'.user[1] = a
  BY <1>7 DEF Got, Asking
<1>9. AtCall' = {a}
  BY <1>7, <1>8 DEF AtCall
<1>10. cps[2].prev = 1
  <2>1. top_of_cpstack = 2
    BY <1>3, ClosedStacks
  <2>2. 2 \in 2..top_of_cpstack
    BY <2>1
  <2>3. LinksAreAlive(top_of_cpstack)
    BY <1>1 DEF StackInv, Stacked
  <2>4. cps[2].prev >= 1 /\ cps[2].prev < 2
    BY <1>3, <2>2, <2>3 DEF LinksAreAlive
  <2>5. cps[2].prev \in Nat
    BY <1>3 DEF Entry
  <2> QED  BY <2>4, <2>5
<1>11. CASE cps[2].left = {a}
  <2>1. breg' = 1 /\ InTrie' = {}
    BY <1>5, <1>10, <1>11 DEF InTrie
  <2> QED  BY <1>3, <1>4, <1>6, <1>8, <1>9, <1>11, <2>1 DEF Serves
<1>12. CASE cps[2].left # {a}
  <2>1. cps' = [cps EXCEPT ![2].left = @ \ {a}] /\ breg' = 2
    BY <1>3, <1>5, <1>12
  <2>2. 2 \in DOMAIN cps
    <3>1. cps \in Seq(Entry) /\ breg \in 1..Len(cps)
      BY <1>1 DEF Typed
    <3> QED  BY <1>3, <3>1
  <2>3. cps'[2].left = cps[2].left \ {a} /\ cps'[2].pc = "trie"
    BY <1>3, <2>1, <2>2 DEF Entry
  <2>4. InTrie' = cps[2].left \ {a}
    BY <2>1, <2>3 DEF InTrie
  <2> QED  BY <1>3, <1>4, <1>6, <1>8, <1>9, <2>1, <2>3, <2>4 DEF Serves
<1> QED  BY <1>11, <1>12

\* The program calls a complete table.
LEMMA CallCompletedServes ==
  ASSUME OrderInv, openreg = 0, NEW u \in Subgoal, CallCompleted(u), running, goal = Asking, ptcpreg = User,
         NEW q, q = query, Serves(q, u)
  PROVE  Serves(q, u)'
<1>1. Typed /\ results[q] = <<>> /\ breg = 1 /\ top_of_cpstack = 1
  BY ClosedStacks DEF OrderInv, Serves
<1>2. sf[u].complete /\ UNCHANGED <<sf, results>>
  BY DEF CallCompleted
<1>l. PICK left : left = Range(sf[u].answers)
  OBVIOUS
<1>3. CASE sf[u].answers = <<>>
  <2>1. breg' = 1 /\ ~ running'
    BY <1>1, <1>3 DEF CallCompleted, Fail1
  <2> QED  BY <1>1, <1>2, <1>3, <2>1, NoneServed
<1>4. CASE sf[u].answers # <<>>
  <2>1. TrieReturn(left, cps, 1, 1, Asking, User)
    BY <1>1, <1>4, <1>l DEF CallCompleted
  <2>2. PICK a \in left :
          /\ IF left = {a} THEN cps' = cps /\ breg' = 1
                           ELSE cps' = Push(cps, 1, TrieChoicePoint(left \ {a}, Asking, User, 1)) /\ breg' = 1 + 1
          /\ Return(a, Asking, User)
    BY <2>1 DEF TrieReturn
  <2>3. running' /\ goal' = Got(a)
    BY <2>2 DEF Return, Run
  <2>4. left # {a} => breg' = 2 /\ cps'[2].pc = "trie" /\ cps'[2].left = left \ {a}
    <3>1. cps \in Seq(Entry) /\ 1 \in 0..Len(cps) /\ left \subseteq Answer
      <4>1. cps \in Seq(Entry) /\ breg \in 1..Len(cps) /\ sf[u].answers \in Seq(Answer)
        BY <1>1, TableTyped DEF Typed
      <4> QED  BY <1>1, <1>l, <4>1, RangeOfSeq
    <3>r. PICK rest : rest = left \ {a}
      OBVIOUS
    <3>2. rest \in SUBSET Answer /\ 1 \in Nat /\ Asking \in Goal \cup {Asking} /\ User \in Subgoal \cup {User}
      BY <3>1, <3>r
    <3>n. PICK new : new = Push(cps, 1, TrieChoicePoint(rest, Asking, User, 1))
      OBVIOUS
    <3>3. new[1 + 1].pc = "trie" /\ new[1 + 1].left = rest
      BY <3>1, <3>2, <3>n, PushedTrie
    <3>4. left # {a} => cps' = new /\ breg' = 1 + 1
      BY <2>2, <3>r, <3>n
    <3>5. 1 + 1 = 2
      OBVIOUS
    <3> QED  BY <3>r, <3>3, <3>4, <3>5
  <2> QED  BY <1>1, <1>2, <1>l, <2>2, <2>3, <2>4, FirstServed
<1> QED  BY <1>3, <1>4

LEMMA QueryStep == OrderInv /\ WorkInv /\ CallInv /\ Next => QueryIsServed'
<1> SUFFICES ASSUME OrderInv, WorkInv, QueryIsServed, ResultsAreKept, Next  PROVE QueryIsServed'
  BY DEF CallInv
<1>1. Typed /\ AnswersAreCounted /\ openreg \in Nat /\ query \in Nat
  BY DEF OrderInv, WorkInv, Typed
<1>q. PICK q, r, u, v : q = query /\ r = query' /\ u = Query[q] /\ v = Query[r]
  OBVIOUS
<1>2. SUFFICES ASSUME r > 0
               PROVE  IF openreg' > 0 THEN results'[r] = <<>> /\ frames'[1].subgoal = v /\ sf'[v].cp = 2
                                      ELSE Serves(r, v)'
  BY <1>q DEF QueryIsServed
<1>3. q > 0 => IF openreg > 0 THEN results[q] = <<>> /\ frames[1].subgoal = u /\ sf[u].cp = 2
                              ELSE Serves(q, u)
  BY <1>q DEF QueryIsServed
<1>4. CASE openreg > 0 /\ ~ \E s \in Subgoal : Complete(s)
  <2>1. /\ openreg' > 0 /\ frames'[1].subgoal = frames[1].subgoal
        /\ sf'[frames[1].subgoal].cp = sf[frames[1].subgoal].cp
        /\ UNCHANGED <<query, results>>
    BY <1>1, <1>4, OpenStays
  <2> QED  BY <1>2, <1>3, <1>4, <1>q, <2>1
<1>5. ASSUME openreg > 0, NEW s \in Subgoal, Complete(s)
      PROVE  IF openreg' > 0 THEN results'[r] = <<>> /\ frames'[1].subgoal = v /\ sf'[v].cp = 2
                             ELSE Serves(r, v)'
  <2>1. r = q
    BY <1>5, <1>q DEF Complete
  <2> QED  BY <1>2, <1>5, <1>q, <2>1, CompleteServes
<1>6. CASE openreg = 0
  <2>1. CASE UserAnswer /\ goal # Asking
    <3>1. r = q /\ openreg' = openreg
      BY <1>q, <2>1 DEF UserAnswer
    <3>2. IsInjective(results[q])
      <4>1. q \in DOMAIN results
        BY <1>1, <1>2, <1>q, <3>1 DEF Typed
      <4> QED  BY <4>1 DEF ResultsAreKept
    <3>3. Serves(q, u)'
      BY <1>2, <1>3, <1>6, <1>q, <2>1, <3>1, <3>2, UserAnswerServes
    <3> QED  BY <1>6, <1>q, <3>1, <3>3
  <2>2. CASE NextQuery /\ breg = 1
    <3>1. r = q + 1 /\ openreg' = openreg /\ breg' = breg /\ results' = Append(results, <<>>) /\ Run(Asking, User)
      BY <1>q, <2>2 DEF NextQuery
    <3>2. results'[r] = <<>>
      BY <1>1, <1>q, <3>1 DEF Typed
    <3>3. Serves(r, v)'
      BY <2>2, <3>1, <3>2 DEF Serves, Run
    <3> QED  BY <1>6, <3>1, <3>3
  <2>3. CASE NextOfTrie /\ ~ running /\ breg >= 2 /\ cps[breg].ptcp = User /\ cps[breg] \in Entry
    <3>1. r = q /\ openreg' = openreg
      BY <1>q, <2>3 DEF NextOfTrie
    <3>2. Serves(q, u)'
      BY <1>2, <1>3, <1>6, <1>q, <2>3, <3>1, NextOfTrieServes
    <3> QED  BY <1>6, <1>q, <3>1, <3>2
  <2>4. ASSUME NEW s \in Subgoal, NewProducer(s), running, goal = Asking, query > 0, s = Query[query]
        PROVE  openreg' > 0 /\ results'[r] = <<>> /\ frames'[1].subgoal = v /\ sf'[v].cp = 2
    <3>1. r = q /\ results' = results /\ s = v
      BY <1>q, <2>4 DEF NewProducer
    <3>2. results[q] = <<>> /\ breg = 1
      BY <1>3, <1>6, <1>q, <2>4 DEF Serves
    <3>3. top_of_cpstack = 1
      BY <1>6, <3>2, ClosedStacks
    <3>4. openreg' = openreg + 1 /\ frames'[openreg + 1].subgoal = s /\ sf'[s].cp = top_of_cpstack + 1
      BY <1>1, <2>4, NewProducerFacts
    <3> QED  BY <1>6, <3>1, <3>2, <3>3, <3>4
  <2>5. ASSUME NEW s \in Subgoal, CallCompleted(s), running, goal = Asking, ptcpreg = User, query > 0, s = Query[query]
        PROVE  openreg' = openreg /\ Serves(r, v)'
    <3>1. r = q /\ openreg' = openreg /\ s = v
      BY <1>q, <2>5 DEF CallCompleted
    <3>2. Serves(q, s)'
      BY <1>3, <1>6, <1>q, <2>5, CallCompletedServes
    <3> QED  BY <3>1, <3>2
  <2> QED  BY <1>1, <1>6, <2>1, <2>2, <2>3, <2>4, <2>5, ClosedNext
<1> QED  BY <1>1, <1>4, <1>5, <1>6

LEMMA ResultsStep == OrderInv /\ WorkInv /\ CallInv /\ Next => ResultsAreKept'
<1> SUFFICES ASSUME OrderInv, WorkInv, QueryIsServed, ResultsAreKept, Next  PROVE ResultsAreKept'
  BY DEF CallInv
<1>q. PICK q : q = query
  OBVIOUS
<1>1. /\ Typed /\ AnswersAreCounted /\ openreg \in Nat /\ q \in Nat /\ q <= Len(Query)
      /\ results \in Seq(Seq(Answer)) /\ DOMAIN results = 1..q
  BY <1>q DEF OrderInv, WorkInv, Typed
<1>2. \A i \in 1..Len(Query) : Query[i] \in Subgoal
  BY ProgramAssumption
<1>3. \A t \in Subgoal : /\ sf[t].complete => sf'[t].complete /\ sf'[t].answers = sf[t].answers
                         /\ Range(sf[t].answers) \subseteq Range(sf'[t].answers)
  BY <1>1, TablesGrow
<1>4. ASSUME NEW i \in 1..q
      PROVE  /\ Query[i] \in Subgoal
             /\ IsInjective(results[i]) /\ Range(results[i]) \subseteq Range(sf[Query[i]].answers)
             /\ i < q => sf[Query[i]].complete /\ Range(sf[Query[i]].answers) = Range(results[i])
  <2>1. i \in 1..Len(Query)
    BY <1>1
  <2> QED  BY <1>1, <1>2, <1>q, <2>1 DEF ResultsAreKept
<1>5. ASSUME NEW i \in 1..q, results'[i] = results[i]
      PROVE  /\ IsInjective(results'[i]) /\ Range(results'[i]) \subseteq Range(sf'[Query[i]].answers)
             /\ i < q => sf'[Query[i]].complete /\ Range(sf'[Query[i]].answers) = Range(results'[i])
  BY <1>3, <1>4, <1>5
<1>6. CASE UNCHANGED <<query, results>>
  BY <1>1, <1>5, <1>6, <1>q DEF ResultsAreKept
<1>7. CASE UserAnswer
  <2>1. openreg = 0 /\ goal # Asking /\ query' = query /\ sf' = sf
    <3>1. ~ (openreg > 0)
      BY <1>7, OpenWaits
    <3> QED  BY <1>1, <1>7, <3>1 DEF UserAnswer
  <2>2. q > 0 /\ q \in 1..q
    BY <1>1, <1>7, <1>q DEF UserAnswer, Typed
  <2>u. PICK u : u = Query[q]
    OBVIOUS
  <2>3. Serves(q, u)
    BY <1>q, <2>1, <2>2, <2>u DEF QueryIsServed
  <2>4. IsInjective(results[q])
    BY <1>4, <2>2
  <2>5. /\ IsInjective(results'[q]) /\ Range(results'[q]) \subseteq Range(sf[u].answers)
        /\ \A i \in DOMAIN results : i # q => results'[i] = results[i]
        /\ DOMAIN results' = DOMAIN results
    BY <1>7, <1>q, <2>1, <2>3, <2>4, UserAnswerServes
  <2>6. ASSUME NEW i \in 1..q
        PROVE  /\ IsInjective(results'[i]) /\ Range(results'[i]) \subseteq Range(sf'[Query[i]].answers)
               /\ i < q => sf'[Query[i]].complete /\ Range(sf'[Query[i]].answers) = Range(results'[i])
    <3>1. CASE i = q
      BY <1>1, <2>1, <2>5, <2>u, <3>1
    <3>2. CASE i # q
      BY <1>1, <1>5, <2>5, <3>2
    <3> QED  BY <3>1, <3>2
  <2> QED  BY <1>1, <1>q, <2>1, <2>5, <2>6 DEF ResultsAreKept
<1>8. CASE NextQuery
  <2>1. query' = q + 1 /\ results' = Append(results, <<>>) /\ sf' = sf
    BY <1>8, <1>q DEF NextQuery
  <2>2. openreg = 0
    <3>1. ~ (openreg > 0)
      BY <1>8, OpenWaits
    <3> QED  BY <1>1, <3>1
  <2>3. ~ running /\ breg = 1
    BY <1>8, <2>2, ClosedNext DEF NextQuery, FailTo, UserAnswer, NextOfTrie
  <2>4. DOMAIN results' = 1..q + 1 /\ results'[q + 1] = <<>> /\ \A i \in 1..q : results'[i] = results[i]
    BY <1>1, <2>1
  <2>5. q > 0 => sf[Query[q]].complete /\ Range(sf[Query[q]].answers) = Range(results[q])
    <3>1. q > 0 => Serves(q, Query[q])
      BY <1>q, <2>2 DEF QueryIsServed
    <3>2. AtCall = {} /\ InTrie = {}
      BY <2>3 DEF AtCall, InTrie
    <3> QED  BY <2>3, <3>1, <3>2 DEF Serves
  <2>6. ASSUME NEW i \in 1..q + 1
        PROVE  /\ IsInjective(results'[i]) /\ Range(results'[i]) \subseteq Range(sf'[Query[i]].answers)
               /\ i < q + 1 => sf'[Query[i]].complete /\ Range(sf'[Query[i]].answers) = Range(results'[i])
    <3>0. IsInjective(<<>>) /\ Range(<<>>) = {}
      BY DEF IsInjective, Range
    <3>1. CASE i = q + 1
      <4>1. results'[i] = <<>> /\ ~ (i < q + 1)
        BY <1>1, <2>4, <3>1
      <4>2. IsInjective(results'[i]) /\ Range(results'[i]) = {}
        BY <3>0, <4>1
      <4>3. Range(results'[i]) \subseteq Range(sf'[Query[i]].answers)
        BY <4>2
      <4> QED  BY ONLY <4>1, <4>2, <4>3
    <3>2. CASE i = q
      <4>1. i \in 1..q /\ results'[i] = results[i] /\ q > 0
        BY <1>1, <2>4, <3>2
      <4> QED  BY <1>5, <2>1, <2>5, <3>2, <4>1
    <3>3. CASE i < q
      <4>1. i \in 1..q /\ results'[i] = results[i]
        BY <1>1, <2>4, <3>3
      <4> QED  BY <1>5, <3>3, <4>1
    <3> QED  BY <1>1, <3>1, <3>2, <3>3
  <2> QED  BY <2>1, <2>4, <2>6 DEF ResultsAreKept
<1>9. UserAnswer \/ NextQuery \/ UNCHANGED <<query, results>>
  BY DEF Next, NewProducer, CallCompleted, Consume, NewAnswer, ScheduleOwn, ScheduleFollowers,
         makeConsumerFromGenerator, Complete, NextClause, NextOfTrie, AnswerReturn
<1> QED  BY <1>6, <1>7, <1>8, <1>9

LEMMA CallStep == OrderInv /\ WorkInv /\ CallInv /\ [Next]_vars => CallInv'
<1>1. CallInv /\ UNCHANGED vars => CallInv'
  BY DEF CallInv, QueryIsServed, ResultsAreKept, Serves, AtCall, InTrie, vars
<1> QED  BY <1>1, QueryStep, ResultsStep DEF CallInv

LEMMA InitCall == Init => CallInv
BY DEF Init, CallInv, QueryIsServed, ResultsAreKept

\* A sequence that lists each member of a set once is as long as another that does.
LEMMA InjectiveLength ==
  ASSUME NEW S, NEW s \in Seq(S), NEW t \in Seq(S), IsInjective(s), IsInjective(t), Range(s) = Range(t)
  PROVE  Len(s) = Len(t)
<1>1. ASSUME NEW list \in Seq(S), IsInjective(list)  PROVE Cardinality(Range(list)) = Len(list)
  <2>1. Len(list) \in Nat /\ DOMAIN list = 1..Len(list)
    OBVIOUS
  <2>2. list \in [1..Len(list) -> Range(list)]
    BY DEF Range
  <2>3. list \in Bijection(1..Len(list), Range(list))
    BY <1>1, <2>1, <2>2 DEF Bijection, Injection, Surjection, IsInjective, Range
  <2> QED  BY <2>1, <2>3, FS_CountingElements DEF ExistsBijection
<1> QED  BY <1>1

\* What the choice points, the completion stack, the tables and the program's call have to do with
\* one another, for every program.
THEOREM EngineInvariant == Spec => []EngineInv
<1>1. Init => OrderInv /\ WorkInv /\ CallInv
  BY InitOrder, InitWork, InitCall
<1>2. OrderInv /\ WorkInv /\ CallInv /\ [Next]_vars => (OrderInv /\ WorkInv /\ CallInv)'
  BY OrderStep, WorkStep, CallStep
<1> QED  BY <1>1, <1>2, PTL DEF Spec, EngineInv

\* The program is returned each answer of each of its calls exactly once: it goes on to the next
\* call, or ends, only when the table of this one is complete and it has had all its answers.
THEOREM EveryAnswerOnce == Spec => []CallsGetEveryAnswerOnce
<1>1. EngineInv => CallsGetEveryAnswerOnce
  <2> SUFFICES ASSUME OrderInv, QueryIsServed, ResultsAreKept, NEW q \in DOMAIN results
               PROVE  /\ IsInjective(results[q])
                      /\ Range(results[q]) \subseteq Range(sf[Query[q]].answers)
                      /\ q < query \/ Finished =>
                           sf[Query[q]].complete /\ Len(results[q]) = Len(sf[Query[q]].answers)
    BY DEF EngineInv, CallInv, CallsGetEveryAnswerOnce
  <2>1. Typed /\ TablesAreSound /\ q \in 1..query /\ query \in Nat /\ query <= Len(Query) /\ openreg \in Nat
        /\ results[q] \in Seq(Answer)
    BY DEF OrderInv, Typed
  <2>2. Query[q] \in Subgoal
    <3>1. q \in 1..Len(Query)
      BY <2>1
    <3> QED  BY <3>1, ProgramAssumption
  <2>3. sf[Query[q]].answers \in Seq(Answer) /\ IsInjective(sf[Query[q]].answers)
    BY <2>1, <2>2, TableTyped DEF TablesAreSound
  <2>4. ASSUME q < query \/ Finished
        PROVE  sf[Query[q]].complete /\ Range(sf[Query[q]].answers) = Range(results[q])
    <3>1. CASE q < query
      BY <3>1 DEF ResultsAreKept
    <3>2. CASE q = query /\ Finished
      <4>1. ~ running /\ cps[breg].pc = "query"
        BY <3>2 DEF Finished, FailTo
      <4>2. openreg = 0
        <5>1. ~ (openreg > 0)
          <6>1. breg \in 1..top_of_cpstack
            <7>1. breg \in Nat /\ breg >= 1 /\ breg <= top_of_cpstack /\ top_of_cpstack \in Nat
              BY <2>1, Tops DEF Typed
            <7> QED  BY <7>1
          <6>2. breg = 1
            BY <4>1, <6>1 DEF OrderInv, StackInv, Stacked, EntriesAreAlive
          <6> QED  BY <6>2, OpenWaits
        <5> QED  BY <2>1, <5>1
      <4>3. breg = 1
        BY <4>1, <4>2, ClosedStacks
      <4>4. AtCall = {} /\ InTrie = {}
        BY <4>1, <4>3 DEF AtCall, InTrie
      <4>5. Serves(q, Query[q])
        BY <2>1, <3>2, <4>2 DEF QueryIsServed
      <4> QED  BY <4>1, <4>4, <4>5 DEF Serves
    <3> QED  BY <2>1, <2>4, <3>1, <3>2
  <2>5. Range(sf[Query[q]].answers) = Range(results[q]) => Len(results[q]) = Len(sf[Query[q]].answers)
    <3>1. IsInjective(results[q])
      BY DEF ResultsAreKept
    <3> QED  BY <2>1, <2>3, <3>1, InjectiveLength
  <2> QED  BY <2>4, <2>5 DEF ResultsAreKept
<1> QED  BY <1>1, EngineInvariant, PTL

=================================================================================
