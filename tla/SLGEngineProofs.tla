---------------------------- MODULE SLGEngineProofs ----------------------------
(***************************************************************************)
(* Proofs about SLGEngine, for any program: a push and a pop of its        *)
(* stacks, then its types, and each action.                                *)
(***************************************************************************)
EXTENDS SLGEngineInvariant, SequenceTheorems, WellFoundedInduction, TLAPS

LEMMA Tops ==
  ASSUME Typed
  PROVE  /\ top_of_cpstack \in 1..Len(cps) /\ breg <= top_of_cpstack /\ bfreg <= top_of_cpstack
         /\ top_of_cpstack = breg \/ top_of_cpstack = bfreg
         /\ breg \in Nat /\ bfreg \in Nat /\ Len(cps) \in Nat
BY DEF Typed, top_of_cpstack, Higher

LEMMA EntryTyped ==
  ASSUME Typed, NEW i \in 1..Len(cps)
  PROVE  /\ cps[i] \in Entry /\ cps[i].prev \in Nat /\ cps[i].bfreg \in Nat /\ cps[i].ret \in Nat
         /\ cps[i].next \in Nat /\ cps[i].ptcp \in Subgoal \cup {User} /\ cps[i].left \subseteq Answer
<1>1. cps[i] \in Entry
  BY DEF Typed
<1> QED  BY <1>1 DEF Entry

LEMMA TableTyped ==
  ASSUME Typed, NEW s \in Subgoal
  PROVE  /\ sf[s] \in SubgoalFrame /\ sf[s].answers \in Seq(Answer) /\ sf[s].cp \in Nat
         /\ sf[s].asf \in Seq(Nat) /\ sf[s].frame \in Nat
         /\ sf[s].called \in BOOLEAN /\ sf[s].complete \in BOOLEAN /\ sf[s].reclaimed \in BOOLEAN
<1>1. sf[s] \in SubgoalFrame
  BY DEF Typed
<1> QED  BY <1>1 DEF SubgoalFrame

LEMMA ConsumersTyped ==
  ASSUME Typed, NEW s \in Subgoal
  PROVE  Consumers(s) \subseteq Nat
BY TableTyped DEF Consumers, Range

\* The new top of the stack, and what is under it.
LEMMA Pushed ==
  ASSUME NEW S, NEW stack \in Seq(S), NEW top \in 0..Len(stack), NEW x \in S
  PROVE  LET t == Push(stack, top, x) IN
         /\ t \in Seq(S) /\ Len(t) = top + 1 /\ t[top + 1] = x
         /\ \A i \in 1..top : t[i] = stack[i]
<1>1. SubSeq(stack, 1, top) \in Seq(S) /\ Len(SubSeq(stack, 1, top)) = top
      /\ \A i \in 1..top : SubSeq(stack, 1, top)[i] = stack[i]
  BY SubSeqProperties
<1> QED  BY <1>1 DEF Push

LEMMA FrameTyped ==
  ASSUME Typed, NEW f \in 1..openreg
  PROVE  /\ openreg \in Nat /\ f \in 1..Len(frames)
         /\ frames[f].subgoal \in Subgoal /\ frames[f].level \in Nat
<1>1. openreg \in Nat /\ f \in 1..Len(frames)
  BY DEF Typed
<1>2. frames[f] \in CompletionFrame
  BY <1>1 DEF Typed
<1> QED  BY <1>1, <1>2 DEF CompletionFrame

LEMMA OpenTyped ==
  ASSUME Typed, StackInv, NEW s \in Subgoal, OpenTable(s)
  PROVE  /\ sf[s].cp \in 2..top_of_cpstack /\ sf[s].cp \in 1..Len(cps) /\ cps[sf[s].cp].subgoal = s
         /\ sf[s].frame \in 1..openreg /\ frames[sf[s].frame].subgoal = s
         /\ openreg \in Nat /\ (IsGenerator(sf[s].cp) \/ sf[s].cp \in Consumers(s))
BY SMTT(30), Tops DEF StackInv, Stacked, FramesHoldTables, TablesAreOnStack, Typed

LEMMA AgeOrder ==
  ASSUME Typed, StackInv, NEW s \in Subgoal, OpenTable(s), NEW t \in Subgoal, OpenTable(t)
  PROVE  /\ sf[s].frame < sf[t].frame <=> sf[s].cp < sf[t].cp
         /\ sf[s].frame = sf[t].frame <=> s = t
         /\ sf[s].cp = sf[t].cp <=> s = t
BY OpenTyped DEF StackInv, FramesHoldTables

\* The oldest table leads; so while a table is open, the program's own call waits.
LEMMA OldestLeads ==
  ASSUME Typed, StackInv, openreg > 0
  PROVE  LET s == frames[1].subgoal IN
         /\ s \in Subgoal /\ OpenTable(s) /\ sf[s].frame = 1 /\ Leads(s)
         /\ IsGenerator(sf[s].cp) /\ sf[s].cp <= breg /\ sf[s].cp = root_address
<1> DEFINE s == frames[1].subgoal
<1>1. 1 \in 1..openreg /\ openreg <= Len(frames) /\ 1 \in 1..Len(frames) /\ openreg \in Nat
  BY DEF Typed
<1>2. s \in Subgoal /\ OpenTable(s) /\ sf[s].frame = 1 /\ sf[s].cp = root_address
  BY <1>1, FrameTyped DEF StackInv, FramesHoldTables
<1>3. Leads(s)
  BY <1>1, <1>2 DEF Leads, is_leader, StackInv, LevelsNested
<1>4. IsGenerator(sf[s].cp)
  BY <1>2, <1>3 DEF StackInv, LeadersLeaveRest
<1>5. sf[s].cp <= breg
  BY <1>2, <1>4, OpenTyped, Tops DEF StackInv, Stacked, WaitsBelow, Waits
<1> QED  BY <1>2, <1>3, <1>4, <1>5

--------------------------------------------------------------------------------
(* Steps that keep to the choice points and tables there are. *)

\* The choice points are as before, but that generators may have run out of clauses, tries
\* returned answers, and consumers newer than breg been scheduled.
Rescheduled(i) ==
  /\ cps[i].pc = "answer_return" /\ breg < i /\ breg <= cps'[i].prev
  /\ cps'[i].prev = breg \/ \E t \in Subgoal : OpenTable(t) /\ cps'[i].prev \in Consumers(t)
SameEntry(i) ==
  /\ cps'[i].subgoal = cps[i].subgoal /\ cps'[i].cont = cps[i].cont
  /\ cps'[i].ptcp = cps[i].ptcp /\ cps'[i].bfreg = cps[i].bfreg
  /\ cps'[i].pc = cps[i].pc \/ (IsGenerator(i) /\ cps'[i].pc = "check_complete")
  /\ cps'[i].left \subseteq cps[i].left
  /\ cps'[i].prev = cps[i].prev \/ Rescheduled(i)
SameTable(t) ==
  /\ OpenTable(t)' = OpenTable(t) /\ sf'[t].cp = sf[t].cp /\ sf'[t].asf = sf[t].asf
  /\ sf'[t].frame = sf[t].frame /\ (sf[t].complete => sf'[t].complete)
KeepsStacks ==
  /\ UNCHANGED <<frames, openreg, level_num, root_address, bfreg>>
  /\ \A t \in Subgoal : SameTable(t) /\ tree[t] \subseteq tree'[t]
  /\ \A i \in 1..top_of_cpstack : SameEntry(i)

\* What has been waiting less.
LEMMA WaitsStill ==
  ASSUME Typed, NEW q \in 1..Len(cps),
         /\ cps'[q].cont = cps[q].cont /\ cps'[q].ptcp = cps[q].ptcp
         /\ cps'[q].pc = cps[q].pc \/ (IsGenerator(q) /\ cps'[q].pc = "check_complete")
         /\ cps'[q].left \subseteq cps[q].left,
         \A t \in Subgoal : (sf[t].complete => sf'[t].complete) /\ tree[t] \subseteq tree'[t]
  PROVE  Waits(q)' => Waits(q)
<1> SUFFICES ASSUME Waits(q)', ~ IsGenerator(q)  PROVE Waits(q)
  BY DEF Waits
<1>1. cps'[q].pc = cps[q].pc /\ ~ IsGenerator(q)'
  BY DEF IsGenerator
<1>2. ReturnsMore(q)'
  BY <1>1 DEF Waits
<1>3. cps[q].ptcp \in Subgoal \cup {User}
  BY EntryTyped
<1>4. ReturnsMore(q)
  BY <1>1, <1>2, <1>3 DEF ReturnsMore
<1> QED  BY <1>4 DEF Waits

LEMMA QuietWaits ==
  ASSUME Typed, KeepsStacks, NEW q \in 1..top_of_cpstack
  PROVE  /\ Waits(q)' => Waits(q)
         /\ IsGenerator(q)' <=> IsGenerator(q)
<1>1. q \in 1..Len(cps) /\ SameEntry(q)
  BY Tops DEF KeepsStacks
<1>2. Waits(q)' => Waits(q)
  BY <1>1, WaitsStill DEF KeepsStacks, SameEntry, SameTable
<1> QED  BY <1>1, <1>2 DEF SameEntry, IsGenerator

LEMMA QuietFrames ==
  ASSUME Typed, KeepsStacks, StackInv
  PROVE  /\ FramesHoldTables' /\ LevelsNested' /\ LeadersLeaveRest' /\ ConsumersDepend'
         /\ \A t \in Subgoal : (Leads(t)' <=> Leads(t)) /\ Consumers(t)' = Consumers(t)
<1>1. /\ frames' = frames /\ openreg' = openreg /\ level_num' = level_num
      /\ root_address' = root_address /\ bfreg' = bfreg
      /\ \A t \in Subgoal : SameTable(t)
      /\ \A i \in 1..top_of_cpstack : SameEntry(i)
  BY DEF KeepsStacks
<1>2. \A t \in Subgoal : (Leads(t)' <=> Leads(t)) /\ Consumers(t)' = Consumers(t)
  BY <1>1 DEF SameTable, Leads, is_leader, Consumers
<1>3. FramesHoldTables'
  <2>1. \A f \in 1..openreg : frames[f].subgoal \in Subgoal
    BY FrameTyped
  <2> QED  BY <1>1, <2>1, OldestLeads DEF SameTable, StackInv, FramesHoldTables
<1>4. LevelsNested'
  BY <1>1 DEF StackInv, LevelsNested
<1>5. LeadersLeaveRest'
  <2>1. ASSUME NEW s \in Subgoal, OpenTable(s)
        PROVE  cps'[sf[s].cp].bfreg = cps[sf[s].cp].bfreg /\ (IsGenerator(sf[s].cp)' <=> IsGenerator(sf[s].cp))
    <3>1. sf[s].cp \in 1..top_of_cpstack
      BY <2>1, OpenTyped, Tops
    <3> QED  BY <1>1, <3>1, QuietWaits DEF SameEntry, SameTable, IsGenerator
  <2> QED  BY <1>1, <1>2, <2>1 DEF SameTable, StackInv, LeadersLeaveRest, IsGenerator
<1>6. ConsumersDepend'
  <2>1. ASSUME NEW t \in Subgoal, OpenTable(t), NEW c \in Consumers(t)
        PROVE  cps'[c].ptcp = cps[c].ptcp /\ cps[c].ptcp \in Subgoal \cup {User}
    <3>1. c \in 1..top_of_cpstack
      BY <2>1, OpenTyped, Tops, ConsumersTyped DEF StackInv, Stacked, TablesAreOnStack
    <3> QED  BY <1>1, <3>1, EntryTyped, Tops DEF SameEntry
  <2> QED  BY <1>1, <1>2, <2>1 DEF SameTable, StackInv, ConsumersDepend, Dependent
<1> QED  BY <1>2, <1>3, <1>4, <1>5, <1>6

LEMMA QuietStack ==
  ASSUME Typed, KeepsStacks, StackInv, NEW b \in 1..top_of_cpstack, NEW T \in Nat, T = Higher(b, bfreg),
         \A q \in 1..top_of_cpstack : IsGenerator(q) => q <= b,
         WaitsBelow(b, T)'
  PROVE  Stacked(b, T)'
<1>1. /\ bfreg' = bfreg /\ \A t \in Subgoal : SameTable(t)
      /\ \A i \in 1..top_of_cpstack : SameEntry(i)
  BY DEF KeepsStacks
<1>2. top_of_cpstack \in Nat /\ T <= top_of_cpstack /\ bfreg <= T /\ b <= T /\ breg \in Nat /\ breg >= 1 /\ bfreg \in Nat /\ b \in Nat
  BY Tops DEF Higher, Typed
<1>3. \A t \in Subgoal : Consumers(t)' = Consumers(t) /\ Consumers(t) \subseteq Nat
  BY QuietFrames, ConsumersTyped
<1>4. \A q \in 1..T : (Waits(q)' => Waits(q)) /\ (IsGenerator(q)' <=> IsGenerator(q))
  BY <1>2, QuietWaits
<1>5. \A q \in 1..top_of_cpstack : Waits(q) => q <= breg
  BY DEF StackInv, Stacked, WaitsBelow
<1>6. \A i \in 1..T : cps[i].ptcp \in Subgoal \cup {User} /\ cps[i].prev \in Nat
  BY <1>2, EntryTyped, Tops
<1>7. \A i \in 1..T : SameEntry(i) /\ i \in 1..top_of_cpstack
  BY <1>1, <1>2
<1>8. \A i \in 1..T : cps'[i].pc = cps[i].pc \/ (IsGenerator(i) /\ cps'[i].pc = "check_complete")
  BY <1>7 DEF SameEntry
<1>a. EntriesAreAlive(T)'
  <2>1. EntriesAreAlive(top_of_cpstack)
    BY DEF StackInv, Stacked
  <2>2. ASSUME NEW i \in 1..T  PROVE EntriesAreAlive(T)!(i)'
    <3>1. /\ EntriesAreAlive(top_of_cpstack)!(i)
          /\ cps'[i].subgoal = cps[i].subgoal /\ cps'[i].ptcp = cps[i].ptcp /\ cps'[i].bfreg = cps[i].bfreg
      BY <1>7, <2>1 DEF EntriesAreAlive, SameEntry
    <3> QED  BY <1>1, <1>3, <1>4, <1>6, <1>8, <3>1 DEF SameTable, IsGenerator
  <2> QED  BY <2>2 DEF EntriesAreAlive
<1>b. TablesAreOnStack(T)'
  <2>2. ASSUME NEW s \in Subgoal, OpenTable(s)  PROVE TablesAreOnStack(T)!(s)!2'
    <3>1. sf[s].cp \in 2..top_of_cpstack /\ (IsGenerator(sf[s].cp) \/ sf[s].cp \in Consumers(s))
      BY <2>2, OpenTyped
    <3>2. \A c \in Consumers(s) : c <= bfreg /\ cps[c].pc = "answer_return" /\ cps[c].subgoal = s /\ sf[s].cp <= c
      BY <2>2 DEF StackInv, Stacked, TablesAreOnStack
    <3>3. sf[s].cp \in 2..T
      BY <1>2, <3>1, <3>2
    <3>4. \A c \in Consumers(s) : c \in 1..T
      BY <1>2, <1>3, <3>2, <3>3
    <3>5. cps'[sf[s].cp].subgoal = s /\ (IsGenerator(sf[s].cp)' \/ sf[s].cp \in Consumers(s))
      <4>1. sf[s].cp \in 1..T /\ sf'[s].cp = sf[s].cp
        BY <1>1, <3>3 DEF SameTable
      <4>2. cps'[sf[s].cp].subgoal = cps[sf[s].cp].subgoal
        BY <1>7, <4>1 DEF SameEntry
      <4> QED  BY <1>8, <2>2, <3>1, <4>1, <4>2, OpenTyped DEF IsGenerator
    <3>6. \A c \in Consumers(s) : cps'[c].pc = "answer_return" /\ cps'[c].subgoal = s
      BY <1>7, <1>8, <3>2, <3>4 DEF SameEntry, IsGenerator
    <3> QED  BY <1>1, <1>3, <3>2, <3>3, <3>5, <3>6 DEF SameTable
  <2> QED  BY <1>1, <2>2 DEF TablesAreOnStack, SameTable
<1>c. NoneIsSkipped(T)'
  <2> SUFFICES ASSUME NEW i \in 1..T, NEW q \in 1..T, Waits(q)', q < i  PROVE q <= cps'[i].prev
    BY DEF NoneIsSkipped
  <2>1. Waits(q) /\ q <= breg /\ q <= cps[i].prev
    BY <1>4, <1>5, <1>7 DEF StackInv, Stacked, NoneIsSkipped
  <2>2. CASE cps'[i].prev = cps[i].prev
    BY <2>1, <2>2
  <2>3. CASE Rescheduled(i)
    <3>1. breg <= cps'[i].prev
      BY <2>3 DEF Rescheduled
    <3>2. cps'[i].prev \in Nat
      BY <1>2, <1>3, <2>3 DEF Rescheduled
    <3> QED  BY <1>2, <2>1, <3>1, <3>2
  <2> QED  BY <1>7, <2>2, <2>3 DEF SameEntry
<1>d. LinksAreAlive(T)'
  <2>1. LinksAreAlive(top_of_cpstack)
    BY DEF StackInv, Stacked
  <2>2. ASSUME NEW i \in 2..T  PROVE LinksAreAlive(T)!1!(i)'
    <3>1. i \in 1..T /\ LinksAreAlive(top_of_cpstack)!1!(i)
      BY <1>2, <2>1 DEF LinksAreAlive
    <3>2. CASE cps'[i].prev = cps[i].prev
      BY <1>1, <1>3, <1>8, <3>1, <3>2 DEF IsGenerator, SameTable
    <3>3. CASE Rescheduled(i)
      BY <1>1, <1>2, <1>3, <1>8, <3>1, <3>3 DEF IsGenerator, SameTable, Rescheduled
    <3> QED  BY <1>7, <3>1, <3>2, <3>3 DEF SameEntry
  <2>3. ASSUME NEW i \in 2..T, NEW q \in 2..T, IsGenerator(q)', i < q  PROVE cps'[i].prev < q
    <3>1. i \in 1..T /\ q \in 1..T /\ IsGenerator(q)
      BY <1>4, <2>3
    <3>2. cps[i].prev < q /\ q <= breg
      BY <1>2, <1>5, <2>1, <2>3, <3>1 DEF LinksAreAlive, Waits
    <3>3. ~ Rescheduled(i)
      BY <1>2, <2>3, <3>2 DEF Rescheduled
    <3> QED  BY <1>7, <3>1, <3>2, <3>3 DEF SameEntry
  <2> QED  BY <2>2, <2>3 DEF LinksAreAlive
<1>e. ResumesInOrder(T)'
  <2> SUFFICES ASSUME NEW i \in 2..T, cps'[i].ptcp # User, NEW q \in 1..T, Waits(q)', q < i
               PROVE  Precedes(q, cps[i].ptcp)' /\ cps'[i].ptcp = cps[i].ptcp
    BY DEF ResumesInOrder
  <2>1. i \in 1..T /\ cps'[i].ptcp = cps[i].ptcp /\ cps[i].ptcp \in Subgoal /\ cps'[q].ptcp = cps[q].ptcp
    BY <1>6, <1>7 DEF SameEntry
  <2>2. Waits(q) /\ Precedes(q, cps[i].ptcp)
    BY <1>2, <1>4, <1>7, <2>1 DEF StackInv, Stacked, ResumesInOrder
  <2> QED  BY <1>1, <1>8, <2>1, <2>2 DEF Precedes, SameTable, IsGenerator
<1> QED  BY <1>a, <1>b, <1>c, <1>d, <1>e DEF Stacked

LEMMA QuietStep ==
  ASSUME Typed, KeepsStacks, StackInv, NEW b \in 1..top_of_cpstack, breg' = b,
         \A q \in 1..top_of_cpstack : IsGenerator(q) => q <= b,
         \A q \in 1..Higher(b, bfreg) : Waits(q)' => q <= b,
         NEW p \in Subgoal \cup {User}, running' => ptcpreg' = p,
         running' => IF p = User THEN openreg = 0
                     ELSE OpenTable(p) /\ \A q \in 1..top_of_cpstack : Waits(q)' => Precedes(q, p)
  PROVE  StackInv'
<1>1. FramesHoldTables' /\ LevelsNested' /\ LeadersLeaveRest' /\ ConsumersDepend'
  BY QuietFrames
<1>2. PICK T \in Nat : T = Higher(b, bfreg)
  BY Tops DEF Higher
<1>3. top_of_cpstack' = T /\ T <= top_of_cpstack
  BY <1>2, Tops DEF top_of_cpstack, Higher, KeepsStacks
<1>4. Stacked(b, T)'
  BY <1>2, QuietStack DEF WaitsBelow
<1>5. Stacked(breg, top_of_cpstack)'
  BY <1>3, <1>4
<1>6. RunsInOrder'
  <2> SUFFICES ASSUME running'  PROVE RunsInOrder!2'
    BY DEF RunsInOrder
  <2>1. CASE p = User
    BY <2>1 DEF KeepsStacks
  <2>2. CASE p # User
    <3>1. p \in Subgoal /\ SameTable(p) /\ OpenTable(p)'
      BY <2>2 DEF KeepsStacks, SameTable
    <3>2. ASSUME NEW q \in 1..T, Waits(q)'  PROVE Precedes(q, p)'
      <4>1. Precedes(q, p) /\ SameEntry(q)
        BY <1>3, <2>2, <3>2, Tops DEF KeepsStacks
      <4> QED  BY <3>1, <4>1 DEF Precedes, SameEntry, SameTable, IsGenerator
    <3> QED  BY <1>3, <2>2, <3>1, <3>2
  <2> QED  BY <2>1, <2>2
<1> QED  BY <1>1, <1>5, <1>6 DEF StackInv

LEMMA UserAnswerStack == Typed /\ StackInv /\ UserAnswer => StackInv'
<1> SUFFICES ASSUME Typed, StackInv, UserAnswer  PROVE StackInv'
  OBVIOUS
<1>1. KeepsStacks
  BY DEF UserAnswer, Fail1, KeepsStacks, SameTable, SameEntry, OpenTable
<1>2. \A q \in 1..top_of_cpstack : (Waits(q)' => q <= breg) /\ (IsGenerator(q) => q <= breg)
  BY <1>1, QuietWaits DEF StackInv, Stacked, WaitsBelow, Waits
<1>3. breg \in 1..top_of_cpstack /\ Higher(breg, bfreg) = top_of_cpstack
  BY Tops DEF Typed, top_of_cpstack
<1>4. breg' = breg /\ ~ running' /\ User \in Subgoal \cup {User}
  BY DEF UserAnswer, Fail1
<1> QED  BY <1>1, <1>2, <1>3, <1>4, QuietStep

LEMMA NextQueryStack == Typed /\ StackInv /\ NextQuery => StackInv' /\ top_of_cpstack = 1 /\ openreg = 0
<1> SUFFICES ASSUME Typed, StackInv, NextQuery  PROVE StackInv' /\ top_of_cpstack = 1 /\ openreg = 0
  OBVIOUS
<1>1. KeepsStacks
  BY DEF NextQuery, Run, KeepsStacks, SameTable, SameEntry, OpenTable
<1>2. \A q \in 1..top_of_cpstack : (Waits(q)' => q <= breg) /\ (IsGenerator(q) => q <= breg)
  BY <1>1, QuietWaits DEF StackInv, Stacked, WaitsBelow, Waits
<1>3. breg \in 1..top_of_cpstack /\ Higher(breg, bfreg) = top_of_cpstack
  BY Tops DEF Typed, top_of_cpstack
<1>4. breg = 1
  BY <1>3 DEF StackInv, Stacked, EntriesAreAlive, NextQuery, FailTo
<1>5. openreg = 0
  <2> SUFFICES ASSUME openreg > 0  PROVE FALSE
    BY DEF Typed
  <2> QED  BY <1>4, OldestLeads, OpenTyped, Tops
<1>6. bfreg = 1
  BY <1>5 DEF StackInv, FramesHoldTables
<1>7. breg' = breg /\ ptcpreg' = User /\ User \in Subgoal \cup {User}
  BY DEF NextQuery, Run
<1>8. StackInv'
  BY <1>1, <1>2, <1>3, <1>5, <1>7, QuietStep
<1> QED  BY <1>4, <1>5, <1>6, <1>8 DEF top_of_cpstack, Higher

LEMMA NextClauseStack == Typed /\ StackInv /\ NextClause => StackInv'
<1> SUFFICES ASSUME Typed, StackInv, NextClause  PROVE StackInv'
  OBVIOUS
<1> DEFINE s == cps[breg].subgoal
<1>1. breg \in 1..top_of_cpstack /\ breg \in 1..Len(cps) /\ Higher(breg, bfreg) = top_of_cpstack
  BY Tops DEF Typed, top_of_cpstack
<1>2. IsGenerator(breg) /\ s \in Subgoal /\ OpenTable(s) /\ sf[s].cp = breg
  BY <1>1 DEF NextClause, FailTo, StackInv, Stacked, EntriesAreAlive, IsGenerator
<1>3. KeepsStacks
  <2>1. \A i \in 1..top_of_cpstack : SameEntry(i)
    <3>1. \A i \in 1..top_of_cpstack : i \in DOMAIN cps
      BY Tops DEF Typed
    <3> QED  BY <1>1, <1>2, <3>1 DEF SameEntry, NextClause, IsGenerator, FailTo
  <2> QED  BY <2>1 DEF NextClause, Run, KeepsStacks, SameTable, OpenTable
<1>4. \A q \in 1..top_of_cpstack : (Waits(q)' => q <= breg) /\ (IsGenerator(q) => q <= breg)
  BY <1>3, QuietWaits DEF StackInv, Stacked, WaitsBelow, Waits
<1>5. breg' = breg /\ ptcpreg' = s
  BY DEF NextClause, Run
<1>6. s # User
  BY <1>2, EngineAssumption
<1> QED  BY <1>1, <1>2, <1>3, <1>4, <1>5, <1>6, QuietStep DEF Precedes

\* While a table is open, what was called by the program is older than all tables, or newer
\* than breg.
LEMMA UsersOwn ==
  ASSUME Typed, StackInv, breg >= 2, cps[breg].ptcp = User, ~ IsGenerator(breg)
  PROVE  openreg = 0 /\ bfreg = 1 /\ cps[breg].pc # "answer_return"
<1>1. breg \in 1..top_of_cpstack
  BY Tops
<1>2. openreg = 0
  <2> SUFFICES ASSUME openreg > 0  PROVE FALSE
    BY DEF Typed
  <2> DEFINE s == frames[1].subgoal
  <2>1. s \in Subgoal /\ OpenTable(s) /\ IsGenerator(sf[s].cp) /\ sf[s].cp <= breg
    BY OldestLeads
  <2>2. sf[s].cp >= breg
    BY <1>1, <2>1 DEF StackInv, Stacked, EntriesAreAlive
  <2> QED  BY <2>1, <2>2, Tops, TableTyped
<1>3. bfreg = 1
  BY <1>2 DEF StackInv, FramesHoldTables
<1>4. cps[breg].pc # "answer_return"
  <2> SUFFICES ASSUME cps[breg].pc = "answer_return"  PROVE FALSE
    OBVIOUS
  <2>1. PICK s \in Subgoal : OpenTable(s)
    BY <1>1 DEF StackInv, Stacked, EntriesAreAlive
  <2> QED  BY <1>2, <2>1, OpenTyped
<1> QED  BY <1>2, <1>3, <1>4

\* Backtracking to a choice point that has become useless.
LEMMA Backs ==
  ASSUME Typed, StackInv, ~ IsGenerator(breg), breg >= 2
  PROVE  LET b == cps[breg].prev IN
         /\ b \in 1..top_of_cpstack
         /\ \A q \in 1..top_of_cpstack : (IsGenerator(q) => q <= b) /\ (Waits(q) => q <= b \/ q = breg)
<1> DEFINE b == cps[breg].prev
<1>1. breg \in 2..top_of_cpstack /\ breg \in 1..top_of_cpstack /\ breg \in 1..Len(cps) /\ bfreg <= top_of_cpstack
  BY Tops
<1>2. b \in Nat /\ b >= 1 /\ (b < breg \/ \E t \in Subgoal : OpenTable(t) /\ b \in Consumers(t))
  BY <1>1, EntryTyped DEF StackInv, Stacked, LinksAreAlive
<1>3. b <= top_of_cpstack
  BY <1>1, <1>2, Tops DEF StackInv, Stacked, TablesAreOnStack
<1>4. ASSUME NEW q \in 1..top_of_cpstack, Waits(q), q # breg  PROVE q <= b
  <2>1. q <= breg
    BY <1>4 DEF StackInv, Stacked, WaitsBelow
  <2> QED  BY <1>1, <1>4, <2>1 DEF StackInv, Stacked, NoneIsSkipped
<1> QED  BY <1>1, <1>2, <1>3, <1>4, Tops DEF Waits

LEMMA NextOfTrieStack == Typed /\ StackInv /\ ReturnsToCall /\ NextOfTrie => StackInv'
<1> SUFFICES ASSUME Typed, StackInv, ReturnsToCall, NextOfTrie  PROVE StackInv'
  OBVIOUS
<1> DEFINE c == cps[breg]
           p == c.ptcp
<1>1. PICK a \in c.left :
        /\ IF c.left = {a} THEN breg' = c.prev /\ UNCHANGED cps
                           ELSE cps' = [cps EXCEPT ![breg].left = @ \ {a}] /\ UNCHANGED breg
        /\ Return(a, c.cont, p)
  BY DEF NextOfTrie
<1>2. breg \in 1..top_of_cpstack /\ breg \in 1..Len(cps) /\ bfreg <= top_of_cpstack
  BY Tops DEF Typed
<1>3. c.pc = "trie" /\ ~ IsGenerator(breg) /\ breg >= 2 /\ c \in Entry /\ p \in Subgoal \cup {User} /\ c.left \subseteq Answer
  BY <1>2, EntryTyped DEF NextOfTrie, FailTo, IsGenerator, StackInv, Stacked, EntriesAreAlive
<1>4. \A i \in 1..top_of_cpstack :
        /\ cps'[i].subgoal = cps[i].subgoal /\ cps'[i].cont = cps[i].cont
        /\ cps'[i].ptcp = cps[i].ptcp /\ cps'[i].bfreg = cps[i].bfreg /\ cps'[i].prev = cps[i].prev
        /\ cps'[i].pc = cps[i].pc /\ cps'[i].left \subseteq cps[i].left
  <2>1. \A i \in 1..top_of_cpstack : i \in DOMAIN cps /\ cps[i] \in Entry
    BY Tops DEF Typed
  <2>2. ASSUME c.left # {a}, NEW i \in 1..top_of_cpstack
        PROVE  cps'[i] = IF i = breg THEN [c EXCEPT !.left = @ \ {a}] ELSE cps[i]
    BY <1>1, <2>1, <2>2
  <2>3. [c EXCEPT !.left = @ \ {a}] = [pc |-> c.pc, subgoal |-> c.subgoal, cont |-> c.cont, ptcp |-> c.ptcp,
            prev |-> c.prev, bfreg |-> c.bfreg, next |-> c.next, ret |-> c.ret, left |-> c.left \ {a}]
    BY <1>3 DEF Entry
  <2> QED  BY <1>1, <2>2, <2>3
<1>5. KeepsStacks
  BY <1>4 DEF NextOfTrie, Run, Return, KeepsStacks, SameTable, SameEntry, OpenTable
<1>6. running' /\ ptcpreg' = p
  BY <1>1 DEF Return, Run
<1>7. ASSUME p = User  PROVE openreg = 0 /\ bfreg = 1
  BY <1>3, <1>7, UsersOwn
<1>8. ASSUME p # User  PROVE OpenTable(p) /\ \A q \in 1..top_of_cpstack : Waits(q)' => Precedes(q, p)
  <2>1. OpenTable(p)
    BY <1>2, <1>8 DEF StackInv, Stacked, EntriesAreAlive
  <2>2. ASSUME NEW q \in 1..top_of_cpstack, Waits(q)'  PROVE Precedes(q, p)
    <3>1. Waits(q) /\ q <= breg
      BY <1>5, <2>2, QuietWaits DEF StackInv, Stacked, WaitsBelow
    <3>2. CASE q = breg
      BY <1>3, <3>2 DEF Precedes
    <3>3. CASE q # breg
      BY <1>2, <1>3, <1>8, <3>1, <3>3, Tops DEF StackInv, Stacked, ResumesInOrder
    <3> QED  BY <3>2, <3>3
  <2> QED  BY <2>1, <2>2
<1>9. CASE c.left # {a}
  <2>1. breg' = breg
    BY <1>1, <1>9
  <2>2. \A q \in 1..top_of_cpstack : (Waits(q)' => q <= breg) /\ (IsGenerator(q) => q <= breg)
    BY <1>5, QuietWaits DEF StackInv, Stacked, WaitsBelow, Waits
  <2>3. Higher(breg, bfreg) = top_of_cpstack
    BY DEF top_of_cpstack
  <2> QED  BY <1>2, <1>3, <1>5, <1>6, <1>7, <1>8, <2>1, <2>2, <2>3, QuietStep
<1>10. CASE c.left = {a}
  <2> DEFINE b == c.prev
  <2>1. breg' = b /\ b \in 1..top_of_cpstack /\ UNCHANGED cps
        /\ \A q \in 1..top_of_cpstack : (IsGenerator(q) => q <= b) /\ (Waits(q) => q <= b \/ q = breg)
    BY <1>1, <1>3, <1>10, Backs
  <2>2. b < breg
    BY <1>2, <1>3, Tops DEF StackInv, Stacked, LinksAreAlive
  <2>3. Higher(b, bfreg) <= top_of_cpstack /\ (bfreg = 1 => Higher(b, bfreg) < breg) /\ breg \in Nat /\ Higher(b, bfreg) \in Nat
    BY <1>2, <1>3, <2>1, <2>2, Tops DEF Higher
  <2>4. ASSUME p # User, NEW q \in 1..Len(cps), q = breg  PROVE ~ Waits(q)'
    <3>1. p \in Subgoal /\ c.cont \in tree[p] /\ After(c.cont, a) \in tree'[p]
      BY <1>1, <1>2, <1>3, <2>4, Tops DEF Return, Run, ReturnsToCall, IsForCall
    <3> QED  BY <1>3, <1>10, <2>1, <2>4, <3>1 DEF Waits, IsGenerator, ReturnsMore
  <2>5. ASSUME NEW q \in 1..Higher(b, bfreg), Waits(q)'  PROVE q <= b
    <3>1. q \in 1..top_of_cpstack
      BY <2>3, Tops
    <3>2. Waits(q) /\ (q = breg => p = User)
      <4>1. q \in 1..Len(cps)
        BY <3>1, Tops
      <4>2. Waits(q)
        BY <1>5, <2>5, <3>1, QuietWaits
      <4> QED  BY <2>4, <2>5, <4>1, <4>2
    <3>3. q # breg
      BY <1>7, <2>3, <3>2
    <3> QED  BY <2>1, <3>1, <3>2, <3>3
  <2> QED  BY <1>3, <1>5, <1>6, <1>7, <1>8, <2>1, <2>5, QuietStep
<1> QED  BY <1>9, <1>10

LEMMA AnswerReturnStack == Typed /\ StackInv /\ AnswerReturn => StackInv'
<1> SUFFICES ASSUME Typed, StackInv, AnswerReturn  PROVE StackInv'
  OBVIOUS
<1> DEFINE c == cps[breg]
           p == c.ptcp
<1>1. breg \in 1..top_of_cpstack /\ breg \in 1..Len(cps) /\ bfreg <= top_of_cpstack
  BY Tops DEF Typed
<1>2. c.pc = "answer_return" /\ ~ IsGenerator(breg) /\ breg >= 2 /\ p \in Subgoal \cup {User} /\ ~ Waits(breg)
  BY <1>1, EntryTyped DEF AnswerReturn, FailTo, IsGenerator, Waits, ReturnsMore, StackInv, Stacked, EntriesAreAlive
<1>3. \A i \in 1..top_of_cpstack :
        /\ cps'[i].subgoal = cps[i].subgoal /\ cps'[i].cont = cps[i].cont
        /\ cps'[i].ptcp = cps[i].ptcp /\ cps'[i].bfreg = cps[i].bfreg /\ cps'[i].prev = cps[i].prev
        /\ cps'[i].pc = cps[i].pc /\ cps'[i].left = cps[i].left
  <2>1. \A i \in 1..top_of_cpstack : i \in DOMAIN cps
    BY Tops DEF Typed
  <2>2. c \in Entry
    BY <1>1, EntryTyped
  <2>3. [c EXCEPT !.ret = @ + 1] = [pc |-> c.pc, subgoal |-> c.subgoal, cont |-> c.cont, ptcp |-> c.ptcp,
            prev |-> c.prev, bfreg |-> c.bfreg, next |-> c.next, ret |-> c.ret + 1, left |-> c.left]
    BY <2>2 DEF Entry
  <2>4. ASSUME NEW i \in 1..top_of_cpstack
        PROVE  cps'[i] = cps[i] \/ (i = breg /\ cps'[i] = [c EXCEPT !.ret = @ + 1])
    BY <2>1 DEF AnswerReturn
  <2> QED  BY <2>3, <2>4
<1>4. KeepsStacks
  BY <1>3 DEF AnswerReturn, Run, Return, Fail1, KeepsStacks, SameTable, SameEntry, OpenTable
<1>5. p # User
  BY <1>2, UsersOwn
<1>6. OpenTable(p) /\ \A q \in 1..top_of_cpstack : Waits(q)' => q <= breg /\ Precedes(q, p)
  <2>1. OpenTable(p)
    BY <1>1, <1>5 DEF StackInv, Stacked, EntriesAreAlive
  <2>2. ASSUME NEW q \in 1..top_of_cpstack, Waits(q)'  PROVE q <= breg /\ Precedes(q, p)
    <3>1. Waits(q) /\ q <= breg /\ q # breg
      BY <1>2, <1>4, <2>2, QuietWaits DEF StackInv, Stacked, WaitsBelow
    <3> QED  BY <1>1, <1>2, <1>5, <3>1, Tops DEF StackInv, Stacked, ResumesInOrder
  <2> QED  BY <2>1, <2>2
<1>7. \A q \in 1..top_of_cpstack : IsGenerator(q) => q <= breg
  BY DEF StackInv, Stacked, WaitsBelow, Waits
<1>8. CASE c.ret < Len(sf[c.subgoal].answers)
  <2>1. breg' = breg /\ ptcpreg' = p /\ Higher(breg, bfreg) = top_of_cpstack
    BY <1>8 DEF AnswerReturn, Return, Run, top_of_cpstack
  <2> QED  BY <1>1, <1>2, <1>4, <1>5, <1>6, <1>7, <2>1, QuietStep
<1>9. CASE ~ (c.ret < Len(sf[c.subgoal].answers))
  <2> DEFINE b == c.prev
  <2>1. breg' = b /\ ~ running'
    BY <1>9 DEF AnswerReturn, Fail1
  <2>2. /\ b \in 1..top_of_cpstack
        /\ \A q \in 1..top_of_cpstack : (IsGenerator(q) => q <= b) /\ (Waits(q) => q <= b)
    BY <1>2, Backs
  <2>3. \A q \in 1..Higher(b, bfreg) : Waits(q)' => q <= b
    BY <1>1, <1>4, <2>2, Tops, QuietWaits DEF Higher
  <2> QED  BY <1>2, <1>4, <2>1, <2>2, <2>3, QuietStep
<1> QED  BY <1>8, <1>9

LEMMA NewAnswerStack == Typed /\ StackInv /\ (\E s \in Subgoal : NewAnswer(s)) => StackInv'
<1> SUFFICES ASSUME Typed, StackInv, NEW s \in Subgoal, NewAnswer(s)  PROVE StackInv'
  OBVIOUS
<1> DEFINE k == sf[s].cp
<1>1. /\ running /\ ptcpreg = s /\ s # User
      /\ OpenTable(s) /\ \A q \in 1..top_of_cpstack : Waits(q) => Precedes(q, s)
  BY EngineAssumption DEF NewAnswer, StackInv, RunsInOrder
<1>2. /\ k \in 1..top_of_cpstack /\ k \in 1..Len(cps) /\ cps[k] \in Entry /\ sf[s] \in SubgoalFrame
      /\ bfreg <= top_of_cpstack /\ breg \in 1..top_of_cpstack
  BY SMTT(30), <1>1, OpenTyped, EntryTyped, TableTyped, Tops DEF Typed
<1>3. ~ running'
  BY DEF NewAnswer, Fail1
<1>4. CASE UNCHANGED <<sf, cps, breg>>
  <2>1. KeepsStacks
    BY <1>4 DEF NewAnswer, Fail1, KeepsStacks, SameTable, SameEntry, OpenTable
  <2>2. \A q \in 1..top_of_cpstack : (Waits(q)' => q <= breg) /\ (IsGenerator(q) => q <= breg)
    BY <2>1, QuietWaits DEF StackInv, Stacked, WaitsBelow, Waits
  <2>3. Higher(breg, bfreg) = top_of_cpstack
    BY DEF top_of_cpstack
  <2> QED  BY <1>2, <1>3, <1>4, <2>1, <2>2, <2>3, QuietStep
<1>5. CASE /\ sf' = [sf EXCEPT ![s].answers = Append(@, Gives(goal)), ![s].complete = @ \/ s \in Ground]
           /\ IF s \in Ground THEN cps' = perform_early_completion(s) /\ breg' = k ELSE UNCHANGED <<cps, breg>>
  <2>1. \A t \in Subgoal : SameTable(t)
    <3>1. \A t \in Subgoal : sf[t] \in SubgoalFrame
      BY TableTyped
    <3>2. \A t \in Subgoal : t # s => sf'[t] = sf[t]
      BY <1>5 DEF Typed
    <3>3. sf'[s] = [sf[s] EXCEPT !.answers = Append(@, Gives(goal)), !.complete = @ \/ s \in Ground]
      BY <1>5 DEF Typed
    <3>4. SameTable(s)
      BY <1>2, <3>3 DEF SameTable, OpenTable, SubgoalFrame
    <3> QED  BY <3>2, <3>4 DEF SameTable, OpenTable
  <2>2. CASE s \notin Ground
    <3>1. KeepsStacks
      BY <1>5, <2>1, <2>2 DEF NewAnswer, Fail1, KeepsStacks, SameEntry
    <3>2. \A q \in 1..top_of_cpstack : (Waits(q)' => q <= breg) /\ (IsGenerator(q) => q <= breg)
      BY <3>1, QuietWaits DEF StackInv, Stacked, WaitsBelow, Waits
    <3>3. Higher(breg, bfreg) = top_of_cpstack
      BY DEF top_of_cpstack
    <3> QED  BY <1>2, <1>3, <1>5, <2>2, <3>1, <3>2, <3>3, QuietStep
  <2>3. CASE s \in Ground
    <3>1. \A i \in 1..top_of_cpstack : SameEntry(i)
      <4>1. \A i \in 1..top_of_cpstack : i \in DOMAIN cps
        BY Tops DEF Typed
      <4>2. cps[k].pc = "answer_return" \/ IsGenerator(k)
        BY <1>1, <1>2, OpenTyped DEF StackInv, Stacked, TablesAreOnStack
      <4>3. \A i \in 1..top_of_cpstack : i # k => cps'[i] = cps[i]
        BY <1>5, <2>3, <4>1 DEF perform_early_completion
      <4>4. cps'[k] = [cps[k] EXCEPT !.pc = IF @ = "answer_return" THEN @ ELSE "check_complete"]
        BY <1>2, <1>5, <2>3, <4>1 DEF perform_early_completion
      <4>5. SameEntry(k)
        BY <1>2, <4>2, <4>4 DEF SameEntry, Entry, IsGenerator
      <4> QED  BY <4>3, <4>5 DEF SameEntry
    <3>2. KeepsStacks
      BY <2>1, <3>1 DEF NewAnswer, Fail1, KeepsStacks
    <3>3. sf'[s].complete
      BY <1>2, <1>5, <2>3 DEF SubgoalFrame, Typed
    <3>4. ASSUME NEW q \in 1..top_of_cpstack, Waits(q)'  PROVE q <= k
      <4>1. Precedes(q, s) /\ SameEntry(q)
        BY <1>1, <3>1, <3>2, <3>4, QuietWaits
      <4>2. ~ (cps[q].pc = "trie" /\ cps[q].ptcp = s)
        <5> SUFFICES ASSUME cps[q].pc = "trie", cps[q].ptcp = s  PROVE FALSE
          OBVIOUS
        <5>1. cps'[q].pc = "trie" /\ cps'[q].ptcp = s
          BY <4>1 DEF SameEntry, IsGenerator
        <5> QED  BY <1>1, <3>3, <3>4, <5>1 DEF Waits, ReturnsMore, IsGenerator
      <4> QED  BY <4>1, <4>2 DEF Precedes
    <3>5. \A q \in 1..top_of_cpstack : IsGenerator(q) => q <= k
      BY <1>1 DEF Waits, Precedes, IsGenerator
    <3>6. \A q \in 1..Higher(k, bfreg) : q \in 1..top_of_cpstack
      BY <1>2, Tops DEF Higher
    <3> QED  BY <1>2, <1>3, <1>5, <2>3, <3>2, <3>4, <3>5, <3>6, QuietStep
  <2> QED  BY <2>2, <2>3
<1> QED  BY <1>4, <1>5 DEF NewAnswer

--------------------------------------------------------------------------------
(* Scheduling. *)

\* What check_complete looks at: the generator of s is breg, and all other open tables'
\* generators that are left are older.
LEMMA GeneratorOnTop ==
  ASSUME Typed, StackInv, NEW s \in Subgoal, AtCheckComplete(s)
  PROVE  /\ OpenTable(s) /\ sf[s].cp = breg /\ IsGenerator(breg) /\ breg \in 2..top_of_cpstack /\ breg \in 1..Len(cps)
         /\ \A t \in Subgoal : OpenTable(t) =>
              \A c \in Consumers(t) : /\ c \in 1..top_of_cpstack /\ c <= bfreg /\ cps[c].pc = "answer_return"
                                      /\ cps[c].subgoal = t /\ sf[t].cp <= c /\ c # breg
         /\ \A t \in Subgoal : OpenTable(t) /\ sf[s].frame < sf[t].frame =>
              breg < sf[t].cp /\ cps[sf[t].cp].pc = "answer_return"
<1>1. breg \in 1..top_of_cpstack /\ IsGenerator(breg)
  BY Tops DEF AtCheckComplete, FailTo, IsGenerator, Typed
<1>2. OpenTable(s) /\ sf[s].cp = breg
  BY <1>1 DEF AtCheckComplete, StackInv, Stacked, EntriesAreAlive
<1>3. ASSUME NEW t \in Subgoal, OpenTable(t), NEW c \in Consumers(t)
      PROVE  /\ c \in 1..top_of_cpstack /\ c <= bfreg /\ cps[c].pc = "answer_return"
             /\ cps[c].subgoal = t /\ sf[t].cp <= c /\ c # breg
  <2>1. sf[t].cp \in 2..top_of_cpstack /\ c \in Nat
    BY <1>3, OpenTyped, ConsumersTyped
  <2>2. c <= bfreg /\ cps[c].pc = "answer_return" /\ cps[c].subgoal = t /\ sf[t].cp <= c
    BY <1>3 DEF StackInv, Stacked, TablesAreOnStack
  <2> QED  BY <1>1, <2>1, <2>2, Tops DEF IsGenerator
<1>4. ASSUME NEW t \in Subgoal, OpenTable(t), sf[s].frame < sf[t].frame
      PROVE  breg < sf[t].cp /\ cps[sf[t].cp].pc = "answer_return"
  <2>1. breg < sf[t].cp
    BY <1>2, <1>4, AgeOrder
  <2>2. ~ IsGenerator(sf[t].cp)
    <3> SUFFICES ASSUME IsGenerator(sf[t].cp)  PROVE FALSE
      OBVIOUS
    <3>1. sf[t].cp <= breg
      BY <1>4, OpenTyped DEF StackInv, Stacked, WaitsBelow, Waits
    <3> QED  BY <1>4, <2>1, <3>1, OpenTyped, Tops
  <2> QED  BY <1>3, <1>4, <2>1, <2>2, OpenTyped
<1> QED  BY <1>1, <1>2, <1>3, <1>4, OpenTyped, Tops

LEMMA LeastOf ==
  ASSUME NEW K \in SUBSET Nat, K # {}
  PROVE  Least(K) \in K /\ \A j \in K : Least(K) <= j
<1>1. PICK k \in K : \A j \in K : ~ (<<j, k>> \in OpToRel(<, Nat))
  BY WFMin, NatLessThanWellFounded
<1>2. ASSUME NEW j \in K  PROVE ~ (j < k)
  <2>1. ~ (<<j, k>> \in {ss \in Nat \X Nat : ss[1] < ss[2]})
    BY <1>1, Zenon DEF OpToRel
  <2> QED  BY <2>1, <<j, k>>[1] = j, <<j, k>>[2] = k, <<j, k>> \in Nat \X Nat, Zenon
<1>3. \A j \in K : k <= j
  BY <1>2
<1> QED  BY <1>3 DEF Least

LEMMA GreatestOf ==
  ASSUME NEW K \in SUBSET Nat, K # {}, NEW n \in Nat, \A k \in K : k <= n
  PROVE  Greatest(K) \in K
<1> DEFINE J == {n - k : k \in K}
<1>1. J \in SUBSET Nat /\ J # {}
  <2>1. \A k \in K : k \in Nat /\ n - k \in Nat
    OBVIOUS
  <2> QED  BY <2>1
<1>2. Least(J) \in J /\ \A j \in J : Least(J) <= j
  BY <1>1, LeastOf
<1>3. PICK k \in K : Least(J) = n - k
  BY <1>2
<1>4. \A j \in K : k >= j
  BY <1>2, <1>3
<1> QED  BY <1>4 DEF Greatest

LEMMA Scheduled ==
  ASSUME Typed, NEW s \in Subgoal
  PROVE  /\ sched_answers(s) # {} => FirstScheduled(s) \in Consumers(s)
         /\ \A i : IsScheduled(s, i) => /\ i \in Consumers(s)
                                        /\ NextScheduled(s, i) = breg \/ NextScheduled(s, i) \in Consumers(s)
<1>1. sched_answers(s) \subseteq DOMAIN sf[s].asf /\ DOMAIN sf[s].asf \subseteq Nat
  BY TableTyped DEF sched_answers
<1>2. ASSUME NEW K \in SUBSET sched_answers(s), K # {}  PROVE sf[s].asf[Least(K)] \in Consumers(s)
  <2>1. Least(K) \in K
    BY <1>1, <1>2, LeastOf
  <2> QED  BY <1>1, <2>1 DEF Consumers, Range
<1>3. ASSUME NEW i, IsScheduled(s, i)
      PROVE  i \in Consumers(s) /\ (NextScheduled(s, i) = breg \/ NextScheduled(s, i) \in Consumers(s))
  <2>1. i \in Consumers(s)
    BY <1>1, <1>3 DEF IsScheduled, Consumers, Range
  <2> DEFINE later == {k \in sched_answers(s) : k > PlaceOf(s, i)}
  <2>2. later \in SUBSET sched_answers(s)
    OBVIOUS
  <2>3. later # {} => sf[s].asf[Least(later)] \in Consumers(s)
    BY <1>2, <2>2
  <2>4. NextScheduled(s, i) = IF later = {} THEN breg ELSE sf[s].asf[Least(later)]
    BY DEF NextScheduled
  <2> HIDE DEF later
  <2> QED  BY <2>1, <2>3, <2>4
<1> QED  BY <1>2, <1>3 DEF FirstScheduled

\* The followers of the leader are the newer open tables.
LEMMA FollowersNewer ==
  ASSUME Typed, StackInv, NEW s \in Subgoal, OpenTable(s), NEW f \in Followers(s)
  PROVE  LET t == frames[f].subgoal IN
         t \in Subgoal /\ OpenTable(t) /\ sf[t].frame = f /\ sf[s].frame < f /\ f \in Nat /\ f <= openreg
<1>1. f \in 1..openreg /\ sf[s].frame < f
  BY OpenTyped DEF Followers
<1> QED  BY <1>1, FrameTyped DEF StackInv, FramesHoldTables

\* find_fixpoint relinks consumers newer than breg only.
LEMMA Relinks ==
  ASSUME Typed, StackInv, NEW s \in Subgoal, AtCheckComplete(s), NEW i \in 1..Len(cps)
  PROVE  \/ FixpointPrev(s, i) = cps[i].prev
         \/ /\ i \in 1..top_of_cpstack /\ cps[i].pc = "answer_return" /\ breg < i /\ breg <= FixpointPrev(s, i)
            /\ FixpointPrev(s, i) = breg
               \/ \E t \in Subgoal : OpenTable(t) /\ FixpointPrev(s, i) \in Consumers(t)
<1> DEFINE newer(t) == t \in Subgoal /\ OpenTable(t) /\ sf[s].frame < sf[t].frame
           fine(n) == breg <= n /\ (n = breg \/ \E t \in Subgoal : OpenTable(t) /\ n \in Consumers(t))
<1>1. OpenTable(s) /\ sf[s].cp = breg /\ breg \in Nat
  BY GeneratorOnTop, Tops
<1>2. ASSUME NEW t, newer(t)
      PROVE  /\ breg < sf[t].cp /\ cps[sf[t].cp].pc = "answer_return" /\ sf[t].cp \in 1..top_of_cpstack
             /\ \A c \in Consumers(t) :
                  c \in 1..top_of_cpstack /\ breg < c /\ cps[c].pc = "answer_return" /\ fine(c)
  <2>1. breg < sf[t].cp /\ cps[sf[t].cp].pc = "answer_return" /\ sf[t].cp \in 1..top_of_cpstack
    BY <1>2, GeneratorOnTop, OpenTyped, Tops
  <2>2. \A c \in Consumers(t) : c \in 1..top_of_cpstack /\ sf[t].cp <= c /\ cps[c].pc = "answer_return"
    BY <1>2, GeneratorOnTop
  <2> QED  BY <1>1, <1>2, <2>1, <2>2, Tops
<1>3. ASSUME NEW f \in Followers(s)  PROVE newer(frames[f].subgoal)
  BY <1>1, <1>3, FollowersNewer
<1>4. fine(breg)
  BY <1>1
<1> DEFINE generator == {f \in Followers(s) : sf[frames[f].subgoal].cp = i}
           consumer == {f \in Followers(s) : IsScheduled(frames[f].subgoal, i)}
<1>5. ASSUME NEW f \in generator
      PROVE  i \in 1..top_of_cpstack /\ cps[i].pc = "answer_return" /\ breg < i /\ fine(GeneratorPrev(s, f))
  <2>1. i \in 1..top_of_cpstack /\ cps[i].pc = "answer_return" /\ breg < i
    BY <1>2, <1>3, <1>5
  <2> DEFINE older == {g \in ScheduledFrames(s) : g < f}
  <2>2. CASE f \in ScheduledFrames(s) /\ older # {}
    <3>1. older \in SUBSET Nat /\ f \in Nat /\ \A g \in older : g <= f
      BY <1>1, <1>5, FollowersNewer DEF ScheduledFrames
    <3>2. Greatest(older) \in older
      BY <2>2, <3>1, GreatestOf
    <3>3. PICK g \in Followers(s) : g = Greatest(older) /\ sched_answers(frames[g].subgoal) # {}
      BY <3>2 DEF ScheduledFrames
    <3>4. FirstScheduled(frames[g].subgoal) \in Consumers(frames[g].subgoal) /\ newer(frames[g].subgoal)
      BY <1>3, <3>3, Scheduled
    <3>5. GeneratorPrev(s, f) = FirstScheduled(frames[g].subgoal)
      BY <2>2, <3>3 DEF GeneratorPrev
    <3> HIDE DEF fine, newer
    <3> QED  BY <1>2, <2>1, <3>4, <3>5
  <2>3. CASE ~ (f \in ScheduledFrames(s) /\ older # {})
    BY <1>1, <1>4, <2>1, <2>3 DEF GeneratorPrev
  <2> QED  BY <2>2, <2>3
<1>6. ASSUME NEW f \in consumer
      PROVE  i \in 1..top_of_cpstack /\ cps[i].pc = "answer_return" /\ breg < i
             /\ fine(NextScheduled(frames[f].subgoal, i))
  <2>1. newer(frames[f].subgoal) /\ IsScheduled(frames[f].subgoal, i)
    BY <1>3, <1>6
  <2>2. i \in Consumers(frames[f].subgoal)
        /\ (NextScheduled(frames[f].subgoal, i) = breg \/ NextScheduled(frames[f].subgoal, i) \in Consumers(frames[f].subgoal))
    BY <2>1, Scheduled
  <2> QED  BY <1>2, <1>4, <2>1, <2>2
<1>7. FixpointPrev(s, i) =
        IF generator # {} THEN GeneratorPrev(s, CHOOSE f \in generator : TRUE)
        ELSE IF consumer # {} THEN NextScheduled(frames[CHOOSE f \in consumer : TRUE].subgoal, i)
        ELSE cps[i].prev
  BY DEF FixpointPrev
<1> HIDE DEF generator, consumer
<1>8. CASE generator # {}
  BY <1>5, <1>7, <1>8
<1>9. CASE generator = {} /\ consumer # {}
  BY <1>6, <1>7, <1>9
<1> QED  BY <1>7, <1>8, <1>9

LEMMA WithPrev ==
  ASSUME NEW c \in Entry, NEW n
  PROVE  LET d == [c EXCEPT !.prev = n] IN
         /\ d.prev = n /\ d.pc = c.pc /\ d.subgoal = c.subgoal /\ d.cont = c.cont /\ d.ptcp = c.ptcp
         /\ d.bfreg = c.bfreg /\ d.next = c.next /\ d.ret = c.ret /\ d.left = c.left
         /\ n \in Nat => d \in Entry
BY DEF Entry

\* Consumers are scheduled by either way: newer ones than breg are linked, and breg' is one.
LEMMA SchedulingStack ==
  ASSUME Typed, StackInv, NEW s \in Subgoal, AtCheckComplete(s), NEW b \in 1..top_of_cpstack, breg <= b,
         breg' = b, Fail1, UNCHANGED <<sf, bfreg, frames, openreg, level_num, root_address>>,
         \A i \in 1..Len(cps) : /\ i \in DOMAIN cps'
                                /\ \/ cps'[i] = cps[i]
                                   \/ \E n : cps'[i] = [cps[i] EXCEPT !.prev = n] /\ (n = cps[i].prev \/
                                        (/\ cps[i].pc = "answer_return" /\ breg < i /\ breg <= n
                                         /\ n = breg \/ \E t \in Subgoal : OpenTable(t) /\ n \in Consumers(t)))
  PROVE  StackInv'
<1>1. \A i \in 1..top_of_cpstack : SameEntry(i)
  <2> SUFFICES ASSUME NEW i \in 1..top_of_cpstack  PROVE SameEntry(i)
    OBVIOUS
  <2>1. i \in 1..Len(cps) /\ cps[i] \in Entry
    BY EntryTyped, Tops
  <2>2. CASE cps'[i] = cps[i]
    BY <2>2 DEF SameEntry
  <2>3. ASSUME NEW n, cps'[i] = [cps[i] EXCEPT !.prev = n],
               n = cps[i].prev \/ (/\ cps[i].pc = "answer_return" /\ breg < i /\ breg <= n
                                   /\ n = breg \/ \E t \in Subgoal : OpenTable(t) /\ n \in Consumers(t))
        PROVE  SameEntry(i)
    <3>1. /\ cps'[i].prev = n /\ cps'[i].pc = cps[i].pc /\ cps'[i].subgoal = cps[i].subgoal
          /\ cps'[i].cont = cps[i].cont /\ cps'[i].ptcp = cps[i].ptcp
          /\ cps'[i].bfreg = cps[i].bfreg /\ cps'[i].left = cps[i].left
      BY <2>1, <2>3, WithPrev
    <3> QED  BY <2>3, <3>1 DEF SameEntry, Rescheduled
  <2> QED  BY <2>1, <2>2, <2>3
<1>2. KeepsStacks
  BY <1>1 DEF Fail1, KeepsStacks, SameTable, OpenTable
<1>3. \A q \in 1..top_of_cpstack : (Waits(q)' => q <= b) /\ (IsGenerator(q) => q <= b)
  <2>1. \A q \in 1..top_of_cpstack : (Waits(q)' => q <= breg) /\ (IsGenerator(q) => q <= breg)
    BY <1>2, QuietWaits DEF StackInv, Stacked, WaitsBelow, Waits
  <2> QED  BY <2>1, Tops
<1>4. \A q \in 1..Higher(b, bfreg) : q \in 1..top_of_cpstack
  BY Tops DEF Higher
<1>5. ~ running' /\ User \in Subgoal \cup {User}
  BY DEF Fail1
<1> QED  BY <1>2, <1>3, <1>4, <1>5, QuietStep

LEMMA ScheduleOwnStack == Typed /\ StackInv /\ (\E s \in Subgoal : ScheduleOwn(s)) => StackInv'
<1> SUFFICES ASSUME Typed, StackInv, NEW s \in Subgoal, ScheduleOwn(s)  PROVE StackInv'
  OBVIOUS
<1>1. AtCheckComplete(s) /\ OpenTable(s) /\ sf[s].cp = breg /\ breg \in Nat
  BY GeneratorOnTop, Tops DEF ScheduleOwn
<1>2. \A c \in Consumers(s) : c \in 1..top_of_cpstack /\ breg < c /\ cps[c].pc = "answer_return"
  BY <1>1, GeneratorOnTop, Tops
<1>3. PICK b \in Consumers(s) : b = FirstScheduled(s)
  BY Scheduled DEF ScheduleOwn
<1>4. ASSUME NEW i \in 1..Len(cps)
      PROVE  /\ i \in DOMAIN cps'
             /\ \/ cps'[i] = cps[i]
                \/ \E n : cps'[i] = [cps[i] EXCEPT !.prev = n] /\ (n = cps[i].prev \/
                     (/\ cps[i].pc = "answer_return" /\ breg < i /\ breg <= n
                      /\ n = breg \/ \E t \in Subgoal : OpenTable(t) /\ n \in Consumers(t)))
  <2>1. i \in DOMAIN cps /\ DOMAIN cps' = DOMAIN cps
        /\ cps'[i] = IF IsScheduled(s, i) THEN [cps[i] EXCEPT !.prev = NextScheduled(s, i)] ELSE cps[i]
    <3>1. i \in DOMAIN cps
      BY DEF Typed
    <3>2. cps' = Linked(s)
      BY DEF ScheduleOwn
    <3> QED  BY <3>1, <3>2 DEF Linked
  <2>2. ASSUME IsScheduled(s, i)
        PROVE  /\ cps[i].pc = "answer_return" /\ breg < i /\ breg <= NextScheduled(s, i)
               /\ NextScheduled(s, i) = breg \/ NextScheduled(s, i) \in Consumers(s)
    BY <1>1, <1>2, <2>2, Scheduled
  <2> QED  BY <1>1, <2>1, <2>2
<1>5. b \in 1..top_of_cpstack /\ breg <= b /\ breg' = b
  BY <1>1, <1>2, <1>3, Tops DEF ScheduleOwn
<1> QED  BY <1>1, <1>4, <1>5, SchedulingStack DEF ScheduleOwn

LEMMA ScheduleFollowersStack == Typed /\ StackInv /\ (\E s \in Subgoal : ScheduleFollowers(s)) => StackInv'
<1> SUFFICES ASSUME Typed, StackInv, NEW s \in Subgoal, ScheduleFollowers(s)  PROVE StackInv'
  OBVIOUS
<1>1. AtCheckComplete(s) /\ OpenTable(s) /\ sf[s].cp = breg /\ breg \in Nat
  BY GeneratorOnTop, Tops DEF ScheduleFollowers
<1>2. PICK f \in Followers(s) : f = Greatest(ScheduledFrames(s)) /\ sched_answers(frames[f].subgoal) # {}
  <2>1. ScheduledFrames(s) \in SUBSET Nat /\ ScheduledFrames(s) # {} /\ openreg \in Nat
        /\ \A k \in ScheduledFrames(s) : k <= openreg
    <3>0. openreg \in Nat
      BY DEF Typed
    <3>1. ScheduledFrames(s) # {}
      BY DEF ScheduleFollowers
    <3>2. \A k \in Followers(s) : k \in Nat /\ k <= openreg
      BY <1>1, FollowersNewer
    <3> QED  BY <3>0, <3>1, <3>2 DEF ScheduledFrames
  <2>2. Greatest(ScheduledFrames(s)) \in ScheduledFrames(s)
    BY <2>1, GreatestOf
  <2> QED  BY <2>2 DEF ScheduledFrames
<1> DEFINE t == frames[f].subgoal
<1>3. t \in Subgoal /\ OpenTable(t) /\ sf[s].frame < sf[t].frame
  BY <1>1, FollowersNewer
<1>4. PICK b \in Consumers(t) : b = FirstScheduled(t)
  BY <1>2, <1>3, Scheduled
<1>5. b \in 1..top_of_cpstack /\ breg <= b /\ breg' = b
  BY SMTT(30), <1>1, <1>2, <1>3, <1>4, GeneratorOnTop, OpenTyped, Tops DEF ScheduleFollowers
<1>6. ASSUME NEW i \in 1..Len(cps)
      PROVE  /\ i \in DOMAIN cps'
             /\ \/ cps'[i] = cps[i]
                \/ \E n : cps'[i] = [cps[i] EXCEPT !.prev = n] /\ (n = cps[i].prev \/
                     (/\ cps[i].pc = "answer_return" /\ breg < i /\ breg <= n
                      /\ n = breg \/ \E u \in Subgoal : OpenTable(u) /\ n \in Consumers(u)))
  <2>1. i \in DOMAIN cps' /\ cps'[i] = [cps[i] EXCEPT !.prev = FixpointPrev(s, i)]
    <3>1. i \in DOMAIN cps
      BY DEF Typed
    <3>2. cps' = find_fixpoint(s)
      BY DEF ScheduleFollowers
    <3> QED  BY <3>1, <3>2 DEF find_fixpoint
  <2> QED  BY <1>1, <2>1, Relinks
<1> QED  BY <1>1, <1>5, <1>6, SchedulingStack DEF ScheduleFollowers

--------------------------------------------------------------------------------
(* Calls. *)

\* A trie choice point on top of what is stacked.
LEMMA TriePushed ==
  ASSUME NEW b \in Nat, NEW T \in Nat, b >= 1, b <= T, bfreg' <= T, bfreg' \in Nat,
         Stacked(b, T)', breg' = T + 1, cps'[T + 1].pc = "trie",
         cps'[T + 1].prev = b, cps'[T + 1].bfreg = 0,
         \A t \in Subgoal : sf'[t].cp \in Nat /\ Consumers(t)' \subseteq Nat,
         \A i \in 1..T : cps'[i].prev \in Nat,
         NEW p \in Subgoal \cup {User}, cps'[T + 1].ptcp = p,
         p = User => \A t \in Subgoal : ~ OpenTable(t)',
         p # User => OpenTable(p)' /\ \A q \in 1..T : Waits(q)' => Precedes(q, p)'
  PROVE  /\ Stacked(breg, top_of_cpstack)'
         /\ top_of_cpstack' = T + 1
         /\ p # User => \A q \in 1..T + 1 : Waits(q)' => Precedes(q, p)'
<1> DEFINE n == T + 1
<1>1. top_of_cpstack' = n /\ n \in Nat /\ \A i \in 1..n : i \in 1..T \/ i = n
  BY DEF top_of_cpstack, Higher
<1>2. EntriesAreAlive(T)' /\ TablesAreOnStack(T)' /\ WaitsBelow(b, T)' /\ NoneIsSkipped(T)'
      /\ LinksAreAlive(T)' /\ ResumesInOrder(T)'
  BY DEF Stacked
<1>3. ~ IsGenerator(n)' /\ Precedes(n, p)'
  BY DEF IsGenerator, Precedes
<1>4. ASSUME NEW t \in Subgoal, OpenTable(t)'
      PROVE  sf'[t].cp \in 2..T /\ \A c \in Consumers(t)' : c \in 1..T
  BY <1>2, <1>4 DEF TablesAreOnStack
<1>a. EntriesAreAlive(n)'
  <2> SUFFICES ASSUME NEW i \in 1..n  PROVE EntriesAreAlive(n)!(i)'
    BY DEF EntriesAreAlive
  <2>1. CASE i \in 1..T
    BY <1>2, <2>1 DEF EntriesAreAlive
  <2>2. CASE i = n
    BY <1>3, <1>4, <2>2
  <2> QED  BY <1>1, <2>1, <2>2
<1>b. TablesAreOnStack(n)'
  BY <1>2 DEF TablesAreOnStack
<1>c. WaitsBelow(n, n)'
  BY DEF WaitsBelow
<1>d. NoneIsSkipped(n)'
  <2> SUFFICES ASSUME NEW i \in 1..n, NEW q \in 1..n, Waits(q)', q < i  PROVE q <= cps'[i].prev
    BY DEF NoneIsSkipped
  <2>1. q \in 1..T
    BY <1>1
  <2>2. CASE i \in 1..T
    BY <1>2, <2>1, <2>2 DEF NoneIsSkipped
  <2>3. CASE i = n
    BY <1>2, <2>1, <2>3 DEF WaitsBelow
  <2> QED  BY <1>1, <2>2, <2>3
<1>e. LinksAreAlive(n)'
  <2>1. ASSUME NEW i \in 2..n  PROVE LinksAreAlive(n)!1!(i)'
    <3>1. CASE i \in 1..T
      BY <1>2, <3>1 DEF LinksAreAlive
    <3>2. CASE i = n
      BY <3>2
    <3> QED  BY <1>1, <3>1, <3>2
  <2>2. ASSUME NEW i \in 2..n, NEW q \in 2..n, IsGenerator(q)', i < q  PROVE cps'[i].prev < q
    BY <1>1, <1>2, <1>3, <2>2 DEF LinksAreAlive
  <2> QED  BY <2>1, <2>2 DEF LinksAreAlive
<1>f. ResumesInOrder(n)'
  <2> SUFFICES ASSUME NEW i \in 2..n, cps'[i].ptcp # User, NEW q \in 1..n, Waits(q)', q < i
               PROVE  Precedes(q, cps[i].ptcp)'
    BY DEF ResumesInOrder
  <2>1. q \in 1..T
    BY <1>1
  <2>2. CASE i \in 1..T
    BY <1>2, <2>1, <2>2 DEF ResumesInOrder
  <2>3. CASE i = n
    BY <2>1, <2>3 DEF Precedes
  <2> QED  BY <1>1, <2>2, <2>3
<1> QED  BY <1>1, <1>3, <1>a, <1>b, <1>c, <1>d, <1>e, <1>f DEF Stacked

LEMMA CallingTyped ==
  ASSUME Typed, NEW s \in Subgoal, Calling(s)
  PROVE  /\ running /\ ptcpreg \in Subgoal \cup {User} /\ goal \in Goal \cup {Asking}
         /\ ptcpreg = User => goal = Asking /\ query \in 1..Len(Query) /\ Query[query] = s
         /\ ptcpreg # User => goal \in Goal /\ Calls(goal) = s
<1>1. s # Done
  BY ProgramAssumption
<1> QED  BY <1>1 DEF Typed, Calling, Selected

\* What runs is newer than all that waits; the program's own call runs when no table is open.
LEMMA RunsNewest ==
  ASSUME Typed, StackInv, running
  PROVE  /\ ptcpreg = User => openreg = 0 /\ \A t \in Subgoal : ~ OpenTable(t)
         /\ ptcpreg # User => /\ ptcpreg \in Subgoal /\ OpenTable(ptcpreg)
                              /\ \A q \in 1..top_of_cpstack : Waits(q) => Precedes(q, ptcpreg)
<1>1. openreg = 0 => \A t \in Subgoal : ~ OpenTable(t)
  BY OpenTyped
<1> QED  BY <1>1 DEF StackInv, RunsInOrder, Typed

LEMMA TrieEntry ==
  ASSUME NEW left \in SUBSET Answer, NEW cont \in Goal \cup {Asking}, NEW p \in Subgoal \cup {User}, NEW b \in Nat
  PROVE  LET e == TrieChoicePoint(left, cont, p, b) IN
         /\ e \in Entry /\ e.pc = "trie" /\ e.cont = cont /\ e.ptcp = p /\ e.prev = b /\ e.bfreg = 0
         /\ e.left = left
BY DEF TrieChoicePoint, ChoicePoint, Entry

\* A trie choice point on top of a stack.
LEMMA PushedTrie ==
  ASSUME NEW rest \in SUBSET Answer, NEW stack \in Seq(Entry), NEW b \in Nat, NEW top \in 0..Len(stack),
         NEW cont \in Goal \cup {Asking}, NEW p \in Subgoal \cup {User}
  PROVE  LET new == Push(stack, top, TrieChoicePoint(rest, cont, p, b)) IN
         /\ new \in Seq(Entry) /\ Len(new) = top + 1
         /\ \A i \in 1..top : new[i] = stack[i]
         /\ new[top + 1].pc = "trie" /\ new[top + 1].prev = b /\ new[top + 1].bfreg = 0
         /\ new[top + 1].ptcp = p /\ new[top + 1].cont = cont /\ new[top + 1].left = rest
<1>e. PICK e : e = TrieChoicePoint(rest, cont, p, b)
  OBVIOUS
<1>1. e \in Entry /\ e.pc = "trie" /\ e.cont = cont /\ e.ptcp = p /\ e.prev = b /\ e.bfreg = 0 /\ e.left = rest
  BY <1>e, TrieEntry
<1>2. LET new == Push(stack, top, e) IN
      /\ new \in Seq(Entry) /\ Len(new) = top + 1 /\ new[top + 1] = e
      /\ \A i \in 1..top : new[i] = stack[i]
  BY <1>1, Pushed
<1> QED  BY <1>e, <1>1, <1>2

LEMMA CallCompletedStack == Typed /\ StackInv /\ (\E s \in Subgoal : CallCompleted(s)) => StackInv'
<1> SUFFICES ASSUME Typed, StackInv, NEW s \in Subgoal, CallCompleted(s)  PROVE StackInv'
  OBVIOUS
<1> PICK p : p = ptcpreg
  OBVIOUS
<1>1. /\ running /\ p \in Subgoal \cup {User} /\ goal \in Goal \cup {Asking}
      /\ breg \in 1..top_of_cpstack /\ bfreg \in 1..top_of_cpstack /\ Higher(breg, bfreg) = top_of_cpstack
      /\ breg \in Nat /\ top_of_cpstack \in 0..Len(cps) /\ cps \in Seq(Entry) /\ Range(sf[s].answers) \subseteq Answer
  BY CallingTyped, Tops, TableTyped, RangeOfSeq DEF CallCompleted, top_of_cpstack, Typed
<1>2. UNCHANGED <<program, sf, bfreg, frames, openreg, level_num, root_address>>
  BY DEF CallCompleted
<1>3. ASSUME \A i \in 1..top_of_cpstack : cps'[i] = cps[i],
             \A t \in Subgoal : tree[t] \subseteq tree'[t]
      PROVE  /\ KeepsStacks
             /\ \A q \in 1..top_of_cpstack : (Waits(q)' => Waits(q) /\ q <= breg) /\ (IsGenerator(q) => q <= breg)
  <2>1. KeepsStacks
    BY <1>2, <1>3 DEF KeepsStacks, SameTable, SameEntry, OpenTable
  <2> QED  BY <2>1, QuietWaits DEF StackInv, Stacked, WaitsBelow, Waits
<1>4. CASE sf[s].answers = <<>>
  <2>1. cps' = cps /\ breg' = breg /\ ~ running' /\ tree' = tree
    BY <1>4 DEF CallCompleted, Fail1
  <2> QED  BY <1>1, <1>3, <2>1, QuietStep
<1>5. CASE sf[s].answers # <<>>
  <2> PICK left : left = Range(sf[s].answers)
    OBVIOUS
  <2> PICK top : top = top_of_cpstack
    OBVIOUS
  <2>1. PICK a \in left :
          /\ IF left = {a}
               THEN cps' = cps /\ breg' = breg
               ELSE cps' = Push(cps, top, TrieChoicePoint(left \ {a}, goal, p, breg)) /\ breg' = top + 1
          /\ Return(a, goal, p)
    BY <1>5 DEF CallCompleted, TrieReturn
  <2>2. /\ running' /\ ptcpreg' = p
        /\ \A t \in Subgoal : tree[t] \subseteq tree'[t]
        /\ \A i \in 1..top_of_cpstack : cps'[i] = cps[i]
        /\ \/ breg' = breg
           \/ /\ breg' = top_of_cpstack + 1
              /\ cps'[top_of_cpstack + 1].pc = "trie" /\ cps'[top_of_cpstack + 1].prev = breg
              /\ cps'[top_of_cpstack + 1].bfreg = 0 /\ cps'[top_of_cpstack + 1].ptcp = p
    <3>1. left \in SUBSET Answer /\ top \in 0..Len(cps)
      BY <1>1
    <3>2. running' /\ ptcpreg' = p /\ \A t \in Subgoal : tree[t] \subseteq tree'[t]
      BY <2>1 DEF Return, Run
    <3>3. CASE left = {a}
      BY <2>1, <3>2, <3>3
    <3>4. CASE left # {a}
      <4>1. cps' = Push(cps, top, TrieChoicePoint(left \ {a}, goal, p, breg)) /\ breg' = top + 1
        BY <2>1, <3>4
      <4>2. left \ {a} \in SUBSET Answer
        BY <3>1
      <4> QED  BY <1>1, <3>1, <3>2, <4>1, <4>2, PushedTrie
    <3> QED  BY <3>3, <3>4
  <2>3. KeepsStacks
        /\ \A q \in 1..top_of_cpstack : (Waits(q)' => Waits(q) /\ q <= breg) /\ (IsGenerator(q) => q <= breg)
    BY <1>3, <2>2
  <2>4. /\ p = User => openreg = 0 /\ \A t \in Subgoal : ~ OpenTable(t)
        /\ p # User => OpenTable(p) /\ \A q \in 1..top_of_cpstack : Waits(q)' => Precedes(q, p)
    BY <1>1, <2>3, RunsNewest
  <2>5. CASE breg' = breg
    BY <1>1, <2>2, <2>3, <2>4, <2>5, QuietStep
  <2>6. CASE breg' = top_of_cpstack + 1 /\ breg' # breg
    <3>0. PICK T \in Nat : T = top_of_cpstack
      BY Tops
    <3>9. PICK b \in 1..T : b = breg
      BY <1>1, <3>0
    <3>1. Stacked(b, T)'
      BY <1>1, <2>3, <3>0, <3>9, QuietStack DEF WaitsBelow
    <3>2. FramesHoldTables' /\ LevelsNested' /\ LeadersLeaveRest' /\ ConsumersDepend'
      BY <2>3, QuietFrames
    <3>3. \A t \in Subgoal : sf'[t].cp \in Nat /\ Consumers(t)' \subseteq Nat /\ (OpenTable(t)' <=> OpenTable(t))
      BY <1>2, TableTyped, ConsumersTyped DEF Consumers, OpenTable
    <3>4. \A i \in 1..T : cps'[i].prev \in Nat /\ (Precedes(i, p)' <=> Precedes(i, p))
      BY SMTT(30), <1>2, <2>2, <3>0, EntryTyped, Tops DEF Precedes
    <3>5. bfreg' <= T /\ bfreg' \in Nat /\ b >= 1 /\ b <= T /\ b \in Nat
      BY <1>1, <1>2, <3>0, <3>9
    <3>6. p # User => OpenTable(p)' /\ \A q \in 1..T : Waits(q)' => Precedes(q, p)'
      BY <1>1, <2>4, <3>0, <3>3, <3>4
    <3>7. /\ Stacked(breg, top_of_cpstack)' /\ top_of_cpstack' = T + 1
          /\ p # User => \A q \in 1..T + 1 : Waits(q)' => Precedes(q, p)'
      BY <1>1, <2>2, <2>4, <2>6, <3>0, <3>1, <3>3, <3>4, <3>5, <3>6, <3>9, TriePushed
    <3>8. RunsInOrder'
      BY <1>1, <1>2, <2>2, <2>4, <3>6, <3>7 DEF RunsInOrder
    <3> QED  BY <3>2, <3>7, <3>8 DEF StackInv
  <2> QED  BY <2>2, <2>5, <2>6
<1> QED  BY <1>4, <1>5

\* The new generator, on top of the stacks as they were.
LEMMA NewProducerFacts ==
  ASSUME Typed, NEW s \in Subgoal, NewProducer(s)
  PROVE  LET k == top_of_cpstack + 1 IN
         /\ cps' \in Seq(Entry) /\ Len(cps') = k /\ \A i \in 1..top_of_cpstack : cps'[i] = cps[i]
         /\ cps'[k].pc = "tableretry" \/ cps'[k].pc = "check_complete"
         /\ cps'[k].pc = "tableretry" => Len(Clauses(program, s)) > 1
         /\ cps'[k].pc = "check_complete" => ~ (Len(Clauses(program, s)) > 1)
         /\ cps'[k].subgoal = s /\ cps'[k].cont = goal /\ cps'[k].ptcp = ptcpreg
         /\ cps'[k].prev = breg /\ cps'[k].bfreg = bfreg /\ cps'[k].next = 2
         /\ breg' = k /\ bfreg' = bfreg /\ top_of_cpstack' = k
         /\ openreg' = openreg + 1 /\ level_num' = level_num + 1
         /\ root_address' = IF root_address = 0 THEN k ELSE root_address
         /\ frames' \in Seq(CompletionFrame) /\ openreg' <= Len(frames')
         /\ \A f \in 1..openreg : frames'[f] = frames[f]
         /\ frames'[openreg + 1].subgoal = s /\ frames'[openreg + 1].level = level_num + 1
         /\ \A t \in Subgoal : t # s => sf'[t] = sf[t]
         /\ sf' \in [Subgoal -> SubgoalFrame]
         /\ sf'[s].called /\ ~ sf'[s].complete /\ ~ sf'[s].reclaimed /\ sf'[s].answers = <<>>
         /\ sf'[s].asf = <<>> /\ sf'[s].cp = k /\ sf'[s].frame = openreg + 1
         /\ running' /\ ptcpreg' = s /\ goal' = Clauses(program, s)[1]
         /\ tree' = [t \in Subgoal |-> IF t = s THEN tree[t] \cup {Clauses(program, s)[1]} ELSE tree[t]]
<1> PICK top \in Nat : top = top_of_cpstack
  BY Tops
<1>1. goal \in Goal \cup {Asking} /\ ptcpreg \in Subgoal \cup {User}
  BY CallingTyped DEF NewProducer
<1>2. cps \in Seq(Entry) /\ top \in 0..Len(cps) /\ breg \in Nat /\ bfreg \in Nat
      /\ bfreg <= top /\ openreg \in 0..Len(frames) /\ frames \in Seq(CompletionFrame) /\ level_num \in Nat
  BY Tops DEF Typed
<1>3. PICK pc \in {"tableretry", "check_complete"} :
        /\ pc = IF Len(Clauses(program, s)) > 1 THEN "tableretry" ELSE "check_complete"
        /\ cps' = Push(cps, top, ChoicePoint(pc, s, goal, ptcpreg, breg, bfreg))
  <2>1. (top + 1) - 1 = top
    OBVIOUS
  <2> QED  BY <2>1 DEF NewProducer
<1> DEFINE e == ChoicePoint(pc, s, goal, ptcpreg, breg, bfreg)
<1>4. e \in Entry /\ e.pc = pc /\ e.subgoal = s /\ e.cont = goal /\ e.ptcp = ptcpreg
      /\ e.prev = breg /\ e.bfreg = bfreg /\ e.next = 2
  BY <1>1, <1>2 DEF ChoicePoint, Entry
<1> HIDE DEF e
<1>5. cps' \in Seq(Entry) /\ Len(cps') = top + 1 /\ cps'[top + 1] = e /\ \A i \in 1..top : cps'[i] = cps[i]
  BY <1>2, <1>3, <1>4, Pushed DEF e
<1>6. breg' = top + 1 /\ bfreg' = bfreg /\ top_of_cpstack' = top + 1
  BY <1>2 DEF NewProducer, top_of_cpstack, Higher
<1>7. /\ openreg' = openreg + 1 /\ level_num' = level_num + 1
      /\ root_address' = IF root_address = 0 THEN top + 1 ELSE root_address
  BY DEF NewProducer
<1>8. /\ frames' \in Seq(CompletionFrame) /\ openreg' <= Len(frames')
      /\ \A f \in 1..openreg : frames'[f] = frames[f]
      /\ frames'[openreg + 1].subgoal = s /\ frames'[openreg + 1].level = level_num + 1
  <2> DEFINE f == [subgoal |-> s, level |-> level_num + 1]
  <2>1. f \in CompletionFrame /\ f.subgoal = s /\ f.level = level_num + 1
    BY <1>2 DEF CompletionFrame
  <2>2. frames' = IF openreg + 1 \in DOMAIN frames THEN [frames EXCEPT ![openreg + 1] = f] ELSE Append(frames, f)
    BY <1>7 DEF NewProducer
  <2> HIDE DEF f
  <2>3. CASE openreg + 1 \in 1..Len(frames)
    <3>1. frames' = [frames EXCEPT ![openreg + 1] = f]
      BY <1>2, <2>2, <2>3
    <3>2. frames' \in Seq(CompletionFrame) /\ Len(frames') = Len(frames)
          /\ \A j \in 1..Len(frames) : frames'[j] = IF j = openreg + 1 THEN f ELSE frames[j]
      BY <1>2, <2>1, <2>3, <3>1, ExceptSeq
    <3> QED  BY <1>2, <1>7, <2>1, <2>3, <3>2
  <2>4. CASE openreg + 1 \notin 1..Len(frames)
    <3>1. frames' = Append(frames, f) /\ Len(frames) = openreg
      BY <1>2, <2>2, <2>4
    <3>2. frames' \in Seq(CompletionFrame) /\ Len(frames') = openreg + 1
          /\ (\A j \in 1..openreg : frames'[j] = frames[j]) /\ frames'[openreg + 1] = f
      BY <1>2, <2>1, <3>1, AppendProperties
    <3> QED  BY <1>2, <1>7, <2>1, <3>2
  <2> QED  BY <2>3, <2>4
<1>9. /\ \A t \in Subgoal : t # s => sf'[t] = sf[t]
      /\ sf' \in [Subgoal -> SubgoalFrame]
      /\ sf'[s].called /\ ~ sf'[s].complete /\ ~ sf'[s].reclaimed /\ sf'[s].answers = <<>>
      /\ sf'[s].asf = <<>> /\ sf'[s].cp = top + 1 /\ sf'[s].frame = openreg + 1
  <2> DEFINE t == [NoTable EXCEPT !.called = TRUE, !.cp = top + 1, !.frame = openreg + 1]
  <2>1. t \in SubgoalFrame /\ t.called = TRUE /\ t.complete = FALSE /\ t.reclaimed = FALSE /\ t.answers = <<>>
        /\ t.asf = <<>> /\ t.cp = top + 1 /\ t.frame = openreg + 1
    <3>1. <<>> \in Seq(Answer) /\ <<>> \in Seq(Nat) /\ top + 1 \in Nat /\ openreg + 1 \in Nat
      BY <1>2, EmptySeq
    <3>2. NoTable \in SubgoalFrame /\ NoTable.complete = FALSE /\ NoTable.reclaimed = FALSE
          /\ NoTable.answers = <<>> /\ NoTable.asf = <<>>
      BY <3>1 DEF NoTable, SubgoalFrame
    <3> QED  BY <3>1, <3>2 DEF SubgoalFrame
  <2>2. sf' = [sf EXCEPT ![s] = t]
    BY <1>7 DEF NewProducer
  <2> HIDE DEF t
  <2> QED  BY <2>1, <2>2 DEF Typed
<1>10. /\ running' /\ ptcpreg' = s /\ goal' = Clauses(program, s)[1]
       /\ tree' = [t \in Subgoal |-> IF t = s THEN tree[t] \cup {Clauses(program, s)[1]} ELSE tree[t]]
  BY DEF NewProducer, Run
<1> QED  BY <1>3, <1>4, <1>5, <1>6, <1>7, <1>8, <1>9, <1>10

LEMMA NewProducerStack == Typed /\ StackInv /\ (\E s \in Subgoal : NewProducer(s)) => StackInv'
<1> SUFFICES ASSUME Typed, StackInv, NEW s \in Subgoal, NewProducer(s)  PROVE StackInv'
  OBVIOUS
<1> PICK top \in Nat : top = top_of_cpstack
  BY Tops
<1> PICK p : p = ptcpreg
  OBVIOUS
<1> DEFINE k == top + 1
<1>1. /\ breg \in 1..top /\ bfreg \in 1..top /\ top \in 1..Len(cps) /\ openreg \in Nat /\ level_num \in Nat
      /\ root_address \in Nat
  <2>1. breg \in 1..top /\ bfreg \in 1..top /\ top \in 1..Len(cps) /\ Len(cps) \in Nat
    BY Tops DEF Typed
  <2>2. openreg \in Nat /\ level_num \in Nat /\ root_address \in Nat
    BY <2>1 DEF Typed
  <2> QED  BY <2>1, <2>2
<1>2. /\ p \in Subgoal \cup {User} /\ p # s /\ ~ OpenTable(s)
      /\ p = User => openreg = 0 /\ \A t \in Subgoal : ~ OpenTable(t)
      /\ p # User => OpenTable(p) /\ \A q \in 1..top : Waits(q) => Precedes(q, p)
  BY CallingTyped, RunsNewest, EngineAssumption DEF NewProducer, OpenTable
<1>3. /\ \A i \in 1..top : cps'[i] = cps[i]
      /\ IsGenerator(k)' /\ cps'[k].subgoal = s /\ cps'[k].cont = goal /\ cps'[k].ptcp = p
      /\ cps'[k].prev = breg /\ cps'[k].bfreg = bfreg /\ cps'[k].pc # "query" /\ cps'[k].pc # "answer_return"
      /\ breg' = k /\ bfreg' = bfreg /\ top_of_cpstack' = k
      /\ openreg' = openreg + 1 /\ level_num' = level_num + 1
      /\ root_address' = IF root_address = 0 THEN k ELSE root_address
  BY NewProducerFacts DEF IsGenerator
<1>4. /\ \A f \in 1..openreg : frames'[f] = frames[f]
      /\ frames'[openreg + 1].subgoal = s /\ frames'[openreg + 1].level = level_num + 1
      /\ \A t \in Subgoal : t # s => sf'[t] = sf[t]
      /\ sf'[s].called /\ ~ sf'[s].complete /\ ~ sf'[s].reclaimed
      /\ sf'[s].asf = <<>> /\ sf'[s].cp = k /\ sf'[s].frame = openreg + 1
      /\ running' /\ ptcpreg' = s
      /\ tree' = [t \in Subgoal |-> IF t = s THEN tree[t] \cup {Clauses(program, s)[1]} ELSE tree[t]]
  BY NewProducerFacts
<1>5. /\ \A t \in Subgoal : t # s => (OpenTable(t)' <=> OpenTable(t)) /\ Consumers(t)' = Consumers(t)
      /\ OpenTable(s)' /\ Consumers(s)' = {}
  BY <1>4 DEF OpenTable, Consumers, Range
<1>6. ASSUME NEW i \in 1..top
      PROVE  /\ cps'[i] = cps[i] /\ i \in 1..Len(cps)
             /\ (Waits(i)' => Waits(i)) /\ (IsGenerator(i)' <=> IsGenerator(i))
             /\ cps[i].ptcp \in Subgoal \cup {User} /\ cps[i].prev \in Nat
  <2>1. cps'[i] = cps[i] /\ i \in 1..Len(cps)
    BY <1>1, <1>3
  <2>2. \A t \in Subgoal : (sf[t].complete => sf'[t].complete) \/ t = s
    BY <1>4
  <2>3. Waits(i)' => Waits(i)
    <3>1. (cps[i].ptcp \in Subgoal /\ OpenTable(cps[i].ptcp)) \/ cps[i].ptcp = User
      BY <2>1, EntryTyped DEF StackInv, Stacked, EntriesAreAlive
    <3>2. cps[i].ptcp # s
      BY <1>2, <3>1, EngineAssumption
    <3>3. cps[i].ptcp # User => sf'[cps[i].ptcp] = sf[cps[i].ptcp] /\ tree'[cps[i].ptcp] = tree[cps[i].ptcp]
      BY <1>4, <3>1, <3>2
    <3> QED  BY <2>1, <3>3 DEF Waits, ReturnsMore, IsGenerator
  <2> QED  BY <2>1, <2>3, EntryTyped DEF IsGenerator
<1>7. ASSUME NEW t \in Subgoal, OpenTable(t)
      PROVE  /\ t # s /\ sf'[t] = sf[t] /\ sf[t].cp \in 2..top /\ sf[t].frame \in 1..openreg
             /\ OpenTable(t)' /\ Consumers(t)' = Consumers(t)
             /\ \A c \in Consumers(t) : c \in 1..top /\ c <= bfreg
             /\ Leads(t)' <=> Leads(t)
  <2>1. t # s /\ sf'[t] = sf[t] /\ OpenTable(t)' /\ Consumers(t)' = Consumers(t)
    BY <1>2, <1>4, <1>5, <1>7
  <2>2. sf[t].cp \in 2..top /\ sf[t].frame \in 1..openreg
    BY <1>7, OpenTyped
  <2>3. \A c \in Consumers(t) : c \in 1..top /\ c <= bfreg
    BY <1>1, <1>7, <2>2, ConsumersTyped DEF StackInv, Stacked, TablesAreOnStack
  <2>4. Leads(t)' <=> Leads(t)
    BY SMTT(30), <1>1, <1>4, <2>1, <2>2 DEF Leads, is_leader
  <2> QED  BY <2>1, <2>2, <2>3, <2>4
<1>8. ASSUME NEW t \in Subgoal, OpenTable(t)'  PROVE t = s \/ OpenTable(t)
  BY <1>5, <1>8
<1>9. \A i \in 1..k : i \in 1..top \/ i = k
  OBVIOUS
<1>10. \A f \in 1..openreg + 1 : f \in 1..openreg \/ f = openreg + 1
  BY <1>1
<1>a. FramesHoldTables'
  <2>1. ASSUME NEW t \in Subgoal, OpenTable(t)'
        PROVE  sf'[t].frame \in 1..openreg' /\ frames'[sf'[t].frame].subgoal = t
    BY <1>1, <1>3, <1>4, <1>7, <1>8, <2>1, OpenTyped
  <2>2. ASSUME NEW f \in 1..openreg'
        PROVE  OpenTable(frames[f].subgoal)' /\ sf'[frames'[f].subgoal].frame = f
    <3>1. CASE f \in 1..openreg
      <4>1. frames[f].subgoal \in Subgoal /\ OpenTable(frames[f].subgoal) /\ sf[frames[f].subgoal].frame = f
        BY <3>1, FrameTyped DEF StackInv, FramesHoldTables
      <4> QED  BY <1>4, <1>7, <3>1, <4>1 DEF OpenTable
    <3>2. CASE f = openreg + 1
      BY <1>4, <1>5, <3>2 DEF OpenTable
    <3> QED  BY <1>3, <1>10, <3>1, <3>2
  <2>3. ASSUME NEW t \in Subgoal, NEW u \in Subgoal, OpenTable(t)', OpenTable(u)'
        PROVE  sf'[t].frame < sf'[u].frame <=> sf'[t].cp < sf'[u].cp
    <3>1. CASE OpenTable(t) /\ OpenTable(u)
      BY <1>7, <3>1, AgeOrder
    <3>2. CASE t = s /\ OpenTable(u)
      BY <1>1, <1>4, <1>7, <3>2
    <3>3. CASE u = s /\ OpenTable(t)
      BY <1>1, <1>4, <1>7, <3>3
    <3>4. CASE t = s /\ u = s
      BY <1>1, <1>4, <3>4
    <3> QED  BY <1>8, <2>3, <3>1, <3>2, <3>3, <3>4
  <2>4. root_address' = sf'[frames'[1].subgoal].cp
    <3>1. CASE openreg = 0
      BY <1>1, <1>3, <1>4, <3>1 DEF StackInv, FramesHoldTables
    <3>2. CASE openreg > 0
      <4>1. frames[1].subgoal \in Subgoal /\ OpenTable(frames[1].subgoal)
            /\ root_address = sf[frames[1].subgoal].cp /\ frames'[1] = frames[1]
        BY <1>1, <1>4, <3>2, OldestLeads
      <4> QED  BY <1>3, <1>7, <4>1
    <3> QED  BY <1>1, <3>1, <3>2
  <2> QED  BY <1>1, <1>3, <2>1, <2>2, <2>3, <2>4 DEF FramesHoldTables
<1>b. LevelsNested'
  <2>1. \A f \in 1..openreg : frames[f].level \in 1..level_num
    BY DEF StackInv, LevelsNested
  <2>2. /\ \A f \in 1..openreg : frames'[f].level = frames[f].level
        /\ frames'[openreg + 1].level = level_num + 1
    BY <1>4
  <2>3. \A f, g \in 1..openreg : f <= g => frames[f].level <= frames[g].level
    BY DEF StackInv, LevelsNested
  <2>4. \A f \in 1..openreg + 1 : frames'[f].level \in 1..level_num + 1
    BY <1>1, <1>10, <2>1, <2>2
  <2>5. ASSUME NEW f \in 1..openreg + 1, NEW g \in 1..openreg + 1, f <= g
        PROVE  frames'[f].level <= frames'[g].level
    <3>1. CASE g = openreg + 1
      BY <1>1, <2>2, <2>4, <3>1
    <3>2. CASE g \in 1..openreg
      BY <1>1, <2>2, <2>3, <2>5, <3>2
    <3> QED  BY <1>10, <3>1, <3>2
  <2> QED  BY <1>3, <2>4, <2>5 DEF LevelsNested
<1>c. LeadersLeaveRest'
  <2> SUFFICES ASSUME NEW t \in Subgoal, OpenTable(t)'  PROVE LeadersLeaveRest!(t)!2'
    BY DEF LeadersLeaveRest
  <2>1. CASE OpenTable(t)
    <3>1. /\ t # s /\ sf'[t] = sf[t] /\ (Leads(t)' <=> Leads(t))
          /\ cps'[sf[t].cp].bfreg = cps[sf[t].cp].bfreg /\ (IsGenerator(sf[t].cp)' <=> IsGenerator(sf[t].cp))
      BY <1>1, <1>3, <1>7, <2>1 DEF IsGenerator
    <3>2. ASSUME NEW u \in Subgoal, OpenTable(u)', sf'[u].frame < sf'[t].frame
          PROVE  OpenTable(u) /\ sf[u].frame < sf[t].frame
      <4>1. u # s
        BY <1>1, <1>4, <1>7, <2>1, <3>2
      <4> QED  BY <1>7, <1>8, <2>1, <3>2, <4>1
    <3>3. LeadersLeaveRest!(t)!2
      BY <2>1 DEF StackInv, LeadersLeaveRest
    <3>4. CASE Leads(t)
      BY <1>3, <1>7, <2>1, <3>1, <3>2, <3>3, <3>4 DEF IsGenerator
    <3>5. CASE ~ Leads(t)
      BY <1>3, <3>1, <3>3, <3>5
    <3> QED  BY <3>4, <3>5
  <2>2. CASE t = s
    <3>1. Leads(s)'
      <4>1. openreg > 0 => frames[openreg].level <= level_num /\ frames'[openreg] = frames[openreg]
                           /\ frames[openreg].level \in Nat
        BY <1>1, <1>4 DEF StackInv, LevelsNested
      <4> QED  BY <1>1, <1>4, <4>1 DEF Leads, is_leader
    <3>2. ASSUME NEW u \in Subgoal, OpenTable(u)', sf'[u].frame < sf'[s].frame
          PROVE  /\ \A c \in Consumers(u)' : c <= bfreg
                 /\ ~ Leads(u)' => sf'[u].cp <= bfreg
      <4>1. OpenTable(u)
        BY <1>1, <1>4, <1>8, <3>2
      <4> QED  BY <1>7, <4>1 DEF StackInv, LeadersLeaveRest
    <3>3. IsGenerator(sf[s].cp)' /\ cps'[sf'[s].cp].bfreg = bfreg
      BY <1>3, <1>4 DEF IsGenerator
    <3> QED  BY <2>2, <3>1, <3>2, <3>3
  <2> QED  BY <1>8, <2>1, <2>2
<1>d. ConsumersDepend'
  <2> SUFFICES ASSUME NEW t \in Subgoal, OpenTable(t)', NEW c \in Consumers(t)', cps'[c].ptcp # User,
                      NEW r \in Subgoal, OpenTable(r)', Leads(r)', sf'[t].frame < sf'[r].frame,
                      sf'[r].frame <= sf'[cps'[c].ptcp].frame
               PROVE  FALSE
    BY DEF ConsumersDepend, Dependent
  <2>1. OpenTable(t) /\ c \in Consumers(t) /\ c \in 1..top /\ cps'[c] = cps[c]
    BY <1>3, <1>5, <1>7, <1>8
  <2>2. cps[c].ptcp \in Subgoal /\ OpenTable(cps[c].ptcp) /\ sf'[cps[c].ptcp] = sf[cps[c].ptcp]
        /\ sf[cps[c].ptcp].frame <= openreg /\ sf[cps[c].ptcp].frame \in Nat
    BY <1>1, <1>6, <1>7, <2>1 DEF StackInv, Stacked, EntriesAreAlive
  <2>3. OpenTable(r) /\ Leads(r) /\ sf'[r] = sf[r] /\ sf'[t] = sf[t]
    BY <1>1, <1>4, <1>7, <1>8, <2>1, <2>2
  <2> QED  BY <2>1, <2>2, <2>3 DEF StackInv, ConsumersDepend, Dependent
<1>e. EntriesAreAlive(k)'
  <2> SUFFICES ASSUME NEW i \in 1..k  PROVE EntriesAreAlive(k)!(i)'
    BY DEF EntriesAreAlive
  <2>1. CASE i \in 1..top
    <3>1. EntriesAreAlive(top)!(i) /\ cps'[i] = cps[i] /\ cps[i].ptcp \in Subgoal \cup {User}
      BY <1>6, <2>1 DEF StackInv, Stacked, EntriesAreAlive
    <3>2. \A t \in Subgoal : OpenTable(t)' => (OpenTable(t) /\ sf'[t].cp = sf[t].cp) \/ sf'[t].cp >= i
      BY <1>4, <1>7, <1>8, <2>1
    <3> QED  BY <1>7, <2>1, <3>1, <3>2 DEF IsGenerator
  <2>2. CASE i = k
    <3>1. p # User => OpenTable(p)' /\ sf'[p].cp < k
      BY <1>2, <1>7
    <3>2. p = User => \A t \in Subgoal : OpenTable(t)' => sf'[t].cp >= k
      BY <1>2, <1>4, <1>8
    <3> QED  BY <1>1, <1>3, <1>4, <1>5, <2>2, <3>1, <3>2
  <2> QED  BY <1>9, <2>1, <2>2
<1>f. TablesAreOnStack(k)'
  <2> SUFFICES ASSUME NEW t \in Subgoal, OpenTable(t)'  PROVE TablesAreOnStack(k)!(t)!2'
    BY DEF TablesAreOnStack
  <2>1. CASE OpenTable(t)
    <3>1. TablesAreOnStack(top)!(t)!2
      BY <2>1 DEF StackInv, Stacked, TablesAreOnStack
    <3> QED  BY <1>3, <1>7, <2>1, <3>1 DEF IsGenerator
  <2>2. CASE t = s
    BY <1>1, <1>3, <1>4, <1>5, <2>2 DEF IsGenerator
  <2> QED  BY <1>8, <2>1, <2>2
<1>g. WaitsBelow(k, k)'
  BY DEF WaitsBelow
<1>h. NoneIsSkipped(k)'
  <2> SUFFICES ASSUME NEW i \in 1..k, NEW q \in 1..k, Waits(q)', q < i  PROVE q <= cps'[i].prev
    BY DEF NoneIsSkipped
  <2>1. q \in 1..top /\ Waits(q)
    BY <1>6, <1>9
  <2>2. CASE i \in 1..top
    BY <1>6, <2>1, <2>2 DEF StackInv, Stacked, NoneIsSkipped
  <2>3. CASE i = k
    BY <1>3, <2>1, <2>3 DEF StackInv, Stacked, WaitsBelow
  <2> QED  BY <1>9, <2>2, <2>3
<1>i. LinksAreAlive(k)'
  <2>0. LinksAreAlive(top)
    BY DEF StackInv, Stacked
  <2>1. ASSUME NEW i \in 2..k  PROVE LinksAreAlive(k)!1!(i)'
    <3>1. CASE i \in 1..top
      <4>1. i \in 2..top
        BY <3>1
      <4> QED  BY <1>6, <1>7, <2>0, <3>1, <4>1 DEF LinksAreAlive
    <3>2. CASE i = k
      BY <1>1, <1>3, <3>2
    <3> QED  BY <1>9, <3>1, <3>2
  <2>2. ASSUME NEW i \in 2..k, NEW q \in 2..k, IsGenerator(q)', i < q  PROVE cps'[i].prev < q
    <3>1. i \in 2..top /\ i \in 1..top /\ cps'[i] = cps[i]
      BY <1>6, <2>2
    <3>2. CASE q \in 1..top
      BY <1>6, <2>0, <2>2, <3>1, <3>2 DEF LinksAreAlive
    <3>3. CASE q = k
      <4>1. cps[i].prev < i \/ cps[i].prev \in 1..top
        BY <1>7, <2>0, <3>1 DEF LinksAreAlive
      <4> QED  BY <1>6, <3>1, <3>3, <4>1
    <3> QED  BY <1>9, <3>2, <3>3
  <2> QED  BY <2>1, <2>2 DEF LinksAreAlive
<1>j. ResumesInOrder(k)'
  <2> SUFFICES ASSUME NEW i \in 2..k, cps'[i].ptcp # User, NEW q \in 1..k, Waits(q)', q < i
               PROVE  Precedes(q, cps[i].ptcp)'
    BY DEF ResumesInOrder
  <2>1. q \in 1..top /\ Waits(q) /\ cps'[q] = cps[q]
    BY <1>6, <1>9
  <2>2. CASE i \in 1..top
    <3>1. cps'[i] = cps[i] /\ cps[i].ptcp \in Subgoal /\ Precedes(q, cps[i].ptcp)
      BY <1>6, <2>1, <2>2 DEF StackInv, Stacked, ResumesInOrder
    <3>2. OpenTable(cps[i].ptcp)
      BY <2>2, <3>1, EngineAssumption DEF StackInv, Stacked, EntriesAreAlive
    <3> QED  BY <1>7, <2>1, <3>1, <3>2 DEF Precedes
  <2>3. CASE i = k
    <3>1. p # User /\ Precedes(q, p) /\ p \in Subgoal /\ OpenTable(p)
      BY <1>2, <1>3, <2>1, <2>3
    <3> QED  BY <1>3, <1>7, <2>1, <2>3, <3>1 DEF Precedes
  <2> QED  BY <1>9, <2>2, <2>3
<1>k. RunsInOrder'
  <2>1. \A q \in 1..k : Precedes(q, s)'
    BY <1>4 DEF Precedes
  <2> QED  BY <1>3, <1>4, <1>5, <2>1, EngineAssumption DEF RunsInOrder
<1>l. Stacked(breg, top_of_cpstack)'
  BY <1>3, <1>e, <1>f, <1>g, <1>h, <1>i, <1>j DEF Stacked
<1> QED  BY <1>a, <1>b, <1>c, <1>d, <1>k, <1>l DEF StackInv

\* adjust_level gives the newer tables the level of the one called.
LEMMA AdjustLevel ==
  ASSUME Typed, StackInv, NEW s \in Subgoal, OpenTable(s)
  PROVE  LET new == adjust_level(sf[s].frame) IN
         /\ new \in Seq(CompletionFrame) /\ Len(new) = Len(frames)
         /\ \A f \in 1..openreg :
              /\ new[f].subgoal = frames[f].subgoal
              /\ f < sf[s].frame => new[f].level = frames[f].level
              /\ sf[s].frame <= f => new[f].level = frames[sf[s].frame].level
<1> PICK m : m = sf[s].frame
  OBVIOUS
<1> DEFINE n == frames[m].level
<1>1. m \in 1..openreg /\ openreg \in Nat /\ openreg <= Len(frames) /\ frames \in Seq(CompletionFrame) /\ n \in Nat
  BY OpenTyped, FrameTyped DEF Typed
<1>2. \A f, g \in 1..openreg : f <= g => frames[f].level <= frames[g].level
  BY DEF StackInv, LevelsNested
<1>3. (\A f \in 1..Len(frames) : frames[f] \in CompletionFrame) /\ \A f \in 1..openreg : frames[f].level \in Nat
  <2>1. \A f \in 1..Len(frames) : frames[f] \in CompletionFrame
    BY <1>1
  <2> QED  BY <2>1, FrameTyped
<1>4. CASE n >= frames[openreg].level
  <2>1. adjust_level(m) = frames
    BY <1>4 DEF adjust_level
  <2>2. ASSUME NEW f \in 1..openreg, m <= f  PROVE frames[f].level = n
    <3>1. frames[m].level <= frames[f].level /\ frames[f].level <= frames[openreg].level
      BY <1>1, <1>2, <2>2
    <3>2. openreg \in 1..openreg
      BY <1>1
    <3> QED  BY <1>1, <1>3, <1>4, <3>1, <3>2
  <2> QED  BY <1>1, <2>1, <2>2
<1>5. CASE ~ (n >= frames[openreg].level)
  <2> DEFINE new == [i \in DOMAIN frames |->
                       IF i \in m..openreg /\ \A j \in m..i : frames[j].level >= n
                         THEN [frames[i] EXCEPT !.level = n] ELSE frames[i]]
  <2>1. adjust_level(m) = new
    BY <1>5 DEF adjust_level
  <2>2. \A f \in 1..Len(frames) : frames[f] \in CompletionFrame /\ [frames[f] EXCEPT !.level = n] \in CompletionFrame
          /\ [frames[f] EXCEPT !.level = n].subgoal = frames[f].subgoal /\ [frames[f] EXCEPT !.level = n].level = n
    BY <1>1, <1>3 DEF CompletionFrame
  <2>3. DOMAIN frames = 1..Len(frames) /\ Len(frames) \in Nat
    BY <1>1
  <2>4. new \in [1..Len(frames) -> CompletionFrame]
    BY <2>2, <2>3
  <2>5. new \in Seq(CompletionFrame) /\ Len(new) = Len(frames)
    BY <2>3, <2>4
  <2>6. ASSUME NEW f \in 1..openreg  PROVE f \in DOMAIN frames /\ new[f].subgoal = frames[f].subgoal
    BY <1>1, <2>2, <2>3
  <2>7. ASSUME NEW f \in 1..openreg, f < m  PROVE new[f].level = frames[f].level
    BY <1>1, <2>6, <2>7
  <2>8. ASSUME NEW f \in 1..openreg, m <= f  PROVE new[f].level = n
    <3>1. \A j \in m..f : frames[j].level >= n
      BY <1>1, <1>2, <1>3, <2>8
    <3>2. f \in m..openreg /\ f \in 1..Len(frames)
      BY <1>1, <2>8
    <3>3. new[f] = [frames[f] EXCEPT !.level = n]
      BY <2>6, <3>1, <3>2
    <3> QED  BY <2>2, <3>2, <3>3
  <2> HIDE DEF new
  <2> QED  BY <2>1, <2>5, <2>6, <2>7, <2>8
<1> QED  BY <1>4, <1>5

LEMMA Suspended ==
  ASSUME NEW n \in Nat, NEW list \in Seq(Nat)
  PROVE  <<n>> \o list \in Seq(Nat) /\ Range(<<n>> \o list) = {n} \cup Range(list)
<1>1. <<n>> \in Seq(Nat) /\ Range(<<n>>) = {n}
  BY DEF Range
<1>2. <<n>> \o list \in Seq(Nat)
  BY <1>1, ConcatProperties
<1>3. PICK k \in Nat : k = Len(list)
  OBVIOUS
<1>4. /\ Len(<<n>> \o list) = 1 + k
      /\ \A i \in 1..1 + k : (<<n>> \o list)[i] = IF i <= 1 THEN n ELSE list[i - 1]
  BY <1>1, <1>3, ConcatProperties
<1> DEFINE new == <<n>> \o list
<1>5. DOMAIN new = 1..1 + k /\ DOMAIN list = 1..k /\ new[1] = n /\ \A j \in 1..k : new[j + 1] = list[j]
  BY <1>2, <1>3, <1>4
<1>6. \A i \in 1..1 + k : i = 1 \/ (i - 1 \in 1..k /\ (i - 1) + 1 = i)
  OBVIOUS
<1> HIDE DEF new
<1>7. Range(new) = {n} \cup Range(list)
  <2>1. ASSUME NEW i \in DOMAIN new  PROVE new[i] \in {n} \cup Range(list)
    <3>1. CASE i = 1
      BY <1>5, <3>1
    <3>2. CASE i # 1
      <4>1. i - 1 \in 1..k /\ (i - 1) + 1 = i
        BY <1>5, <1>6, <2>1, <3>2
      <4>2. new[i] = list[i - 1] /\ i - 1 \in DOMAIN list
        BY <1>5, <4>1
      <4> QED  BY <4>2 DEF Range
    <3> QED  BY <3>1, <3>2
  <2>2. ASSUME NEW j \in DOMAIN list  PROVE list[j] \in Range(new)
    <3>1. j + 1 \in DOMAIN new /\ new[j + 1] = list[j]
      BY <1>5, <2>2
    <3> QED  BY <3>1 DEF Range
  <2>3. n \in Range(new)
    <3>1. 1 \in DOMAIN new /\ new[1] = n
      BY <1>3, <1>5
    <3> QED  BY <3>1 DEF Range
  <2> QED  BY <2>1, <2>2, <2>3 DEF Range
<1> QED  BY <1>2, <1>7 DEF new

\* The new consumer, on top of the stacks as they were.
LEMMA ConsumeFacts ==
  ASSUME Typed, StackInv, NEW s \in Subgoal, Consume(s), TablesAreSound
  PROVE  LET k == top_of_cpstack + 1 IN
         /\ OpenTable(s)
         /\ cps' \in Seq(Entry) /\ Len(cps') = k /\ \A i \in 1..top_of_cpstack : cps'[i] = cps[i]
         /\ cps'[k].pc = "answer_return" /\ cps'[k].subgoal = s /\ cps'[k].cont = goal /\ cps'[k].ptcp = ptcpreg
         /\ cps'[k].prev = breg /\ cps'[k].bfreg = 0
         /\ cps'[k].ret = IF sf[s].answers # <<>> THEN 1 ELSE 0
         /\ bfreg' = k /\ top_of_cpstack' = k
         /\ frames' \in Seq(CompletionFrame) /\ Len(frames') = Len(frames)
         /\ \A f \in 1..openreg :
              /\ frames'[f].subgoal = frames[f].subgoal
              /\ f < sf[s].frame => frames'[f].level = frames[f].level
              /\ sf[s].frame <= f => frames'[f].level = frames[sf[s].frame].level
         /\ openreg' = openreg /\ level_num' = level_num /\ root_address' = root_address
         /\ sf' \in [Subgoal -> SubgoalFrame]
         /\ \A t \in Subgoal : /\ t # s => sf'[t] = sf[t]
                               /\ OpenTable(t)' = OpenTable(t) /\ sf'[t].cp = sf[t].cp /\ sf'[t].frame = sf[t].frame
                               /\ sf'[t].answers = sf[t].answers /\ sf'[t].complete = sf[t].complete
                               /\ sf'[t].called = sf[t].called /\ sf'[t].reclaimed = sf[t].reclaimed
         /\ sf'[s].asf = <<k>> \o sf[s].asf /\ Consumers(s)' = {k} \cup Consumers(s)
         /\ \/ /\ sf[s].answers # <<>> /\ breg' = k /\ running' /\ ptcpreg' = ptcpreg
               /\ Return(sf[s].answers[1], goal, ptcpreg)
            \/ sf[s].answers = <<>> /\ breg' = breg /\ ~ running' /\ UNCHANGED <<goal, ptcpreg, tree>>
         /\ \A t \in Subgoal : tree[t] \subseteq tree'[t]
<1> PICK top \in Nat : top = top_of_cpstack
  BY Tops
<1> DEFINE ready == sf[s].answers # <<>>
<1>1. goal \in Goal \cup {Asking} /\ ptcpreg \in Subgoal \cup {User}
  BY CallingTyped DEF Consume
<1>2. cps \in Seq(Entry) /\ top \in 0..Len(cps) /\ breg \in Nat /\ breg <= top /\ sf \in [Subgoal -> SubgoalFrame]
  BY Tops DEF Typed
<1>3. OpenTable(s)
  BY DEF Consume, OpenTable, TablesAreSound
<1>4. /\ frames' = adjust_level(sf[s].frame)
      /\ cps' = Push(cps, top, [ChoicePoint("answer_return", s, goal, ptcpreg, breg, 0)
                                 EXCEPT !.ret = IF ready THEN 1 ELSE 0])
      /\ bfreg' = top + 1
      /\ sf' = [sf EXCEPT ![s].asf = <<top + 1>> \o @]
      /\ UNCHANGED <<program, openreg, level_num, root_address, query, results>>
  <2>1. (top + 1) - 1 = top
    OBVIOUS
  <2> QED  BY <2>1 DEF Consume
<1>5. /\ cps' \in Seq(Entry) /\ Len(cps') = top + 1 /\ \A i \in 1..top : cps'[i] = cps[i]
      /\ cps'[top + 1].pc = "answer_return" /\ cps'[top + 1].subgoal = s /\ cps'[top + 1].cont = goal
      /\ cps'[top + 1].ptcp = ptcpreg /\ cps'[top + 1].prev = breg /\ cps'[top + 1].bfreg = 0
      /\ cps'[top + 1].ret = IF ready THEN 1 ELSE 0
  <2> DEFINE e == [ChoicePoint("answer_return", s, goal, ptcpreg, breg, 0) EXCEPT !.ret = IF ready THEN 1 ELSE 0]
  <2>1. e \in Entry /\ e.pc = "answer_return" /\ e.subgoal = s /\ e.cont = goal /\ e.ptcp = ptcpreg
        /\ e.prev = breg /\ e.bfreg = 0 /\ e.ret = IF ready THEN 1 ELSE 0
    BY <1>1, <1>2 DEF ChoicePoint, Entry
  <2>2. cps' = Push(cps, top, e)
    BY <1>4
  <2> HIDE DEF e
  <2> QED  BY <1>2, <2>1, <2>2, Pushed
<1>6. /\ frames' \in Seq(CompletionFrame) /\ Len(frames') = Len(frames)
      /\ \A f \in 1..openreg :
           /\ frames'[f].subgoal = frames[f].subgoal
           /\ f < sf[s].frame => frames'[f].level = frames[f].level
           /\ sf[s].frame <= f => frames'[f].level = frames[sf[s].frame].level
  BY <1>3, <1>4, AdjustLevel
<1>7. /\ sf' \in [Subgoal -> SubgoalFrame]
      /\ \A t \in Subgoal : /\ t # s => sf'[t] = sf[t]
                            /\ OpenTable(t)' = OpenTable(t) /\ sf'[t].cp = sf[t].cp /\ sf'[t].frame = sf[t].frame
                            /\ sf'[t].answers = sf[t].answers /\ sf'[t].complete = sf[t].complete
                            /\ sf'[t].called = sf[t].called /\ sf'[t].reclaimed = sf[t].reclaimed
      /\ sf'[s].asf = <<top + 1>> \o sf[s].asf /\ Consumers(s)' = {top + 1} \cup Consumers(s)
  <2>1. sf[s].asf \in Seq(Nat) /\ sf[s] \in SubgoalFrame
    BY TableTyped
  <2> DEFINE list == <<top + 1>> \o sf[s].asf
  <2>2. list \in Seq(Nat) /\ Range(list) = {top + 1} \cup Range(sf[s].asf)
    BY <2>1, Suspended
  <2>3. sf' = [sf EXCEPT ![s] = [sf[s] EXCEPT !.asf = list]]
    BY <1>2, <1>4
  <2> HIDE DEF list
  <2>4. [sf[s] EXCEPT !.asf = list] \in SubgoalFrame
    BY <2>1, <2>2 DEF SubgoalFrame
  <2>5. sf' \in [Subgoal -> SubgoalFrame]
    BY <1>2, <2>3, <2>4
  <2>6. sf'[s] = [sf[s] EXCEPT !.asf = list] /\ \A t \in Subgoal : t # s => sf'[t] = sf[t]
    BY <1>2, <2>3
  <2>7. /\ sf'[s].cp = sf[s].cp /\ sf'[s].frame = sf[s].frame /\ sf'[s].answers = sf[s].answers
        /\ sf'[s].complete = sf[s].complete /\ sf'[s].called = sf[s].called
        /\ sf'[s].reclaimed = sf[s].reclaimed /\ sf'[s].asf = list
    BY <2>1, <2>6 DEF SubgoalFrame
  <2>8. Consumers(s)' = {top + 1} \cup Consumers(s)
    BY <2>2, <2>7 DEF Consumers
  <2> QED  BY <2>5, <2>6, <2>7, <2>8 DEF OpenTable, list
<1>8. /\ \/ /\ sf[s].answers # <<>> /\ breg' = top + 1 /\ running' /\ ptcpreg' = ptcpreg
            /\ Return(sf[s].answers[1], goal, ptcpreg)
         \/ sf[s].answers = <<>> /\ breg' = breg /\ ~ running' /\ UNCHANGED <<goal, ptcpreg, tree>>
      /\ \A t \in Subgoal : tree[t] \subseteq tree'[t]
  <2>1. CASE ready
    <3>1. breg' = top + 1 /\ Return(sf[s].answers[1], goal, ptcpreg)
      BY <2>1 DEF Consume
    <3>2. running' /\ ptcpreg' = ptcpreg /\ \A t \in Subgoal : tree[t] \subseteq tree'[t]
      BY <3>1 DEF Return, Run
    <3> QED  BY <2>1, <3>1, <3>2
  <2>2. CASE ~ ready
    BY <2>2 DEF Consume, Fail1
  <2> QED  BY <2>1, <2>2
<1>9. top_of_cpstack' = top + 1
  BY <1>2, <1>4, <1>8 DEF top_of_cpstack, Higher
<1> QED  BY <1>3, <1>4, <1>5, <1>6, <1>7, <1>8, <1>9

LEMMA ConsumeStack == Typed /\ StackInv /\ TablesAreSound /\ (\E s \in Subgoal : Consume(s)) => StackInv'
<1> SUFFICES ASSUME Typed, StackInv, TablesAreSound, NEW s \in Subgoal, Consume(s)  PROVE StackInv'
  OBVIOUS
<1> PICK top \in Nat : top = top_of_cpstack
  BY Tops
<1> PICK p : p = ptcpreg
  OBVIOUS
<1> PICK m : m = sf[s].frame
  OBVIOUS
<1> DEFINE k == top + 1
<1>1. /\ breg \in 1..top /\ bfreg \in 1..top /\ top \in 1..Len(cps) /\ openreg \in Nat /\ running
      /\ OpenTable(s) /\ m \in 1..openreg
  <2>1. breg \in 1..top /\ bfreg \in 1..top /\ top \in 1..Len(cps) /\ openreg \in Nat
    BY Tops DEF Typed
  <2>2. running
    BY DEF Consume, Calling
  <2>3. OpenTable(s)
    BY ConsumeFacts
  <2>4. m \in 1..openreg
    BY <2>3, OpenTyped
  <2> QED  BY <2>1, <2>2, <2>3, <2>4
<1>2. p \in Subgoal /\ p # User /\ OpenTable(p) /\ \A q \in 1..top : Waits(q) => Precedes(q, p)
  BY <1>1, RunsNewest
<1>3. /\ \A i \in 1..top : cps'[i] = cps[i]
      /\ cps'[k].pc = "answer_return" /\ cps'[k].subgoal = s /\ cps'[k].ptcp = p
      /\ cps'[k].prev = breg /\ cps'[k].bfreg = 0
      /\ bfreg' = k /\ top_of_cpstack' = k
      /\ openreg' = openreg /\ level_num' = level_num /\ root_address' = root_address
      /\ breg' \in {k, breg} /\ (running' => ptcpreg' = p)
  BY ConsumeFacts
<1>4. /\ \A f \in 1..openreg :
           /\ frames'[f].subgoal = frames[f].subgoal
           /\ f < m => frames'[f].level = frames[f].level
           /\ m <= f => frames'[f].level = frames[m].level
      /\ \A t \in Subgoal : /\ t # s => sf'[t] = sf[t]
                            /\ OpenTable(t)' = OpenTable(t) /\ sf'[t].cp = sf[t].cp /\ sf'[t].frame = sf[t].frame
                            /\ sf'[t].complete = sf[t].complete
                            /\ tree[t] \subseteq tree'[t]
      /\ Consumers(s)' = {k} \cup Consumers(s)
  BY ConsumeFacts
<1>5. \A t \in Subgoal : t # s => Consumers(t)' = Consumers(t)
  BY <1>4 DEF Consumers
<1>6. ASSUME NEW i \in 1..top
      PROVE  /\ cps'[i] = cps[i] /\ i \in 1..Len(cps)
             /\ (Waits(i)' => Waits(i)) /\ (IsGenerator(i)' <=> IsGenerator(i))
             /\ cps[i].ptcp \in Subgoal \cup {User} /\ cps[i].prev \in Nat
  <2>1. cps'[i] = cps[i] /\ i \in 1..Len(cps)
    BY <1>1, <1>3
  <2>2. Waits(i)' => Waits(i)
    BY <1>4, <2>1, WaitsStill
  <2> QED  BY <2>1, <2>2, EntryTyped DEF IsGenerator
<1>7. ASSUME NEW t \in Subgoal, OpenTable(t)
      PROVE  /\ sf[t].cp \in 2..top /\ sf[t].frame \in 1..openreg
             /\ \A c \in Consumers(t) : c \in 1..top
  BY <1>1, <1>7, OpenTyped, ConsumersTyped DEF StackInv, Stacked, TablesAreOnStack
\* Tables older than s lead as before; those newer do not lead any more.
<1>8. ASSUME NEW t \in Subgoal, OpenTable(t)
      PROVE  /\ Leads(t)' => Leads(t) /\ sf[t].frame <= m
             /\ sf[t].frame < m => (Leads(t)' <=> Leads(t))
  <2> PICK f : f = sf[t].frame
    OBVIOUS
  <2>1. f \in 1..openreg /\ sf'[t].frame = f
    BY <1>4, <1>7, <1>8
  <2>2. \A g \in 1..openreg : frames[g].level \in Nat
    BY FrameTyped
  <2>3. CASE f <= m
    <3>1. frames'[f].level = frames[f].level
      BY SMTT(30), <1>1, <1>4, <2>1, <2>3
    <3>2. f # 1 => f - 1 \in 1..openreg /\ frames'[f - 1].level = frames[f - 1].level
      BY SMTT(30), <1>1, <1>4, <2>1, <2>3
    <3> QED  BY <2>1, <2>3, <3>1, <3>2 DEF Leads, is_leader
  <2>4. CASE m < f
    <3>1. f # 1 /\ f - 1 \in 1..openreg /\ m <= f - 1
      BY <1>1, <2>1, <2>4
    <3>2. frames'[f].level = frames[m].level /\ frames'[f - 1].level = frames[m].level /\ frames[m].level \in Nat
      BY SMTT(30), <1>1, <1>4, <2>1, <2>2, <2>4, <3>1
    <3>3. ~ Leads(t)'
      BY <2>1, <3>1, <3>2 DEF Leads, is_leader
    <3> QED  BY <1>1, <2>1, <2>4, <3>3
  <2> QED  BY <1>1, <2>1, <2>3, <2>4
<1>9. \A i \in 1..k : i \in 1..top \/ i = k
  OBVIOUS
<1>a. FramesHoldTables'
  <2>1. \A f \in 1..openreg : frames[f].subgoal \in Subgoal
    BY FrameTyped
  <2>2. openreg > 0 /\ frames'[1].subgoal = frames[1].subgoal
    BY <1>1, <1>4
  <2>3. FramesHoldTables
    BY DEF StackInv
  <2>4. \A t \in Subgoal : OpenTable(t)' => sf'[t].frame \in 1..openreg' /\ frames'[sf'[t].frame].subgoal = t
    BY <1>3, <1>4, <1>7, <2>3 DEF FramesHoldTables
  <2>5. \A f \in 1..openreg' : OpenTable(frames[f].subgoal)' /\ sf'[frames'[f].subgoal].frame = f
    <3> SUFFICES ASSUME NEW f \in 1..openreg  PROVE OpenTable(frames[f].subgoal)' /\ sf'[frames'[f].subgoal].frame = f
      BY <1>3
    <3>1. frames'[f].subgoal = frames[f].subgoal /\ frames[f].subgoal \in Subgoal
      BY <1>4, <2>1
    <3>2. OpenTable(frames[f].subgoal) /\ sf[frames[f].subgoal].frame = f
      BY <2>3 DEF FramesHoldTables
    <3> QED  BY <1>4, <3>1, <3>2 DEF OpenTable
  <2>6. \A t, u \in Subgoal : OpenTable(t)' /\ OpenTable(u)' =>
          (sf'[t].frame < sf'[u].frame <=> sf'[t].cp < sf'[u].cp)
    BY <1>4, <2>3 DEF FramesHoldTables
  <2>7. root_address' = sf'[frames'[1].subgoal].cp
    <3>1. frames[1].subgoal \in Subgoal /\ root_address = sf[frames[1].subgoal].cp
      BY <1>1, <2>2, OldestLeads
    <3> QED  BY <1>3, <1>4, <2>2, <3>1
  <2>9. openreg' # 0 /\ openreg' = openreg
    BY <1>1, <1>3, <2>2
  <2> QED  BY <2>4, <2>5, <2>6, <2>7, <2>9 DEF FramesHoldTables
<1>b. LevelsNested'
  <2>1. \A f \in 1..openreg : frames[f].level \in 1..level_num
    BY DEF StackInv, LevelsNested
  <2>2. \A f, g \in 1..openreg : f <= g => frames[f].level <= frames[g].level
    BY DEF StackInv, LevelsNested
  <2>3. \A f \in 1..openreg : frames'[f].level \in 1..level_num
    BY <1>1, <1>4, <2>1
  <2>4. ASSUME NEW f \in 1..openreg, NEW g \in 1..openreg, f <= g
        PROVE  frames'[f].level <= frames'[g].level
    <3>1. CASE m <= f
      BY <1>1, <1>4, <2>3, <2>4, <3>1
    <3>2. CASE f < m /\ m <= g
      BY <1>1, <1>4, <2>2, <3>2
    <3>3. CASE g < m
      BY <1>1, <1>4, <2>2, <2>4, <3>3
    <3> QED  BY <1>1, <3>1, <3>2, <3>3
  <2> QED  BY <1>3, <2>3, <2>4 DEF LevelsNested
<1>c. LeadersLeaveRest'
  <2> SUFFICES ASSUME NEW t \in Subgoal, OpenTable(t)  PROVE LeadersLeaveRest!(t)!2'
    BY <1>4 DEF LeadersLeaveRest
  <2>1. LeadersLeaveRest!(t)!2 /\ sf'[t].cp = sf[t].cp /\ sf'[t].frame = sf[t].frame
    BY <1>4 DEF StackInv, LeadersLeaveRest
  <2>2. CASE Leads(t)'
    <3>1. Leads(t) /\ sf[t].frame <= m /\ cps'[sf[t].cp] = cps[sf[t].cp]
      BY <1>1, <1>3, <1>7, <1>8, <2>2
    <3>2. ASSUME NEW u \in Subgoal, OpenTable(u), sf[u].frame < sf[t].frame
          PROVE  u # s /\ Consumers(u)' = Consumers(u) /\ (Leads(u)' <=> Leads(u))
      BY <1>1, <1>5, <1>7, <1>8, <3>1, <3>2
    <3> QED  BY <1>4, <2>1, <2>2, <3>1, <3>2 DEF IsGenerator
  <2>3. CASE ~ Leads(t)'
    BY <1>3, <1>7, <2>1, <2>3
  <2> QED  BY <2>2, <2>3
<1>d. ConsumersDepend'
  <2> SUFFICES ASSUME NEW t \in Subgoal, OpenTable(t), NEW c \in Consumers(t)', cps'[c].ptcp # User,
                      NEW r \in Subgoal, OpenTable(r), Leads(r)', sf[t].frame < sf[r].frame,
                      sf[r].frame <= sf'[cps'[c].ptcp].frame
               PROVE  FALSE
    BY <1>4 DEF ConsumersDepend, Dependent
  <2>1. Leads(r) /\ sf[r].frame <= m
    BY <1>8
  <2>2. CASE t = s /\ c = k
    BY <1>1, <1>7, <2>1, <2>2
  <2>3. CASE c \in Consumers(t)
    <3>1. c \in 1..top /\ cps'[c] = cps[c] /\ cps[c].ptcp \in Subgoal
      BY <1>6, <1>7, <2>3
    <3>2. sf'[cps[c].ptcp].frame = sf[cps[c].ptcp].frame
      BY <1>4, <3>1
    <3> QED  BY <2>1, <2>3, <3>1, <3>2 DEF StackInv, ConsumersDepend, Dependent
  <2> QED  BY <1>4, <1>5, <2>2, <2>3
<1>e. EntriesAreAlive(k)'
  <2> SUFFICES ASSUME NEW i \in 1..k  PROVE EntriesAreAlive(k)!(i)'
    BY DEF EntriesAreAlive
  <2>1. CASE i \in 1..top
    <3>1. EntriesAreAlive(top)!(i) /\ cps'[i] = cps[i] /\ cps[i].ptcp \in Subgoal \cup {User}
      BY <1>6, <2>1 DEF StackInv, Stacked, EntriesAreAlive
    <3> QED  BY <1>4, <1>5, <3>1 DEF IsGenerator
  <2>2. CASE i = k
    BY <1>1, <1>2, <1>3, <1>4, <1>7, <2>2 DEF IsGenerator
  <2> QED  BY <1>9, <2>1, <2>2
<1>f. TablesAreOnStack(k)'
  <2> SUFFICES ASSUME NEW t \in Subgoal, OpenTable(t)  PROVE TablesAreOnStack(k)!(t)!2'
    BY <1>4 DEF TablesAreOnStack
  <2>1. TablesAreOnStack(top)!(t)!2
    BY DEF StackInv, Stacked, TablesAreOnStack
  <2>2. \A c \in Consumers(t)' : c \in Consumers(t) \/ (c = k /\ t = s)
    BY <1>4, <1>5
  <2>3. sf'[t].cp = sf[t].cp /\ sf[t].cp \in 2..top /\ cps'[sf[t].cp] = cps[sf[t].cp]
    BY <1>3, <1>4, <1>7
  <2>4. Consumers(t) \subseteq Consumers(t)'
    BY <1>4, <1>5
  <2>5. ASSUME NEW c \in Consumers(t)'
        PROVE  sf[t].cp <= c /\ c <= k /\ cps'[c].pc = "answer_return" /\ cps'[c].subgoal = t
    <3>1. CASE c \in Consumers(t)
      BY <1>3, <1>7, <2>1, <3>1
    <3>2. CASE c = k /\ t = s
      BY <1>3, <2>3, <3>2
    <3> QED  BY <2>2, <3>1, <3>2
  <2> QED  BY <1>3, <2>1, <2>3, <2>4, <2>5 DEF IsGenerator
<1>g. ~ Waits(k)'
  BY <1>3 DEF Waits, IsGenerator, ReturnsMore
<1>h. WaitsBelow(breg, k)'
  <2> SUFFICES ASSUME NEW q \in 1..k, Waits(q)'  PROVE q <= breg'
    BY DEF WaitsBelow
  <2>1. q \in 1..top /\ Waits(q)
    BY <1>6, <1>9, <1>g
  <2>2. q <= breg
    BY <2>1 DEF StackInv, Stacked, WaitsBelow
  <2> QED  BY <1>1, <1>3, <2>1, <2>2
<1>i. NoneIsSkipped(k)'
  <2> SUFFICES ASSUME NEW i \in 1..k, NEW q \in 1..k, Waits(q)', q < i  PROVE q <= cps'[i].prev
    BY DEF NoneIsSkipped
  <2>1. q \in 1..top /\ Waits(q)
    BY <1>6, <1>9, <1>g
  <2>2. CASE i \in 1..top
    BY <1>6, <2>1, <2>2 DEF StackInv, Stacked, NoneIsSkipped
  <2>3. CASE i = k
    BY <1>3, <2>1, <2>3 DEF StackInv, Stacked, WaitsBelow
  <2> QED  BY <1>9, <2>2, <2>3
<1>j. LinksAreAlive(k)'
  <2>0. LinksAreAlive(top)
    BY DEF StackInv, Stacked
  <2>1. ASSUME NEW i \in 2..k  PROVE LinksAreAlive(k)!1!(i)'
    <3>1. CASE i \in 1..top
      <4>1. i \in 2..top
        BY <3>1
      <4> QED  BY <1>4, <1>5, <1>6, <2>0, <3>1, <4>1 DEF LinksAreAlive
    <3>2. CASE i = k
      BY <1>1, <1>3, <3>2
    <3> QED  BY <1>9, <3>1, <3>2
  <2>2. ASSUME NEW i \in 2..k, NEW q \in 2..k, IsGenerator(q)', i < q  PROVE cps'[i].prev < q
    <3>1. i \in 2..top /\ q \in 2..top /\ i \in 1..top /\ q \in 1..top
      BY <1>3, <2>2 DEF IsGenerator
    <3> QED  BY <1>6, <2>0, <2>2, <3>1 DEF LinksAreAlive
  <2> QED  BY <2>1, <2>2 DEF LinksAreAlive
<1>k. ResumesInOrder(k)'
  <2> SUFFICES ASSUME NEW i \in 2..k, cps'[i].ptcp # User, NEW q \in 1..k, Waits(q)', q < i
               PROVE  Precedes(q, cps[i].ptcp)'
    BY DEF ResumesInOrder
  <2>1. q \in 1..top /\ Waits(q) /\ cps'[q] = cps[q]
    BY <1>6, <1>9
  <2>2. CASE i \in 1..top
    <3>1. cps'[i] = cps[i] /\ cps[i].ptcp \in Subgoal /\ Precedes(q, cps[i].ptcp)
      BY <1>6, <2>1, <2>2 DEF StackInv, Stacked, ResumesInOrder
    <3> QED  BY <1>4, <2>1, <3>1 DEF Precedes
  <2>3. CASE i = k
    <3>1. Precedes(q, p)
      BY <1>2, <2>1
    <3> QED  BY <1>2, <1>3, <1>4, <2>1, <2>3, <3>1 DEF Precedes
  <2> QED  BY <1>9, <2>2, <2>3
<1>l. RunsInOrder'
  <2> SUFFICES ASSUME running'  PROVE OpenTable(p)' /\ \A q \in 1..k : Waits(q)' => Precedes(q, p)'
    BY <1>2, <1>3 DEF RunsInOrder
  <2>1. ASSUME NEW q \in 1..k, Waits(q)'  PROVE Precedes(q, p)'
    <3>1. q \in 1..top /\ Waits(q) /\ cps'[q] = cps[q]
      BY <1>6, <1>9, <1>g, <2>1
    <3>2. Precedes(q, p)
      BY <1>2, <3>1
    <3> QED  BY <1>2, <1>4, <3>1, <3>2 DEF Precedes
  <2> QED  BY <1>2, <1>4, <2>1
<1>m. Stacked(breg, top_of_cpstack)'
  BY <1>3, <1>e, <1>f, <1>h, <1>i, <1>j, <1>k DEF Stacked
<1> QED  BY <1>a, <1>b, <1>c, <1>d, <1>l, <1>m DEF StackInv
\* What a generator that does not lead becomes.
LEMMA makeConsumerFacts ==
  ASSUME Typed, StackInv, NEW s \in Subgoal, makeConsumerFromGenerator(s)
  PROVE  /\ AtCheckComplete(s) /\ OpenTable(s) /\ sf[s].cp = breg /\ IsGenerator(breg) /\ ~ Leads(s)
         /\ breg \in 2..top_of_cpstack /\ breg <= bfreg /\ top_of_cpstack' = top_of_cpstack
         /\ cps[breg].prev \in 1..top_of_cpstack /\ cps[breg].prev < breg /\ breg' = cps[breg].prev
         /\ cps' \in Seq(Entry) /\ Len(cps') = Len(cps)
         /\ \A i \in 1..Len(cps) : /\ i # breg => cps'[i] = cps[i]
                                   /\ cps'[i].subgoal = cps[i].subgoal /\ cps'[i].cont = cps[i].cont
                                   /\ cps'[i].ptcp = cps[i].ptcp /\ cps'[i].prev = cps[i].prev
                                   /\ cps'[i].bfreg = cps[i].bfreg /\ cps'[i].left = cps[i].left
         /\ cps'[breg].pc = "answer_return" /\ cps'[breg].ret = 0
         /\ sf' \in [Subgoal -> SubgoalFrame]
         /\ \A t \in Subgoal : /\ t # s => sf'[t] = sf[t]
                               /\ OpenTable(t)' = OpenTable(t) /\ sf'[t].cp = sf[t].cp /\ sf'[t].frame = sf[t].frame
                               /\ sf'[t].answers = sf[t].answers /\ sf'[t].complete = sf[t].complete
                               /\ sf'[t].called = sf[t].called /\ sf'[t].reclaimed = sf[t].reclaimed
         /\ sf'[s].asf = <<breg>> \o sf[s].asf /\ Consumers(s)' = {breg} \cup Consumers(s)
         /\ ~ running' /\ UNCHANGED <<goal, ptcpreg, tree, bfreg, frames, openreg, level_num, root_address>>
<1> PICK k \in Nat : k = breg
  BY Tops
<1>1. AtCheckComplete(s) /\ ~ Leads(s)
  BY DEF makeConsumerFromGenerator, Leads
<1>2. OpenTable(s) /\ sf[s].cp = k /\ IsGenerator(k) /\ k \in 2..top_of_cpstack /\ k \in 1..Len(cps)
  BY <1>1, GeneratorOnTop
<1>3. k <= bfreg
  BY <1>1, <1>2 DEF StackInv, LeadersLeaveRest
<1>4. cps[k].prev \in Nat /\ cps[k].prev >= 1 /\ cps[k].prev < k /\ cps[k] \in Entry
  BY <1>2, EntryTyped DEF StackInv, Stacked, LinksAreAlive, IsGenerator
<1>5. breg' = cps[k].prev /\ bfreg' = bfreg /\ ~ running'
      /\ UNCHANGED <<goal, ptcpreg, tree, bfreg, frames, openreg, level_num, root_address>>
  BY DEF makeConsumerFromGenerator, Fail1
<1>6. top_of_cpstack' = top_of_cpstack
  BY <1>3, <1>4, <1>5, Tops DEF top_of_cpstack, Higher
<1>7. /\ cps' \in Seq(Entry) /\ Len(cps') = Len(cps)
      /\ \A i \in 1..Len(cps) : i # k => cps'[i] = cps[i]
      /\ cps'[k] = [cps[k] EXCEPT !.pc = "answer_return", !.ret = 0]
  <2> DEFINE e == [cps[k] EXCEPT !.pc = "answer_return", !.ret = 0]
  <2>1. e \in Entry
    BY <1>4 DEF Entry
  <2>2. cps \in Seq(Entry) /\ cps' = [cps EXCEPT ![k] = e]
    BY <1>2 DEF makeConsumerFromGenerator, Typed
  <2> HIDE DEF e
  <2>3. cps' \in Seq(Entry) /\ Len(cps') = Len(cps) /\ \A i \in 1..Len(cps) : cps'[i] = IF i = k THEN e ELSE cps[i]
    BY <1>2, <2>1, <2>2, ExceptSeq
  <2> QED  BY <1>2, <2>3 DEF e
<1>8. /\ cps'[k].pc = "answer_return" /\ cps'[k].ret = 0
      /\ cps'[k].subgoal = cps[k].subgoal /\ cps'[k].cont = cps[k].cont
      /\ cps'[k].ptcp = cps[k].ptcp /\ cps'[k].prev = cps[k].prev
      /\ cps'[k].bfreg = cps[k].bfreg /\ cps'[k].left = cps[k].left
  BY <1>4, <1>7 DEF Entry
<1>9. /\ sf' \in [Subgoal -> SubgoalFrame]
      /\ \A t \in Subgoal : /\ t # s => sf'[t] = sf[t]
                            /\ OpenTable(t)' = OpenTable(t) /\ sf'[t].cp = sf[t].cp /\ sf'[t].frame = sf[t].frame
                            /\ sf'[t].answers = sf[t].answers /\ sf'[t].complete = sf[t].complete
                            /\ sf'[t].called = sf[t].called /\ sf'[t].reclaimed = sf[t].reclaimed
      /\ sf'[s].asf = <<k>> \o sf[s].asf /\ Consumers(s)' = {k} \cup Consumers(s)
  <2>1. sf[s].asf \in Seq(Nat) /\ sf[s] \in SubgoalFrame /\ sf \in [Subgoal -> SubgoalFrame]
    BY TableTyped DEF Typed
  <2> DEFINE list == <<k>> \o sf[s].asf
  <2>2. list \in Seq(Nat) /\ Range(list) = {k} \cup Range(sf[s].asf)
    BY <2>1, Suspended
  <2>3. sf' = [sf EXCEPT ![s] = [sf[s] EXCEPT !.asf = list]]
    BY <2>1 DEF makeConsumerFromGenerator
  <2> HIDE DEF list
  <2>4. [sf[s] EXCEPT !.asf = list] \in SubgoalFrame
    BY <2>1, <2>2 DEF SubgoalFrame
  <2>5. sf' \in [Subgoal -> SubgoalFrame]
    BY <2>1, <2>3, <2>4
  <2>6. sf'[s] = [sf[s] EXCEPT !.asf = list] /\ \A t \in Subgoal : t # s => sf'[t] = sf[t]
    BY <2>1, <2>3
  <2>7. /\ sf'[s].cp = sf[s].cp /\ sf'[s].frame = sf[s].frame /\ sf'[s].answers = sf[s].answers
        /\ sf'[s].complete = sf[s].complete /\ sf'[s].called = sf[s].called
        /\ sf'[s].reclaimed = sf[s].reclaimed /\ sf'[s].asf = list
    BY <2>1, <2>6 DEF SubgoalFrame
  <2>8. Consumers(s)' = {k} \cup Consumers(s)
    BY <2>2, <2>7 DEF Consumers
  <2> QED  BY <2>5, <2>6, <2>7, <2>8 DEF OpenTable, list
<1>10. \A i \in 1..Len(cps) : /\ i # k => cps'[i] = cps[i]
                              /\ cps'[i].subgoal = cps[i].subgoal /\ cps'[i].cont = cps[i].cont
                              /\ cps'[i].ptcp = cps[i].ptcp /\ cps'[i].prev = cps[i].prev
                              /\ cps'[i].bfreg = cps[i].bfreg /\ cps'[i].left = cps[i].left
  BY <1>7, <1>8
<1>11. cps[k].prev \in 1..top_of_cpstack
  BY <1>2, <1>4, Tops
<1>12. breg = k
  OBVIOUS
<1> HIDE DEF makeConsumerFromGenerator, OpenTable, Consumers
<1> QED  BY <1>1, <1>2, <1>3, <1>4, <1>5, <1>6, <1>7, <1>8, <1>9, <1>10, <1>11, <1>12

LEMMA makeConsumerStack == Typed /\ StackInv /\ (\E s \in Subgoal : makeConsumerFromGenerator(s)) => StackInv'
<1> SUFFICES ASSUME Typed, StackInv, NEW s \in Subgoal, makeConsumerFromGenerator(s)  PROVE StackInv'
  OBVIOUS
<1> PICK top \in Nat : top = top_of_cpstack
  BY Tops
<1> PICK k \in Nat : k = breg
  BY Tops
<1> PICK b : b = cps[k].prev
  OBVIOUS
<1>1. /\ OpenTable(s) /\ sf[s].cp = k /\ IsGenerator(k) /\ ~ Leads(s)
      /\ k \in 2..top /\ k <= bfreg /\ bfreg \in Nat /\ top_of_cpstack' = top
      /\ b \in 1..top /\ b < k /\ breg' = b /\ top \in 1..Len(cps)
  BY makeConsumerFacts, Tops
<1>2. /\ \A i \in 1..top : /\ i # k => cps'[i] = cps[i]
                           /\ cps'[i].subgoal = cps[i].subgoal /\ cps'[i].ptcp = cps[i].ptcp
                           /\ cps'[i].prev = cps[i].prev /\ cps'[i].bfreg = cps[i].bfreg
      /\ cps'[k].pc = "answer_return"
      /\ ~ running' /\ UNCHANGED <<tree, bfreg, frames, openreg, level_num, root_address>>
  BY <1>1, makeConsumerFacts
<1>3. /\ \A t \in Subgoal : /\ t # s => sf'[t] = sf[t]
                            /\ OpenTable(t)' = OpenTable(t) /\ sf'[t].cp = sf[t].cp /\ sf'[t].frame = sf[t].frame
                            /\ sf'[t].complete = sf[t].complete
      /\ Consumers(s)' = {k} \cup Consumers(s)
  BY makeConsumerFacts
<1>4. \A t \in Subgoal : (t # s => Consumers(t)' = Consumers(t)) /\ (Leads(t)' <=> Leads(t))
  BY <1>2, <1>3 DEF Consumers, Leads, is_leader
<1>5. ASSUME NEW i \in 1..top
      PROVE  /\ i \in 1..Len(cps) /\ cps[i].ptcp \in Subgoal \cup {User} /\ cps[i].prev \in Nat
             /\ Waits(i)' => Waits(i) /\ i # k /\ i <= b
             /\ IsGenerator(i)' => IsGenerator(i) /\ i # k
  <2>1. i \in 1..Len(cps)
    BY <1>1
  <2>2. ~ Waits(k)' /\ ~ IsGenerator(k)'
    BY <1>2 DEF Waits, IsGenerator, ReturnsMore
  <2>3. ASSUME i # k  PROVE (Waits(i)' => Waits(i)) /\ (IsGenerator(i)' => IsGenerator(i))
    BY <1>2, <1>3, <2>1, <2>3, EntryTyped DEF Waits, IsGenerator, ReturnsMore
  <2>4. ASSUME Waits(i), i # k  PROVE i <= b
    <3>1. i <= k /\ i < k
      BY <2>4 DEF StackInv, Stacked, WaitsBelow
    <3> QED  BY <1>1, <2>4, <3>1 DEF StackInv, Stacked, NoneIsSkipped
  <2> QED  BY <2>1, <2>2, <2>3, <2>4, EntryTyped
<1>6. ASSUME NEW t \in Subgoal, OpenTable(t)
      PROVE  /\ sf[t].cp \in 2..top /\ (sf[t].cp = k <=> t = s)
             /\ \A c \in Consumers(t) : c \in 1..top /\ c # k /\ c <= bfreg
  <2>1. sf[t].cp \in 2..top /\ (sf[t].cp = k <=> t = s)
    BY <1>1, <1>6, OpenTyped, AgeOrder
  <2>2. AtCheckComplete(s)
    BY makeConsumerFacts
  <2> QED  BY <1>6, <2>1, <2>2, GeneratorOnTop
<1>a. FramesHoldTables' /\ LevelsNested'
  <2>1. \A f \in 1..openreg : frames[f].subgoal \in Subgoal
    BY FrameTyped
  <2>2. FramesHoldTables /\ LevelsNested
    BY DEF StackInv
  <2>3. openreg > 0 => frames[1].subgoal \in Subgoal
    BY OldestLeads
  <2>4. FramesHoldTables'
    BY <1>2, <1>3, <2>1, <2>2, <2>3 DEF FramesHoldTables
  <2> QED  BY <1>2, <2>2, <2>4 DEF LevelsNested
<1>b. LeadersLeaveRest'
  <2> SUFFICES ASSUME NEW t \in Subgoal, OpenTable(t)  PROVE LeadersLeaveRest!(t)!2'
    BY <1>3 DEF LeadersLeaveRest
  <2>1. LeadersLeaveRest!(t)!2 /\ sf'[t].cp = sf[t].cp /\ sf'[t].frame = sf[t].frame
    BY <1>3 DEF StackInv, LeadersLeaveRest
  <2>2. CASE Leads(t)
    <3>1. t # s /\ sf[t].cp \in 1..top /\ sf[t].cp # k /\ cps'[sf[t].cp] = cps[sf[t].cp]
      BY <1>1, <1>2, <1>6, <2>2
    <3>2. ASSUME NEW u \in Subgoal, OpenTable(u), sf[u].frame < sf[t].frame
          PROVE  \A c \in Consumers(u)' : c <= cps[sf[t].cp].bfreg
      BY <1>1, <1>3, <1>4, <2>1, <2>2, <3>2
    <3> QED  BY <1>3, <1>4, <2>1, <2>2, <3>1, <3>2 DEF IsGenerator
  <2>3. CASE ~ Leads(t)
    BY <1>2, <1>4, <2>1, <2>3
  <2> QED  BY <2>2, <2>3
<1>c. ConsumersDepend'
  <2> SUFFICES ASSUME NEW t \in Subgoal, OpenTable(t), NEW c \in Consumers(t)', cps'[c].ptcp # User,
                      NEW r \in Subgoal, OpenTable(r), Leads(r), sf[t].frame < sf[r].frame,
                      sf[r].frame <= sf'[cps'[c].ptcp].frame
               PROVE  FALSE
    BY <1>3, <1>4 DEF ConsumersDepend, Dependent
  <2>1. c \in 1..top
    BY <1>1, <1>3, <1>4, <1>6
  <2> PICK p : p = cps[c].ptcp
    OBVIOUS
  <2>2. p \in Subgoal /\ cps'[c].ptcp = p /\ sf'[p].frame = sf[p].frame /\ OpenTable(p) /\ sf[p].cp < c
    BY <1>2, <1>3, <1>5, <2>1 DEF StackInv, Stacked, EntriesAreAlive
  <2>3. CASE t = s /\ c = k
    <3>1. sf[p].frame < sf[s].frame
      BY <1>1, <2>2, <2>3, AgeOrder
    <3> QED  BY <2>2, <2>3, <3>1, OpenTyped
  <2>4. CASE c \in Consumers(t)
    BY <2>2, <2>4 DEF StackInv, ConsumersDepend, Dependent
  <2> QED  BY <1>3, <1>4, <2>3, <2>4
<1>d. EntriesAreAlive(top)'
  <2> SUFFICES ASSUME NEW i \in 1..top  PROVE EntriesAreAlive(top)!(i)'
    BY DEF EntriesAreAlive
  <2>1. EntriesAreAlive(top)!(i) /\ cps[i].ptcp \in Subgoal \cup {User}
    BY <1>5 DEF StackInv, Stacked, EntriesAreAlive
  <2>2. CASE i = k
    <3>1. cps[k].subgoal = s /\ i # 1
      BY <1>1, <2>2, OpenTyped
    <3> QED  BY <1>1, <1>2, <1>3, <2>1, <2>2, <3>1 DEF IsGenerator
  <2>3. CASE i # k
    <3>1. cps'[i] = cps[i]
      BY <1>2, <2>3
    <3> QED  BY <1>3, <1>4, <2>1, <3>1 DEF IsGenerator
  <2> QED  BY <2>2, <2>3
<1>e. TablesAreOnStack(top)'
  <2> SUFFICES ASSUME NEW t \in Subgoal, OpenTable(t)  PROVE TablesAreOnStack(top)!(t)!2'
    BY <1>3 DEF TablesAreOnStack
  <2>1. TablesAreOnStack(top)!(t)!2 /\ sf'[t].cp = sf[t].cp
    BY <1>3 DEF StackInv, Stacked, TablesAreOnStack
  <2>2. ASSUME NEW c \in Consumers(t)
        PROVE  sf[t].cp <= c /\ c <= bfreg /\ cps'[c].pc = "answer_return" /\ cps'[c].subgoal = t
    BY <1>2, <1>6, <2>1, <2>2
  <2>3. CASE t = s
    <3>1. cps'[k].subgoal = s
      BY <1>1, <1>2, OpenTyped
    <3> QED  BY <1>1, <1>2, <1>3, <2>1, <2>2, <2>3, <3>1
  <2>4. CASE t # s
    <3>1. cps'[sf[t].cp] = cps[sf[t].cp]
      BY <1>2, <1>6, <2>4
    <3> QED  BY <1>2, <1>4, <2>1, <2>2, <2>4, <3>1 DEF IsGenerator
  <2> QED  BY <2>3, <2>4
<1>f. WaitsBelow(b, top)'
  <2>1. breg' = b
    BY <1>1
  <2> QED  BY <1>5 DEF WaitsBelow
<1>g. NoneIsSkipped(top)'
  BY <1>2, <1>5 DEF StackInv, Stacked, NoneIsSkipped
<1>h. LinksAreAlive(top)'
  <2>0. LinksAreAlive(top)
    BY DEF StackInv, Stacked
  <2>1. ASSUME NEW i \in 2..top  PROVE LinksAreAlive(top)!1!(i)'
    <3>1. LinksAreAlive(top)!1!(i) /\ cps'[i].prev = cps[i].prev
      BY <1>2, <2>0 DEF LinksAreAlive
    <3>2. CASE i = k
      BY <1>1, <1>2, <3>1, <3>2
    <3>3. CASE i # k
      BY <1>2, <1>3, <1>4, <3>1, <3>3
    <3> QED  BY <3>2, <3>3
  <2>2. ASSUME NEW i \in 2..top, NEW q \in 2..top, IsGenerator(q)', i < q  PROVE cps'[i].prev < q
    BY <1>2, <1>5, <2>0, <2>2 DEF LinksAreAlive
  <2> QED  BY <2>1, <2>2 DEF LinksAreAlive
<1>i. ResumesInOrder(top)'
  <2> SUFFICES ASSUME NEW i \in 2..top, cps'[i].ptcp # User, NEW q \in 1..top, Waits(q)', q < i
               PROVE  Precedes(q, cps[i].ptcp)'
    BY DEF ResumesInOrder
  <2>1. Waits(q) /\ cps'[q] = cps[q] /\ cps'[i].ptcp = cps[i].ptcp /\ cps[i].ptcp \in Subgoal
    BY <1>2, <1>5
  <2>2. Precedes(q, cps[i].ptcp)
    BY <2>1 DEF StackInv, Stacked, ResumesInOrder
  <2> QED  BY <1>3, <2>1, <2>2 DEF Precedes
<1>j. RunsInOrder'
  BY <1>2 DEF RunsInOrder
<1>k. Stacked(breg, top_of_cpstack)'
  BY <1>1, <1>d, <1>e, <1>f, <1>g, <1>h, <1>i DEF Stacked
<1> QED  BY <1>a, <1>b, <1>c, <1>j, <1>k DEF StackInv
\* The choice points after find_fixpoint, those of the older tables being as they were.
LEMMA FixpointTyped ==
  ASSUME Typed, StackInv, NEW s \in Subgoal, AtCheckComplete(s)
  PROVE  LET stack == find_fixpoint(s) IN
         /\ stack \in Seq(Entry) /\ Len(stack) = Len(cps)
         /\ \A i \in 1..Len(cps) : stack[i].prev \in 0..Len(cps)
         /\ \A i \in 1..Len(cps) : i <= breg => stack[i] = cps[i]
<1> DEFINE stack == find_fixpoint(s)
<1>1. DOMAIN cps = 1..Len(cps) /\ Len(cps) \in Nat /\ breg \in Nat /\ top_of_cpstack <= Len(cps) /\ top_of_cpstack \in Nat
  BY Tops DEF Typed
<1>2. \A i \in 1..Len(cps) : stack[i] = [cps[i] EXCEPT !.prev = FixpointPrev(s, i)]
  BY <1>1 DEF find_fixpoint
<1>3. ASSUME NEW i \in 1..Len(cps)
      PROVE  /\ FixpointPrev(s, i) \in 0..Len(cps)
             /\ i <= breg => FixpointPrev(s, i) = cps[i].prev
  <2>1. CASE FixpointPrev(s, i) = cps[i].prev
    BY <2>1 DEF Typed
  <2>2. CASE FixpointPrev(s, i) # cps[i].prev
    <3>1. breg < i /\ (FixpointPrev(s, i) = breg \/ \E t \in Subgoal : OpenTable(t) /\ FixpointPrev(s, i) \in Consumers(t))
      BY <2>2, Relinks
    <3>2. \A t \in Subgoal : OpenTable(t) => \A c \in Consumers(t) : c \in 1..top_of_cpstack
      BY GeneratorOnTop
    <3> QED  BY <1>1, <3>1, <3>2, Tops
  <2> QED  BY <2>1, <2>2
<1>4. ASSUME NEW i \in 1..Len(cps)
      PROVE  stack[i] \in Entry /\ stack[i].prev = FixpointPrev(s, i) /\ (i <= breg => stack[i] = cps[i])
  <2>1. cps[i] \in Entry /\ FixpointPrev(s, i) \in Nat
    BY <1>1, <1>3, EntryTyped
  <2>2. \A c \in Entry : [c EXCEPT !.prev = c.prev] = c
    BY DEF Entry
  <2>3. stack[i] \in Entry /\ stack[i].prev = FixpointPrev(s, i)
    <3>1. stack[i] = [cps[i] EXCEPT !.prev = FixpointPrev(s, i)]
      BY <1>2
    <3> HIDE DEF stack
    <3> QED  BY <2>1, <3>1 DEF Entry
  <2>4. i <= breg => stack[i] = [cps[i] EXCEPT !.prev = cps[i].prev]
    BY <1>2, <1>3
  <2> QED  BY <2>1, <2>2, <2>3, <2>4
<1>5. DOMAIN stack = 1..Len(cps)
  BY <1>1 DEF find_fixpoint
<1>6. stack \in [1..Len(cps) -> Entry]
  <2>1. stack = [i \in DOMAIN cps |-> [cps[i] EXCEPT !.prev = FixpointPrev(s, i)]]
    BY DEF find_fixpoint
  <2> QED  BY <1>1, <1>2, <1>4, <2>1
<1> HIDE DEF stack
<1>7. stack \in Seq(Entry) /\ Len(stack) = Len(cps)
  BY <1>1, <1>6
<1> QED  BY <1>3, <1>4, <1>7 DEF stack

\* What Complete(s) leaves of the tables: those older than s.
LEMMA CompletedTables ==
  ASSUME Typed, StackInv, NEW s \in Subgoal, Complete(s)
  PROVE  /\ AtCheckComplete(s) /\ OpenTable(s) /\ sf[s].cp = breg /\ IsGenerator(breg) /\ Leads(s)
         /\ sf' \in [Subgoal -> SubgoalFrame]
         /\ \A t \in Subgoal :
              /\ OpenTable(t)' <=> OpenTable(t) /\ sf[t].frame < sf[s].frame
              /\ OpenTable(t)' <=> OpenTable(t) /\ sf[t].cp < breg
              /\ OpenTable(t)' => sf'[t] = sf[t]
              /\ sf'[t].answers = sf[t].answers /\ sf'[t].cp = sf[t].cp /\ sf'[t].called = sf[t].called
              /\ sf'[t].asf = sf[t].asf \/ (t = s /\ sf'[t].asf = <<>>)
              /\ IF OpenTable(t) /\ sf[s].frame <= sf[t].frame
                   THEN sf'[t].complete /\ sf'[t].reclaimed
                   ELSE sf'[t] = sf[t]
<1>1. AtCheckComplete(s) /\ Leads(s)
  BY DEF Complete, Leads
<1>2. OpenTable(s) /\ sf[s].cp = breg /\ IsGenerator(breg) /\ breg \in Nat
  BY <1>1, GeneratorOnTop, Tops
<1>a. sf[s].frame \in 1..openreg /\ openreg \in Nat
  <2>1. OpenTable(s)
    BY <1>2
  <2>2. sf[s].frame \in 1..openreg
    BY <2>1, OpenTyped
  <2>3. openreg \in Nat
    BY DEF Typed
  <2> QED  BY <2>2, <2>3
<1> DEFINE scc == {frames[i].subgoal : i \in sf[s].frame..openreg}
<1>3. sf' = [t \in Subgoal |->
               IF t \in scc THEN [sf[t] EXCEPT !.complete = TRUE, !.reclaimed = TRUE,
                                               !.asf = IF t = s THEN <<>> ELSE @]
                            ELSE sf[t]]
  BY DEF Complete
<1>4. ASSUME NEW t \in Subgoal  PROVE t \in scc <=> OpenTable(t) /\ sf[s].frame <= sf[t].frame
  <2>1. sf[s].frame \in 1..openreg /\ openreg \in Nat
    BY <1>a
  <2>2. ASSUME t \in scc  PROVE OpenTable(t) /\ sf[s].frame <= sf[t].frame
    <3>1. PICK i \in sf[s].frame..openreg : t = frames[i].subgoal
      BY <2>2
    <3>2. i \in 1..openreg
      BY <2>1
    <3> QED  BY <3>1, <3>2 DEF StackInv, FramesHoldTables
  <2>3. ASSUME OpenTable(t), sf[s].frame <= sf[t].frame  PROVE t \in scc
    <3>1. sf[t].frame \in sf[s].frame..openreg /\ t = frames[sf[t].frame].subgoal
      BY <2>1, <2>3, OpenTyped
    <3> QED  BY <3>1
  <2> QED  BY <2>2, <2>3
<1>5. ASSUME NEW t \in Subgoal
      PROVE  /\ t \notin scc => sf'[t] = sf[t]
             /\ sf'[t] \in SubgoalFrame
             /\ sf'[t].answers = sf[t].answers /\ sf'[t].cp = sf[t].cp /\ sf'[t].called = sf[t].called
             /\ sf'[t].asf = sf[t].asf \/ (t = s /\ sf'[t].asf = <<>>)
             /\ t \in scc => sf'[t].complete /\ sf'[t].reclaimed
  <2>1. sf[t] \in SubgoalFrame
    BY TableTyped
  <2>2. CASE t \notin scc
    BY <1>3, <2>1, <2>2
  <2>3. CASE t \in scc /\ t # s
    <3>1. sf'[t] = [sf[t] EXCEPT !.complete = TRUE, !.reclaimed = TRUE, !.asf = sf[t].asf]
      BY <1>3, <2>3
    <3> HIDE DEF scc
    <3> QED  BY <2>1, <2>3, <3>1 DEF SubgoalFrame
  <2>4. CASE t \in scc /\ t = s
    <3>1. sf'[t] = [sf[t] EXCEPT !.complete = TRUE, !.reclaimed = TRUE, !.asf = <<>>]
      BY <1>3, <2>4
    <3>2. <<>> \in Seq(Nat)
      BY EmptySeq
    <3> HIDE DEF scc
    <3> QED  BY <2>1, <2>4, <3>1, <3>2 DEF SubgoalFrame
  <2> QED  BY <2>2, <2>3, <2>4
<1>6. sf' \in [Subgoal -> SubgoalFrame]
  <2>1. DOMAIN sf' = Subgoal
    BY <1>3
  <2>2. sf' = [t \in Subgoal |-> sf'[t]]
    BY <1>3
  <2> HIDE DEF scc
  <2> QED  BY <1>5, <2>2
<1> HIDE DEF scc
<1>7. ASSUME NEW t \in Subgoal
      PROVE  /\ OpenTable(t)' <=> OpenTable(t) /\ sf[t].frame < sf[s].frame
             /\ OpenTable(t)' <=> OpenTable(t) /\ sf[t].cp < breg
             /\ OpenTable(t)' => sf'[t] = sf[t]
  <2>1. sf[t].frame \in Nat /\ sf[s].frame \in Nat
    BY TableTyped
  <2>2. OpenTable(t)' <=> OpenTable(t) /\ t \notin scc
    BY <1>4, <1>5 DEF OpenTable
  <2>3. OpenTable(t) => (sf[t].frame < sf[s].frame <=> sf[t].cp < breg)
    BY <1>2, AgeOrder
  <2> QED  BY <1>4, <1>5, <2>1, <2>2, <2>3
<1> QED  BY <1>1, <1>2, <1>4, <1>5, <1>6, <1>7

\* What reclaim_stacks leaves frozen is what was when the generator was made.
LEMMA Reclaimed ==
  ASSUME Typed, StackInv, NEW s \in Subgoal, Complete(s)
  PROVE  /\ bfreg' \in 1..breg - 1 /\ bfreg' <= bfreg
         /\ openreg' = sf[s].frame - 1 /\ openreg' \in 0..openreg
         /\ openreg' = 0 => root_address' = 0 /\ level_num' = 0 /\ bfreg' = 1
         /\ openreg' > 0 => /\ UNCHANGED <<root_address, level_num>>
                            /\ bfreg' = bfreg \/ bfreg' = cps[breg].bfreg
         /\ frames' = frames
<1>1. AtCheckComplete(s) /\ OpenTable(s) /\ sf[s].cp = breg
  BY CompletedTables
<1>2. OpenTable(s)
  BY <1>1
<1>3. sf[s].frame \in 1..openreg
  BY <1>2, OpenTyped
<1>4. openreg \in Nat /\ breg \in Nat /\ bfreg \in Nat /\ bfreg >= 1
  BY Tops DEF Typed
<1>5. breg \in 2..top_of_cpstack /\ breg \in 1..Len(cps) /\ IsGenerator(breg)
  BY <1>1, GeneratorOnTop
<1>6. cps[breg].bfreg \in Nat /\ cps[breg].bfreg >= 1 /\ cps[breg].bfreg < breg
  <2>1. cps[breg].bfreg \in Nat
    BY <1>5, EntryTyped
  <2>2. EntriesAreAlive(top_of_cpstack)!(breg)
    BY <1>5, Tops DEF StackInv, Stacked, EntriesAreAlive
  <2> QED  BY <1>5, <2>1, <2>2
<1>7. openreg' = sf[s].frame - 1 /\ frames' = frames
      /\ IF breg = root_address
           THEN bfreg' = 1 /\ level_num' = 0 /\ root_address' = 0
           ELSE bfreg' = Lower(bfreg, cps[breg].bfreg) /\ UNCHANGED <<level_num, root_address>>
  BY DEF Complete, reclaim_stacks
<1>8. breg = root_address <=> sf[s].frame = 1
  <2> DEFINE r == frames[1].subgoal
  <2>1. r \in Subgoal /\ OpenTable(r) /\ sf[r].frame = 1 /\ sf[r].cp = root_address
    BY <1>3, <1>4, OldestLeads
  <2> HIDE DEF r
  <2> QED  BY <1>1, <2>1, AgeOrder
<1>9. sf[s].frame \in Nat /\ sf[s].frame >= 1 /\ sf[s].frame <= openreg
  BY <1>3, <1>4, TableTyped
<1>10. openreg' \in 0..openreg /\ (openreg' = 0 <=> breg = root_address)
  BY <1>4, <1>7, <1>8, <1>9
<1>11. CASE breg = root_address
  <2>1. bfreg' \in 1..breg - 1 /\ bfreg' <= bfreg
    BY <1>4, <1>5, <1>7, <1>11
  <2> QED  BY <1>7, <1>10, <1>11, <2>1
<1>12. CASE breg # root_address
  <2>1. bfreg' \in 1..breg - 1 /\ bfreg' <= bfreg /\ (bfreg' = bfreg \/ bfreg' = cps[breg].bfreg)
    BY <1>4, <1>5, <1>6, <1>7, <1>12 DEF Lower
  <2>2. openreg' # 0 /\ UNCHANGED <<level_num, root_address>>
    BY <1>7, <1>10, <1>12
  <2> QED  BY <1>7, <1>10, <2>1, <2>2
<1> QED  BY <1>11, <1>12

\* The choice points that are left, up to T, and where to go on.
LEMMA CompletedEntries ==
  ASSUME Typed, StackInv, NEW s \in Subgoal, Complete(s)
  PROVE  LET b == cps[breg].prev
             T == Higher(b, bfreg')
             p == cps[breg].ptcp
             left == Range(sf[s].answers)
         IN  /\ b \in 1..breg - 1 /\ T \in 1..breg - 1 /\ b <= T /\ bfreg' <= T
             /\ cps' \in Seq(Entry) /\ T <= Len(cps')
             /\ \A i \in 1..T : cps'[i] = cps[i]
             /\ \/ /\ left = {} /\ sf[s].answers = <<>> /\ breg' = b /\ Len(cps') = Len(cps)
                   /\ \A i \in 1..Len(cps) : cps'[i].prev \in 0..Len(cps)
                   /\ Fail1
                \/ \E a \in left :
                     /\ Return(a, cps[breg].cont, p)
                     /\ \/ /\ breg' = b /\ left = {a} /\ Len(cps') = Len(cps)
                           /\ \A i \in 1..Len(cps) : cps'[i].prev \in 0..Len(cps)
                        \/ /\ breg' = T + 1 /\ Len(cps') = T + 1 /\ left \ {a} # {}
                           /\ cps'[T + 1].pc = "trie" /\ cps'[T + 1].prev = b /\ cps'[T + 1].bfreg = 0
                           /\ cps'[T + 1].ptcp = p /\ cps'[T + 1].cont = cps[breg].cont
                           /\ cps'[T + 1].left = left \ {a}
<1>k. PICK k \in Nat : k = breg
  BY Tops
<1>b. PICK b : b = cps[k].prev
  OBVIOUS
<1>T. PICK T : T = Higher(b, bfreg')
  OBVIOUS
<1>p. PICK p : p = cps[k].ptcp
  OBVIOUS
<1>n. PICK cont : cont = cps[k].cont
  OBVIOUS
<1>l. PICK left : left = Range(sf[s].answers)
  OBVIOUS
<1>f. PICK stack : stack = find_fixpoint(s)
  OBVIOUS
<1>1. AtCheckComplete(s)
  BY CompletedTables
<1>2. k \in 2..top_of_cpstack /\ k \in 1..Len(cps) /\ IsGenerator(k)
  BY <1>1, <1>k, GeneratorOnTop
<1>3. b \in Nat /\ p \in Subgoal \cup {User} /\ cont \in Goal \cup {Asking}
  BY <1>2, <1>b, <1>p, <1>n, EntryTyped DEF Entry
<1>4. b >= 1 /\ b < k
  BY <1>2, <1>b DEF StackInv, Stacked, LinksAreAlive, IsGenerator
<1>5. bfreg' \in 1..k - 1
  BY <1>k, Reclaimed
<1>6. b \in 1..k - 1 /\ T \in 1..k - 1 /\ b <= T /\ bfreg' <= T /\ T \in 0..Len(cps) /\ T \in Nat
  BY <1>2, <1>3, <1>4, <1>5, <1>T DEF Higher
<1>7. /\ stack \in Seq(Entry) /\ Len(stack) = Len(cps)
      /\ \A i \in 1..Len(cps) : stack[i].prev \in 0..Len(cps)
      /\ \A i \in 1..Len(cps) : i <= k => stack[i] = cps[i]
  BY <1>1, <1>f, <1>k, FixpointTyped
<1>8. stack[k] = cps[k] /\ \A i \in 1..T : stack[i] = cps[i]
  BY <1>2, <1>6, <1>7
<1>9. IF sf[s].answers # <<>>
        THEN TrieReturn(left, stack, stack[k].prev, Higher(stack[k].prev, bfreg'), stack[k].cont, stack[k].ptcp)
        ELSE cps' = stack /\ breg' = stack[k].prev /\ Fail1
  BY <1>f, <1>k, <1>l DEF Complete
<1>10. left \in SUBSET Answer /\ (sf[s].answers = <<>> => left = {})
  <2>1. sf[s].answers \in Seq(Answer)
    BY TableTyped
  <2>2. left \subseteq Answer
    BY <1>l, <2>1, RangeOfSeq
  <2> QED  BY <1>l, <2>2 DEF Range
<1>a. CASE sf[s].answers = <<>>
  <2>1. cps' = stack /\ breg' = b /\ Fail1
    BY <1>8, <1>9, <1>a, <1>b
  <2>2. Len(cps') = Len(cps) /\ \A i \in 1..Len(cps) : cps'[i].prev \in 0..Len(cps)
    BY <1>7, <2>1
  <2>3. cps' \in Seq(Entry) /\ T <= Len(cps') /\ \A i \in 1..T : cps'[i] = cps[i]
    BY <1>6, <1>7, <1>8, <2>1
  <2>4. left = {}
    BY <1>10, <1>a
  <2> QED  BY <1>6, <1>a, <1>k, <1>b, <1>T, <1>p, <1>l, <2>1, <2>2, <2>3, <2>4
<1>c. CASE sf[s].answers # <<>>
  <2>1. PICK a \in left :
          /\ IF left = {a}
               THEN cps' = stack /\ breg' = b
               ELSE cps' = Push(stack, T, TrieChoicePoint(left \ {a}, cont, p, b)) /\ breg' = T + 1
          /\ Return(a, cont, p)
    <3>1. TrieReturn(left, stack, stack[k].prev, Higher(stack[k].prev, bfreg'), stack[k].cont, stack[k].ptcp)
      BY <1>9, <1>c
    <3>2. TrieReturn(left, stack, b, T, cont, p)
      BY <1>8, <1>T, <1>b, <1>n, <1>p, <3>1
    <3> QED  BY <3>2 DEF TrieReturn
  <2>2. T \in 0..Len(stack)
    BY <1>6, <1>7
  <2>3. /\ cps' \in Seq(Entry)
        /\ \A i \in 1..T : cps'[i] = stack[i]
        /\ \/ breg' = b /\ cps' = stack /\ left = {a}
           \/ /\ breg' = T + 1 /\ Len(cps') = T + 1 /\ left \ {a} # {}
              /\ cps'[T + 1].pc = "trie" /\ cps'[T + 1].prev = b /\ cps'[T + 1].bfreg = 0
              /\ cps'[T + 1].ptcp = p /\ cps'[T + 1].cont = cont /\ cps'[T + 1].left = left \ {a}
    <3>1. stack \in Seq(Entry) /\ b \in Nat /\ left \ {a} \in SUBSET Answer
          /\ cont \in Goal \cup {Asking} /\ p \in Subgoal \cup {User}
      BY <1>3, <1>7, <1>10
    <3>2. CASE left = {a}
      BY <2>1, <3>1, <3>2
    <3>3. CASE left # {a}
      <4>1. cps' = Push(stack, T, TrieChoicePoint(left \ {a}, cont, p, b)) /\ breg' = T + 1
        BY <2>1, <3>3
      <4>2. left \ {a} # {}
        BY <3>3
      <4> QED  BY <2>2, <3>1, <4>1, <4>2, PushedTrie
    <3> QED  BY <3>2, <3>3
  <2>4. cps' \in Seq(Entry) /\ T <= Len(cps') /\ \A i \in 1..T : cps'[i] = cps[i]
    <3>1. T <= Len(stack) /\ T <= T + 1
      BY <1>6, <1>7
    <3> QED  BY <1>8, <2>3, <3>1
  <2>5. \/ /\ breg' = b /\ left = {a} /\ Len(cps') = Len(cps)
           /\ \A i \in 1..Len(cps) : cps'[i].prev \in 0..Len(cps)
        \/ /\ breg' = T + 1 /\ Len(cps') = T + 1 /\ left \ {a} # {}
           /\ cps'[T + 1].pc = "trie" /\ cps'[T + 1].prev = b /\ cps'[T + 1].bfreg = 0
           /\ cps'[T + 1].ptcp = p /\ cps'[T + 1].cont = cont /\ cps'[T + 1].left = left \ {a}
    BY <1>7, <2>3
  <2>6. Return(a, cont, p)
    BY <2>1
  <2> HIDE DEF Return
  <2> QED  BY <1>6, <1>k, <1>b, <1>T, <1>p, <1>n, <1>l, <2>4, <2>5, <2>6
<1> QED  BY <1>a, <1>c
\* What is left waits for less, and was there before the leader's generator.
LEMMA CompletedStacked ==
  ASSUME Typed, StackInv, NEW s \in Subgoal, Complete(s),
         NEW b, b = cps[breg].prev, NEW T, T = Higher(b, bfreg'), NEW p, p = cps[breg].ptcp
  PROVE  /\ Stacked(b, T)'
         /\ p = User => openreg' = 0 /\ \A t \in Subgoal : ~ OpenTable(t)'
         /\ p # User => p \in Subgoal /\ OpenTable(p)' /\ \A q \in 1..T : Waits(q)' => Precedes(q, p)'
<1>k. PICK k \in Nat : k = breg
  BY Tops
<1>b. b = cps[k].prev
  BY <1>k
<1>T. T = Higher(b, bfreg')
  OBVIOUS
<1>p. p = cps[k].ptcp
  BY <1>k
<1>t. PICK top \in Nat : top = top_of_cpstack
  BY Tops
<1>1. /\ b \in 1..k - 1 /\ T \in 1..k - 1 /\ b <= T /\ bfreg' <= T
      /\ \A i \in 1..T : cps'[i] = cps[i]
      /\ \A t \in Subgoal : tree[t] \subseteq tree'[t]
  <2>1. \/ Fail1
        \/ \E a, c, r : Return(a, c, r)
    BY CompletedEntries
  <2>2. \A t \in Subgoal : tree[t] \subseteq tree'[t]
    BY <2>1 DEF Fail1, Return, Run
  <2> QED  BY <1>k, <1>b, <1>T, <2>2, CompletedEntries
<1>2. /\ AtCheckComplete(s) /\ OpenTable(s) /\ sf[s].cp = k /\ IsGenerator(k) /\ Leads(s)
      /\ \A t \in Subgoal :
           /\ OpenTable(t)' <=> OpenTable(t) /\ sf[t].frame < sf[s].frame
           /\ OpenTable(t)' <=> OpenTable(t) /\ sf[t].cp < k
           /\ OpenTable(t)' => sf'[t] = sf[t]
           /\ sf[t].complete => sf'[t].complete
  <2>1. \A t \in Subgoal : sf[t].complete => sf'[t].complete
    BY CompletedTables
  <2> QED  BY <1>k, <2>1, CompletedTables
<1>3. bfreg' \in 1..k - 1 /\ bfreg' <= bfreg /\ openreg' = sf[s].frame - 1 /\ openreg' \in 0..openreg
      /\ (openreg' > 0 => bfreg' = bfreg \/ bfreg' = cps[k].bfreg)
  BY <1>k, Reclaimed
<1>4. k \in 2..top /\ k \in 1..Len(cps) /\ bfreg \in Nat /\ top <= Len(cps) /\ Len(cps) \in Nat
      /\ openreg \in Nat
  BY <1>2, <1>t, <1>k, GeneratorOnTop, Tops DEF Typed
<1>5. ASSUME NEW i \in 1..T
      PROVE  /\ i \in 1..top /\ i \in 1..Len(cps) /\ i < k /\ cps'[i] = cps[i]
             /\ cps[i].ptcp \in Subgoal \cup {User} /\ cps[i].prev \in Nat
             /\ (IsGenerator(i)' <=> IsGenerator(i))
             /\ (Waits(i)' => Waits(i))
  <2>1. i \in 1..top /\ i \in 1..Len(cps) /\ i < k /\ cps'[i] = cps[i]
    BY <1>1, <1>4
  <2>2. Waits(i)' => Waits(i)
    BY <1>1, <1>2, <2>1, WaitsStill
  <2> QED  BY <2>1, <2>2, EntryTyped DEF IsGenerator
<1>6. ASSUME NEW i \in 1..T, Waits(i)  PROVE i <= b
  BY <1>1, <1>4, <1>5, <1>6, <1>b, <1>t DEF StackInv, Stacked, NoneIsSkipped
<1>7. \A t \in Subgoal : OpenTable(t)' => Consumers(t)' = Consumers(t)
  BY <1>2 DEF Consumers
<1>8. ASSUME NEW t \in Subgoal, OpenTable(t)'
      PROVE  /\ OpenTable(t) /\ sf[t].cp \in 2..top /\ sf[t].cp < k /\ openreg' > 0 /\ sf[t].frame < sf[s].frame
             /\ \A c \in Consumers(t) : c \in Nat /\ c <= bfreg' /\ cps[c].pc = "answer_return" /\ cps[c].subgoal = t
                                        /\ sf[t].cp <= c
  <2>1. OpenTable(t) /\ sf[t].cp < k /\ sf[t].frame < sf[s].frame
    BY <1>2, <1>8
  <2>2. sf[t].cp \in 2..top /\ sf[t].frame \in 1..openreg /\ sf[s].frame \in 1..openreg
    BY <1>2, <1>t, <2>1, OpenTyped
  <2>3. openreg' > 0
    <3>1. openreg' = sf[s].frame - 1 /\ sf[s].frame \in Nat /\ sf[t].frame \in Nat
      BY <1>3, TableTyped
    <3>2. sf[t].frame >= 1 /\ sf[t].frame < sf[s].frame
      BY <1>4, <2>1, <2>2
    <3> QED  BY <3>1, <3>2
  <2>4. ASSUME NEW c \in Consumers(t)
        PROVE  c \in Nat /\ c <= bfreg' /\ cps[c].pc = "answer_return" /\ cps[c].subgoal = t /\ sf[t].cp <= c
    <3>1. c \in Nat /\ c <= bfreg /\ cps[c].pc = "answer_return" /\ cps[c].subgoal = t /\ sf[t].cp <= c
      BY <2>1, ConsumersTyped DEF StackInv, Stacked, TablesAreOnStack
    <3>2. c <= cps[k].bfreg
      BY <1>2, <2>1 DEF StackInv, LeadersLeaveRest
    <3> QED  BY <1>3, <2>3, <3>1, <3>2
  <2> QED  BY <2>1, <2>2, <2>3, <2>4
<1>9. \A t \in Subgoal : OpenTable(t) /\ sf[t].cp < k => OpenTable(t)' /\ sf'[t] = sf[t] /\ Consumers(t)' = Consumers(t)
  BY <1>2, <1>7
<1>a. EntriesAreAlive(T)'
  <2> SUFFICES ASSUME NEW i \in 1..T  PROVE EntriesAreAlive(T)!(i)'
    BY DEF EntriesAreAlive
  <2>1. EntriesAreAlive(top)!(i) /\ cps'[i] = cps[i] /\ i < k /\ cps[i].ptcp \in Subgoal \cup {User}
    BY <1>5, <1>t DEF StackInv, Stacked, EntriesAreAlive
  <2>2. IsGenerator(i)' => /\ cps[i].subgoal \in Subgoal /\ OpenTable(cps[i].subgoal)'
                           /\ sf'[cps[i].subgoal].cp = i /\ cps[i].bfreg >= 1
    BY <1>5, <1>9, <2>1
  <2>3. cps[i].pc = "answer_return" => /\ cps[i].subgoal \in Subgoal /\ OpenTable(cps[i].subgoal)'
                                       /\ i \in Consumers(cps[i].subgoal)'
    <3> SUFFICES ASSUME cps[i].pc = "answer_return"
                 PROVE  cps[i].subgoal \in Subgoal /\ OpenTable(cps[i].subgoal)' /\ i \in Consumers(cps[i].subgoal)'
      BY <2>1
    <3> PICK t : t = cps[i].subgoal
      OBVIOUS
    <3>1. t \in Subgoal /\ OpenTable(t) /\ i \in Consumers(t)
      BY <2>1
    <3>2. sf[t].cp <= i /\ sf[t].cp \in Nat
      BY <3>1, TableTyped DEF StackInv, Stacked, TablesAreOnStack
    <3>3. sf[t].cp < k
      BY <2>1, <3>2
    <3> QED  BY <1>9, <2>1, <3>1, <3>3
  <2>4. cps[i].ptcp # User => OpenTable(cps[i].ptcp)' /\ sf'[cps[i].ptcp].cp < i
    <3> SUFFICES ASSUME cps[i].ptcp # User  PROVE OpenTable(cps[i].ptcp)' /\ sf'[cps[i].ptcp].cp < i
      BY <2>1
    <3> PICK r : r = cps[i].ptcp
      OBVIOUS
    <3>1. r \in Subgoal /\ OpenTable(r) /\ sf[r].cp < i /\ sf[r].cp \in Nat
      BY <2>1, TableTyped
    <3>2. sf[r].cp < k
      BY <2>1, <3>1
    <3> QED  BY <1>9, <2>1, <3>1, <3>2
  <2>5. cps[i].ptcp = User => \A t \in Subgoal : OpenTable(t)' => sf'[t].cp >= i
    BY <1>2, <1>8, <2>1
  <2> QED  BY <2>1, <2>2, <2>3, <2>4, <2>5 DEF IsGenerator
<1>c. TablesAreOnStack(T)'
  <2> SUFFICES ASSUME NEW t \in Subgoal, OpenTable(t)'  PROVE TablesAreOnStack(T)!(t)!2'
    BY DEF TablesAreOnStack
  <2>1. TablesAreOnStack(top)!(t)!2 /\ sf'[t] = sf[t] /\ Consumers(t)' = Consumers(t) /\ OpenTable(t)
    BY <1>2, <1>7, <1>8, <1>t DEF StackInv, Stacked, TablesAreOnStack
  <2>2. sf[t].cp \in 2..T
    <3>1. CASE IsGenerator(sf[t].cp)
      <4>1. sf[t].cp <= b
        BY <1>4, <1>8, <1>b, <1>t, <3>1 DEF StackInv, Stacked, NoneIsSkipped, Waits
      <4> QED  BY <1>1, <1>8, <4>1
    <3>2. CASE sf[t].cp \in Consumers(t)
      BY <1>1, <1>3, <1>8, <3>2
    <3> QED  BY <2>1, <3>1, <3>2
  <2>5. sf[t].cp \in 1..T
    <3>1. T \in Nat
      BY <1>1
    <3>2. sf[t].cp >= 1 /\ sf[t].cp <= T /\ sf[t].cp \in Nat
      BY <2>2, <3>1
    <3> QED  BY <3>1, <3>2
  <2>3. cps'[sf[t].cp] = cps[sf[t].cp]
    BY <1>5, <2>5
  <2>4. \A c \in Consumers(t) : sf[t].cp <= c /\ c <= bfreg' /\ cps'[c].pc = "answer_return" /\ cps'[c].subgoal = t
    <3> SUFFICES ASSUME NEW c \in Consumers(t)
                 PROVE  sf[t].cp <= c /\ c <= bfreg' /\ cps'[c].pc = "answer_return" /\ cps'[c].subgoal = t
      OBVIOUS
    <3>1. c \in 1..T
      BY <1>1, <1>3, <1>8, <2>2
    <3> QED  BY <1>5, <1>8, <3>1
  <2> QED  BY <2>1, <2>2, <2>3, <2>4 DEF IsGenerator
<1>d. WaitsBelow(b, T)'
  BY <1>5, <1>6 DEF WaitsBelow
<1>e. NoneIsSkipped(T)'
  BY <1>5, <1>t DEF StackInv, Stacked, NoneIsSkipped
<1>f. LinksAreAlive(T)'
  <2>0. LinksAreAlive(top)
    BY <1>t DEF StackInv, Stacked
  <2>1. ASSUME NEW i \in 2..T  PROVE LinksAreAlive(T)!1!(i)'
    <3>0. i \in 1..T /\ i \in 2..top
      BY <1>5
    <3>1. LinksAreAlive(top)!1!(i) /\ cps'[i] = cps[i] /\ i < k /\ cps[i].prev \in Nat
      BY <1>5, <2>0, <3>0 DEF LinksAreAlive
    <3>2. cps[i].prev < k
      BY <1>2, <1>4, <2>0, <3>0, <3>1 DEF LinksAreAlive
    <3>3. ASSUME NEW t \in Subgoal, OpenTable(t), cps[i].prev \in Consumers(t)
          PROVE  OpenTable(t)' /\ cps[i].prev \in Consumers(t)'
      <4>1. sf[t].cp <= cps[i].prev /\ sf[t].cp \in Nat
        BY <3>3, TableTyped DEF StackInv, Stacked, TablesAreOnStack
      <4>2. sf[t].cp < k
        BY <3>1, <3>2, <4>1
      <4> QED  BY <1>9, <3>3, <4>2
    <3> QED  BY <3>1, <3>3
  <2>2. ASSUME NEW i \in 2..T, NEW q \in 2..T, IsGenerator(q)', i < q  PROVE cps'[i].prev < q
    <3>1. i \in 1..T /\ q \in 1..T /\ i \in 2..top /\ q \in 2..top
      BY <1>5
    <3> QED  BY <1>5, <2>0, <2>2, <3>1 DEF LinksAreAlive
  <2> QED  BY <2>1, <2>2 DEF LinksAreAlive
<1>10. ASSUME NEW r \in Subgoal, OpenTable(r), sf[r].cp < k, NEW q \in 1..T, Precedes(q, r)
       PROVE  Precedes(q, r)'
  BY <1>5, <1>9, <1>10 DEF Precedes
<1>g. ResumesInOrder(T)'
  <2> SUFFICES ASSUME NEW i \in 2..T, cps'[i].ptcp # User, NEW q \in 1..T, Waits(q)', q < i
               PROVE  Precedes(q, cps[i].ptcp)'
    BY DEF ResumesInOrder
  <2>1. i \in 1..T /\ i \in 2..top /\ q \in 1..top /\ i \in 1..top
    BY <1>5
  <2> PICK r : r = cps[i].ptcp
    OBVIOUS
  <2>2. Waits(q) /\ cps'[i].ptcp = r /\ r # User /\ r \in Subgoal /\ i < k
    BY <1>5, <2>1
  <2>3. Precedes(q, r)
    BY <1>t, <2>1, <2>2 DEF StackInv, Stacked, ResumesInOrder
  <2>4. OpenTable(r) /\ sf[r].cp < i /\ sf[r].cp \in Nat
    BY <1>t, <2>1, <2>2, TableTyped DEF StackInv, Stacked, EntriesAreAlive
  <2>5. sf[r].cp < k
    BY <2>2, <2>4
  <2>6. Precedes(q, r)'
    BY <1>10, <2>2, <2>3, <2>4, <2>5
  <2> QED  BY <2>2, <2>6
<1>h. Stacked(b, T)'
  BY <1>a, <1>c, <1>d, <1>e, <1>f, <1>g DEF Stacked
<1>i. EntriesAreAlive(top)!(k)
  BY <1>4, <1>t DEF StackInv, Stacked, EntriesAreAlive
<1>j. ASSUME p = User  PROVE openreg' = 0 /\ \A t \in Subgoal : ~ OpenTable(t)'
  <2>1. \A t \in Subgoal : ~ OpenTable(t)'
    <3> SUFFICES ASSUME NEW t \in Subgoal, OpenTable(t)'  PROVE FALSE
      OBVIOUS
    <3>1. OpenTable(t) /\ sf[t].cp < k /\ sf[t].cp >= k /\ sf[t].cp \in Nat
      BY <1>8, <1>i, <1>j, <1>p
    <3> QED  BY <3>1
  <2>2. openreg' = 0
    <3> SUFFICES ASSUME openreg' # 0  PROVE FALSE
      OBVIOUS
    <3>1. openreg > 0 /\ sf[s].frame > 1
      BY <1>2, <1>3, <1>4, OpenTyped
    <3> DEFINE r == frames[1].subgoal
    <3>2. r \in Subgoal /\ OpenTable(r) /\ sf[r].frame = 1
      BY <3>1, OldestLeads
    <3> HIDE DEF r
    <3> QED  BY <1>2, <2>1, <3>1, <3>2
  <2> QED  BY <2>1, <2>2
<1>l. ASSUME p # User
      PROVE  p \in Subgoal /\ OpenTable(p)' /\ \A q \in 1..T : Waits(q)' => Precedes(q, p)'
  <2>1. p \in Subgoal /\ OpenTable(p) /\ sf[p].cp < k
    BY <1>4, <1>i, <1>l, <1>p, EntryTyped
  <2>2. ASSUME NEW q \in 1..T, Waits(q)'  PROVE Precedes(q, p)'
    <3>1. Waits(q) /\ q \in 1..top /\ q < k
      BY <1>5, <2>2
    <3>2. Precedes(q, p)
      BY <1>4, <1>l, <1>p, <1>t, <3>1 DEF StackInv, Stacked, ResumesInOrder
    <3> QED  BY <1>10, <2>1, <3>2
  <2> QED  BY <1>9, <2>1, <2>2
<1> QED  BY <1>h, <1>j, <1>l
\* The tables that are left depend on each other as before.
LEMMA CompletedFrames ==
  ASSUME Typed, StackInv, NEW s \in Subgoal, Complete(s)
  PROVE  FramesHoldTables' /\ LevelsNested' /\ LeadersLeaveRest' /\ ConsumersDepend'
<1>k. PICK k \in Nat : k = breg
  BY Tops
<1>b. PICK b : b = cps[k].prev
  OBVIOUS
<1>T. PICK T : T = Higher(b, bfreg')
  OBVIOUS
<1>1. T \in 1..k - 1 /\ bfreg' \in 1..k - 1 /\ bfreg' <= bfreg /\ bfreg' <= T /\ \A i \in 1..T : cps'[i] = cps[i]
  BY <1>k, <1>b, <1>T, CompletedEntries, Reclaimed
<1>2. /\ OpenTable(s) /\ sf[s].cp = k /\ Leads(s)
      /\ \A t \in Subgoal : /\ OpenTable(t)' <=> OpenTable(t) /\ sf[t].frame < sf[s].frame
                            /\ OpenTable(t)' <=> OpenTable(t) /\ sf[t].cp < k
                            /\ OpenTable(t)' => sf'[t] = sf[t]
  BY <1>k, CompletedTables
<1>3. /\ openreg' = sf[s].frame - 1 /\ frames' = frames /\ bfreg \in Nat
      /\ (openreg' = 0 => root_address' = 0 /\ bfreg' = 1)
      /\ (openreg' > 0 => /\ root_address' = root_address /\ level_num' = level_num
                          /\ bfreg' = bfreg \/ bfreg' = cps[k].bfreg)
  BY <1>k, Reclaimed, Tops
<1>4. openreg' \in Nat /\ openreg \in Nat /\ openreg' < openreg
  <2>1. OpenTable(s)
    BY <1>2
  <2>2. sf[s].frame \in 1..openreg
    BY <2>1, OpenTyped
  <2>3. openreg \in Nat
    BY DEF Typed
  <2> QED  BY <1>3, <2>2, <2>3
<1>5. Stacked(b, T)'
  BY <1>k, <1>b, <1>T, CompletedStacked
<1>6. ASSUME NEW t \in Subgoal, OpenTable(t)'
      PROVE  /\ OpenTable(t) /\ sf'[t] = sf[t] /\ sf[t].cp < k /\ sf[t].cp \in 1..T /\ sf[t].frame < sf[s].frame
             /\ sf[t].frame \in 1..openreg' /\ frames[sf[t].frame].subgoal = t
             /\ Consumers(t)' = Consumers(t) /\ (Leads(t)' <=> Leads(t)) /\ openreg' > 0
             /\ \A c \in Consumers(t) : c \in 1..T
  <2>1. OpenTable(t) /\ sf'[t] = sf[t] /\ sf[t].cp < k /\ sf[t].frame < sf[s].frame
    BY <1>2, <1>6
  <2>2. TablesAreOnStack(T)!(t)!2'
    BY <1>5, <1>6 DEF Stacked, TablesAreOnStack
  <2>3. sf[t].frame \in 1..openreg /\ frames[sf[t].frame].subgoal = t /\ sf[t].cp \in Nat /\ sf[s].frame \in Nat
    BY <2>1, OpenTyped, TableTyped
  <2>4. sf[t].frame \in 1..openreg' /\ openreg' > 0
    BY <1>3, <1>4, <2>1, <2>3
  <2>5. Consumers(t)' = Consumers(t) /\ (Leads(t)' <=> Leads(t))
    BY <1>3, <2>1 DEF Consumers, Leads, is_leader
  <2>6. sf[t].cp >= 2 /\ sf[t].cp <= T
    BY <1>1, <2>1, <2>2
  <2>7. \A c \in Consumers(t) : c \in 1..T
    <3> SUFFICES ASSUME NEW c \in Consumers(t)  PROVE c \in 1..T
      OBVIOUS
    <3>1. c \in Nat
      BY ConsumersTyped
    <3>2. sf[t].cp <= c /\ c <= bfreg'
      BY <2>1, <2>2, <2>5
    <3>3. c >= 1 /\ c <= T
      BY <1>1, <2>3, <2>6, <3>1, <3>2
    <3> QED  BY <3>1, <3>3, <1>1
  <2>8. sf[t].cp \in 1..T
    BY <1>1, <2>3, <2>6
  <2> QED  BY <2>1, <2>3, <2>4, <2>5, <2>7, <2>8
<1>7. \A f \in 1..openreg' : f \in 1..openreg /\ f < sf[s].frame
  BY <1>2, <1>3, <1>4, TableTyped
<1>8. FramesHoldTables'
  <2>1. FramesHoldTables
    BY DEF StackInv
  <2>2. \A f \in 1..openreg' : OpenTable(frames[f].subgoal)' /\ sf'[frames'[f].subgoal].frame = f
    <3> SUFFICES ASSUME NEW f \in 1..openreg'  PROVE OpenTable(frames[f].subgoal)' /\ sf'[frames'[f].subgoal].frame = f
      OBVIOUS
    <3> PICK t : t = frames[f].subgoal
      OBVIOUS
    <3>1. t \in Subgoal /\ OpenTable(t) /\ sf[t].frame = f /\ f < sf[s].frame
      BY <1>7, <2>1, FrameTyped DEF FramesHoldTables
    <3>2. OpenTable(t)' /\ sf'[t] = sf[t] /\ frames'[f].subgoal = t
      BY <1>2, <1>3, <3>1
    <3> QED  BY <3>1, <3>2 DEF OpenTable
  <2>3. \A t \in Subgoal : OpenTable(t)' => sf'[t].frame \in 1..openreg' /\ frames'[sf'[t].frame].subgoal = t
    BY <1>3, <1>6
  <2>4. \A t, u \in Subgoal : OpenTable(t)' /\ OpenTable(u)' =>
          (sf'[t].frame < sf'[u].frame <=> sf'[t].cp < sf'[u].cp)
    BY <1>6, <2>1 DEF FramesHoldTables
  <2>5. openreg' > 0 => root_address' = sf'[frames'[1].subgoal].cp
    <3> SUFFICES ASSUME openreg' > 0  PROVE root_address' = sf'[frames'[1].subgoal].cp
      OBVIOUS
    <3> PICK t : t = frames[1].subgoal
      OBVIOUS
    <3>1. t \in Subgoal /\ OpenTable(t) /\ sf[t].frame = 1 /\ root_address = sf[t].cp
      BY <1>4, OldestLeads
    <3>2. 1 < sf[s].frame
      BY <1>3, <1>4, TableTyped
    <3> QED  BY <1>2, <1>3, <3>1, <3>2
  <2> QED  BY <1>3, <2>2, <2>3, <2>4, <2>5 DEF FramesHoldTables
<1>9. LevelsNested'
  <2>1. LevelsNested
    BY DEF StackInv
  <2>2. openreg' = 0 \/ level_num' = level_num
    <3>1. openreg' = 0 \/ openreg' > 0
      BY <1>4
    <3>2. openreg' > 0 => level_num' = level_num
      BY <1>3
    <3> QED  BY <3>1, <3>2
  <2> QED  BY <1>3, <1>4, <1>7, <2>1, <2>2 DEF LevelsNested
<1>10. LeadersLeaveRest'
  <2> SUFFICES ASSUME NEW t \in Subgoal, OpenTable(t)'  PROVE LeadersLeaveRest!(t)!2'
    BY DEF LeadersLeaveRest
  <2>1. LeadersLeaveRest!(t)!2 /\ OpenTable(t) /\ sf'[t] = sf[t] /\ (Leads(t)' <=> Leads(t)) /\ sf[t].cp \in 1..T
        /\ cps'[sf[t].cp] = cps[sf[t].cp]
    BY <1>1, <1>6 DEF StackInv, LeadersLeaveRest
  <2>2. CASE Leads(t)
    <3>1. \A u \in Subgoal : OpenTable(u)' => OpenTable(u) /\ sf'[u] = sf[u] /\ Consumers(u)' = Consumers(u)
                                              /\ (Leads(u)' <=> Leads(u))
      BY <1>6
    <3> QED  BY <2>1, <2>2, <3>1 DEF IsGenerator
  <2>3. CASE ~ Leads(t)
    <3>1. sf[t].cp <= cps[k].bfreg
      BY <1>2, <1>6, <2>3 DEF StackInv, LeadersLeaveRest
    <3>2. sf[t].cp <= bfreg
      BY <2>1, <2>3
    <3>3. bfreg' = bfreg \/ bfreg' = cps[k].bfreg
      BY <1>3, <1>6
    <3> QED  BY <2>1, <2>3, <3>1, <3>2, <3>3
  <2> QED  BY <2>2, <2>3
<1>11. ConsumersDepend'
  <2> SUFFICES ASSUME NEW t \in Subgoal, OpenTable(t)', NEW c \in Consumers(t)', cps'[c].ptcp # User,
                      NEW r \in Subgoal, OpenTable(r)', Leads(r)', sf'[t].frame < sf'[r].frame,
                      sf'[r].frame <= sf'[cps'[c].ptcp].frame
               PROVE  FALSE
    BY DEF ConsumersDepend, Dependent
  <2>1. c \in Consumers(t) /\ c \in 1..T /\ OpenTable(t) /\ cps'[c] = cps[c] /\ sf'[t] = sf[t]
        /\ OpenTable(r) /\ Leads(r) /\ sf'[r] = sf[r]
    BY <1>1, <1>6
  <2> PICK p : p = cps[c].ptcp
    OBVIOUS
  <2>2. EntriesAreAlive(T)!(c)'
    BY <1>5, <2>1 DEF Stacked, EntriesAreAlive
  <2>3. c \in 1..Len(cps)
    <3>1. k \in 1..Len(cps) /\ Len(cps) \in Nat
      BY <1>k, Tops DEF Typed
    <3> QED  BY <1>1, <2>1, <3>1
  <2>4. p \in Subgoal /\ OpenTable(p)' /\ sf'[p] = sf[p]
    <3>1. p \in Subgoal
      BY <2>1, <2>3, EntryTyped
    <3>2. OpenTable(cps[c].ptcp)'
      BY <2>2
    <3>3. OpenTable(p)'
      BY <2>1, <3>2 DEF OpenTable
    <3> QED  BY <1>6, <3>1, <3>3
  <2> QED  BY <2>1, <2>4 DEF StackInv, ConsumersDepend, Dependent
<1> QED  BY <1>8, <1>9, <1>10, <1>11

LEMMA CompleteStack == Typed /\ StackInv /\ (\E s \in Subgoal : Complete(s)) => StackInv'
<1> SUFFICES ASSUME Typed, StackInv, NEW s \in Subgoal, Complete(s)  PROVE StackInv'
  OBVIOUS
<1>b. PICK b : b = cps[breg].prev
  OBVIOUS
<1>T. PICK T : T = Higher(b, bfreg')
  OBVIOUS
<1>p. PICK p : p = cps[breg].ptcp
  OBVIOUS
<1>1. FramesHoldTables' /\ LevelsNested' /\ LeadersLeaveRest' /\ ConsumersDepend'
  BY CompletedFrames
<1>2. /\ Stacked(b, T)'
      /\ (p = User => openreg' = 0 /\ \A t \in Subgoal : ~ OpenTable(t)')
      /\ (p # User => p \in Subgoal /\ OpenTable(p)' /\ \A q \in 1..T : Waits(q)' => Precedes(q, p)')
  BY <1>b, <1>T, <1>p, CompletedStacked
<1>3. /\ b \in 1..breg - 1 /\ T \in 1..breg - 1 /\ b <= T /\ bfreg' <= T /\ breg \in Nat /\ bfreg' \in Nat
      /\ \A i \in 1..T : cps'[i] = cps[i]
  BY <1>b, <1>T, CompletedEntries, Reclaimed, Tops
<1>4. b \in Nat /\ T \in Nat /\ b >= 1
  BY <1>3
<1>5. CASE breg' = b /\ ~ running'
  <2>1. top_of_cpstack' = T
    BY <1>5, <1>T DEF top_of_cpstack
  <2> QED  BY <1>1, <1>2, <1>5, <2>1 DEF StackInv, RunsInOrder
<1>6. CASE breg' = b /\ ptcpreg' = p
  <2>1. top_of_cpstack' = T
    BY <1>6, <1>T DEF top_of_cpstack
  <2>2. Stacked(breg, top_of_cpstack)'
    BY <1>2, <1>6, <2>1
  <2>3. RunsInOrder'
    BY <1>2, <1>6, <2>1, EngineAssumption DEF RunsInOrder
  <2> QED  BY <1>1, <2>2, <2>3 DEF StackInv
<1>7. CASE /\ breg' = T + 1 /\ ptcpreg' = p /\ cps'[T + 1].pc = "trie" /\ cps'[T + 1].prev = b
           /\ cps'[T + 1].bfreg = 0 /\ cps'[T + 1].ptcp = p
  <2>1. \A t \in Subgoal : sf'[t].cp \in Nat /\ Consumers(t)' \subseteq Nat
    <3> SUFFICES ASSUME NEW t \in Subgoal  PROVE sf'[t].cp \in Nat /\ Consumers(t)' \subseteq Nat
      OBVIOUS
    <3>1. sf'[t].cp = sf[t].cp /\ (sf'[t].asf = sf[t].asf \/ sf'[t].asf = <<>>)
      BY CompletedTables
    <3>2. Consumers(t)' = Consumers(t) \/ Consumers(t)' = {}
      BY <3>1 DEF Consumers, Range
    <3> QED  BY <3>1, <3>2, TableTyped, ConsumersTyped
  <2>2. \A i \in 1..T : cps'[i].prev \in Nat
    <3>1. \A i \in 1..T : i \in 1..Len(cps)
      BY <1>3, Tops DEF Typed
    <3> QED  BY <1>3, <3>1, EntryTyped
  <2>3. p \in Subgoal \cup {User}
    BY <1>2
  <2>4. /\ Stacked(breg, top_of_cpstack)' /\ top_of_cpstack' = T + 1
        /\ (p # User => \A q \in 1..T + 1 : Waits(q)' => Precedes(q, p)')
    BY <1>2, <1>3, <1>4, <1>7, <2>1, <2>2, <2>3, TriePushed
  <2>5. RunsInOrder'
    BY <1>2, <1>7, <2>4, EngineAssumption DEF RunsInOrder
  <2> QED  BY <1>1, <2>4, <2>5 DEF StackInv
<1>8. \A a, c, r : Return(a, c, r) => ptcpreg' = r
  BY DEF Return, Run
<1>9. Fail1 => ~ running'
  BY DEF Fail1
<1>10. \/ breg' = b /\ Fail1
       \/ \E a, c : /\ Return(a, c, p)
                    /\ \/ breg' = b
                       \/ /\ breg' = T + 1 /\ cps'[T + 1].pc = "trie" /\ cps'[T + 1].prev = b
                          /\ cps'[T + 1].bfreg = 0 /\ cps'[T + 1].ptcp = p
  BY <1>b, <1>T, <1>p, CompletedEntries
<1> QED  BY <1>5, <1>6, <1>7, <1>8, <1>9, <1>10

--------------------------------------------------------------------------------
(* Types. *)

StackTyped ==
  /\ cps \in Seq(Entry) /\ breg \in 1..Len(cps) /\ bfreg \in 1..Len(cps)
  /\ cps[1].prev = 0 /\ \A i \in 1..Len(cps) : cps[i].prev \in 0..Len(cps)
  /\ frames \in Seq(CompletionFrame) /\ openreg \in 0..Len(frames)
  /\ level_num \in Nat /\ root_address \in 0..Len(cps)
RunTyped ==
  /\ running \in BOOLEAN /\ ptcpreg \in Subgoal \cup {User}
  /\ goal \in IF ptcpreg = User THEN {Asking} \cup {Got(a) : a \in Answer} ELSE Goal
  /\ tree \in [Subgoal -> SUBSET Goal]
CallTyped ==
  /\ program \in Program
  /\ query \in 0..Len(Query) /\ results \in Seq(Seq(Answer)) /\ query = Len(results)
  /\ running /\ ptcpreg = User => query > 0

LEMMA TypedParts == Typed <=> /\ sf \in [Subgoal -> SubgoalFrame] /\ StackTyped /\ RunTyped /\ CallTyped
BY DEF Typed, StackTyped, RunTyped, CallTyped

\* Where the stacks are in order their links stay in bounds.
LEMMA LinksTyped ==
  ASSUME StackInv', sf' \in [Subgoal -> SubgoalFrame], cps' \in Seq(Entry), breg' \in 1..Len(cps'), bfreg' \in 1..Len(cps'),
         cps'[1].prev = 0, frames' \in Seq(CompletionFrame), openreg' \in 0..Len(frames'), level_num' \in Nat,
         \A i \in 1..Len(cps') : i <= top_of_cpstack' \/ cps'[i].prev \in 0..Len(cps')
  PROVE  StackTyped'
<1> PICK top : top = top_of_cpstack'
  OBVIOUS
<1>1. top \in 1..Len(cps') /\ bfreg' <= top /\ Len(cps') \in Nat
  BY DEF top_of_cpstack, Higher
<1>2. LinksAreAlive(top)' /\ TablesAreOnStack(top)' /\ FramesHoldTables'
  <2>1. LinksAreAlive(top_of_cpstack)' /\ TablesAreOnStack(top_of_cpstack)' /\ FramesHoldTables'
    BY DEF StackInv, Stacked
  <2> QED  BY <2>1 DEF LinksAreAlive, TablesAreOnStack
<1>3. ASSUME NEW i \in 1..Len(cps')  PROVE cps'[i].prev \in 0..Len(cps')
  <2>1. CASE i = 1
    BY <1>1, <2>1
  <2>2. CASE i \in 2..top
    <3>1. cps'[i] \in Entry
      BY <1>3
    <3>2. cps'[i].prev \in Nat
      BY <3>1 DEF Entry
    <3>3. cps'[i].prev < i \/ \E t \in Subgoal : OpenTable(t)' /\ cps'[i].prev \in Consumers(t)'
      BY <1>2, <2>2 DEF LinksAreAlive
    <3>4. cps'[i].prev < i \/ cps'[i].prev <= bfreg'
      BY <1>2, <3>3 DEF TablesAreOnStack
    <3> QED  BY <1>1, <2>2, <3>2, <3>4
  <2> QED  BY <1>1, <1>3, <2>1, <2>2
<1>4. root_address' \in 0..Len(cps')
  <2>1. CASE openreg' = 0
    BY <1>1, <1>2, <2>1 DEF FramesHoldTables
  <2>2. CASE openreg' # 0
    <3>1. 1 \in 1..openreg' /\ 1 \in 1..Len(frames') /\ openreg' > 0
      BY <2>2
    <3> PICK t : t = frames'[1].subgoal
      OBVIOUS
    <3>2. t \in Subgoal
      <4>1. frames'[1] \in CompletionFrame
        BY <3>1
      <4> QED  BY <4>1 DEF CompletionFrame
    <3>3. OpenTable(frames[1].subgoal)' /\ root_address' = sf'[t].cp
      BY <1>2, <3>1 DEF FramesHoldTables
    <3>4. OpenTable(t)'
      BY <3>3 DEF OpenTable
    <3>5. sf'[t].cp \in 2..top
      BY <1>2, <3>2, <3>4 DEF TablesAreOnStack
    <3>6. root_address' \in 2..top
      BY <3>3, <3>5
    <3> QED  BY <1>1, <3>6
  <2> QED  BY <2>1, <2>2
<1> QED  BY <1>3, <1>4 DEF StackTyped

\* Steps that leave the stacks but for breg, and some fields of choice points, alone.
LEMMA QuietTyped ==
  ASSUME Typed, sf' = sf, UNCHANGED <<bfreg, frames, openreg, level_num, root_address>>,
         cps' \in Seq(Entry), Len(cps') = Len(cps), breg' \in 1..Len(cps), cps'[1].prev = 0,
         \A i \in 1..Len(cps) : cps'[i].prev \in 0..Len(cps)
  PROVE  sf' \in [Subgoal -> SubgoalFrame] /\ StackTyped'
BY DEF Typed, StackTyped

LEMMA Fail1Typed == Typed /\ Fail1 => RunTyped'
BY DEF Typed, Fail1, RunTyped

LEMMA RunsTyped ==
  ASSUME Typed, NEW g, NEW p \in Subgoal \cup {User}, Run(g, p),
         g \in IF p = User THEN {Asking} \cup {Got(a) : a \in Answer} ELSE Goal
  PROVE  RunTyped' /\ running' /\ ptcpreg' = p /\ goal' = g
         /\ (p # User => g \in tree'[p]) /\ \A t \in Subgoal : tree[t] \subseteq tree'[t]
<1>1. running' = TRUE /\ goal' = g /\ ptcpreg' = p
      /\ tree' = [t \in Subgoal |-> IF t = p THEN tree[t] \cup {g} ELSE tree[t]]
  BY DEF Run
<1>2. tree \in [Subgoal -> SUBSET Goal]
  BY DEF Typed
<1>3. p \in Subgoal => g \in Goal
  BY EngineAssumption
<1>4. tree' \in [Subgoal -> SUBSET Goal]
  BY <1>1, <1>2, <1>3
<1> QED  BY <1>1, <1>2, <1>4 DEF RunTyped

\* An answer is returned to a goal that makes a call.
LEMMA ReturnsTyped ==
  ASSUME Typed, NEW a \in Answer, NEW c, NEW p \in Subgoal \cup {User},
         p # User => c \in Goal /\ Calls(c) # Done, Return(a, c, p)
  PROVE  /\ RunTyped' /\ running' /\ ptcpreg' = p /\ \A t \in Subgoal : tree[t] \subseteq tree'[t]
         /\ p = User => goal' = Got(a)
         /\ p # User => goal' = After(c, a) /\ After(c, a) \in tree'[p]
<1>g. PICK g : g = IF p = User THEN Got(a) ELSE After(c, a)
  OBVIOUS
<1>1. g \in IF p = User THEN {Asking} \cup {Got(x) : x \in Answer} ELSE Goal
  BY <1>g, ProgramAssumption
<1>2. Run(g, p)
  BY <1>g DEF Return
<1> QED  BY <1>1, <1>2, <1>g, RunsTyped

--------------------------------------------------------------------------------
(* What tables and choice points hold. *)

LEMMA InjectivePrepend ==
  ASSUME NEW n \in Nat, NEW list \in Seq(Nat), IsInjective(list), n \notin Range(list)
  PROVE  IsInjective(<<n>> \o list)
<1>1. <<n>> \in Seq(Nat) /\ Len(<<n>>) = 1 /\ <<n>>[1] = n
  OBVIOUS
<1>2. /\ <<n>> \o list \in Seq(Nat) /\ Len(<<n>> \o list) = 1 + Len(list) /\ Len(list) \in Nat
      /\ \A i \in 1..1 + Len(list) : (<<n>> \o list)[i] = IF i <= 1 THEN <<n>>[i] ELSE list[i - 1]
  BY <1>1, ConcatProperties
<1> DEFINE new == <<n>> \o list
<1>3. DOMAIN new = 1..1 + Len(list) /\ DOMAIN list = 1..Len(list) /\ new[1] = n
      /\ \A i \in DOMAIN new : i # 1 => i - 1 \in DOMAIN list /\ new[i] = list[i - 1]
  BY <1>1, <1>2
<1> HIDE DEF new
<1>4. ASSUME NEW i \in DOMAIN new, NEW j \in DOMAIN new, new[i] = new[j]  PROVE i = j
  <2>1. CASE i = 1 /\ j # 1
    BY <1>3, <1>4, <2>1 DEF Range
  <2>2. CASE i # 1 /\ j = 1
    BY <1>3, <1>4, <2>2 DEF Range
  <2>3. CASE i # 1 /\ j # 1
    <3>1. i - 1 = j - 1
      BY <1>3, <1>4, <2>3 DEF IsInjective
    <3> QED  BY <1>2, <1>3, <3>1
  <2> QED  BY <2>1, <2>2, <2>3
<1>5. IsInjective(new)
  BY <1>4 DEF IsInjective
<1> QED  BY <1>5 DEF new

LEMMA InjectiveAppend ==
  ASSUME NEW S, NEW x \in S, NEW list \in Seq(S), IsInjective(list), x \notin Range(list)
  PROVE  IsInjective(Append(list, x)) /\ Range(Append(list, x)) = Range(list) \cup {x}
<1> DEFINE new == Append(list, x)
<1> PICK n \in Nat : n = Len(list)
  OBVIOUS
<1>1. DOMAIN new = 1..n + 1 /\ DOMAIN list = 1..n /\ new[n + 1] = x /\ \A i \in 1..n : new[i] = list[i]
  BY AppendProperties
<1> HIDE DEF new
<1>2. \A i \in DOMAIN new : i \in 1..n \/ i = n + 1
  BY <1>1
<1>3. IsInjective(new)
  BY <1>1, <1>2 DEF IsInjective, Range
<1>4. Range(new) = Range(list) \cup {x}
  <2>1. Range(new) \subseteq Range(list) \cup {x}
    BY <1>1, <1>2 DEF Range
  <2>2. \A i \in DOMAIN list : list[i] \in Range(new)
    BY <1>1 DEF Range
  <2>3. x \in Range(new)
    <3>1. n + 1 \in DOMAIN new
      BY <1>1
    <3> QED  BY <1>1, <3>1 DEF Range
  <2> QED  BY <2>1, <2>2, <2>3 DEF Range
<1> QED  BY <1>3, <1>4 DEF new

\* Only the table that something runs for gets goals.
LEMMA SoundStill ==
  ASSUME TablesAreSound, StackInv', sf' = sf,
         UNCHANGED tree \/ (\E g, p : Run(g, p))
  PROVE  TablesAreSound'
<1>1. ASSUME NEW t \in Subgoal, tree'[t] # tree[t]  PROVE sf'[t].called
  <2>1. running' /\ ptcpreg' = t
    BY <1>1 DEF Run
  <2>2. OpenTable(ptcpreg)'
    BY <2>1, EngineAssumption DEF StackInv, RunsInOrder
  <2> QED  BY <2>1, <2>2 DEF OpenTable
<1> QED  BY <1>1 DEF TablesAreSound

LEMMA RunSound ==
  ASSUME NEW g, NEW p, Run(g, p), StackInv', NEW t \in Subgoal
  PROVE  tree'[t] = tree[t] \/ sf'[t].called
<1> SUFFICES ASSUME t = p  PROVE sf'[t].called
  BY DEF Run
<1>1. running' /\ ptcpreg' = t
  BY DEF Run
<1>2. OpenTable(ptcpreg)'
  BY <1>1, EngineAssumption DEF StackInv, RunsInOrder
<1> QED  BY <1>1, <1>2 DEF OpenTable

\* A choice point for the call it was made for.
LEMMA CallOfTyped ==
  ASSUME Typed, StackInv, ReturnsToCall, NEW i \in 2..top_of_cpstack
  PROVE  /\ i \in 1..Len(cps) /\ cps[i] \in Entry /\ cps[i].ptcp \in Subgoal \cup {User}
         /\ CallOf(i) \in Subgoal /\ cps[i].cont \in Goal \cup {Asking}
         /\ cps[i].ptcp # User => cps[i].cont \in Goal /\ Calls(cps[i].cont) = CallOf(i)
         /\ cps[i].ptcp = User => query > 0 /\ CallOf(i) = Query[query] /\ cps[i].cont = Asking
<1>1. i \in 1..Len(cps) /\ cps[i] \in Entry /\ cps[i].ptcp \in Subgoal \cup {User}
      /\ cps[i].cont \in Goal \cup {Asking}
  <2>1. i \in 1..Len(cps)
    BY Tops
  <2> QED  BY <2>1, EntryTyped DEF Entry
<1>2. IsForCall(i)
  BY DEF ReturnsToCall
<1>3. CASE cps[i].ptcp = User
  <2>1. query \in 1..Len(Query)
    BY <1>2, <1>3 DEF IsForCall, Typed
  <2>2. Query[query] \in Subgoal
    BY <2>1, ProgramAssumption
  <2> QED  BY <1>1, <1>2, <1>3, <2>1, <2>2 DEF CallOf, IsForCall
<1>4. CASE cps[i].ptcp # User
  <2>1. cps[i].cont \in Goal
    BY <1>1, <1>2, <1>4 DEF IsForCall, Typed
  <2>2. Calls(cps[i].cont) \in Subgoal
    BY <1>2, <1>4, <2>1, ProgramAssumption DEF IsForCall
  <2> QED  BY <1>1, <1>4, <2>1, <2>2 DEF CallOf
<1> QED  BY <1>3, <1>4

\* A choice point stays for its call while tables and trees grow.
LEMMA IsStillForCall ==
  ASSUME Typed, StackInv, ReturnsToCall, NEW i \in 2..top_of_cpstack,
         program' = program, query' = query,
         \A t \in Subgoal : /\ tree[t] \subseteq tree'[t] /\ (sf[t].complete => sf'[t].complete)
                            /\ Range(sf[t].answers) \subseteq Range(sf'[t].answers),
         cps'[i].ptcp = cps[i].ptcp, cps'[i].cont = cps[i].cont, cps'[i].subgoal = cps[i].subgoal,
         cps'[i].pc = "trie" => cps[i].pc = "trie" /\ cps'[i].left # {} /\ cps'[i].left \subseteq cps[i].left,
         cps'[i].pc # "trie" => cps[i].pc # "trie",
         cps'[i].pc = "tableretry" =>
           cps[i].pc = "tableretry" /\ cps'[i].next \in 2..Len(Clauses(program, cps[i].subgoal))
  PROVE  IsForCall(i)'
<1>1. CallOf(i)' = CallOf(i) /\ CallOf(i) \in Subgoal
  BY CallOfTyped DEF CallOf
<1>2. IsForCall(i) /\ cps[i].ptcp \in Subgoal \cup {User}
  BY CallOfTyped DEF ReturnsToCall
<1> PICK s : s = CallOf(i)
  OBVIOUS
<1>3. s \in Subgoal /\ CallOf(i)' = s
  BY <1>1
<1>4. cps'[i].pc = "trie" => sf'[s].complete /\ cps'[i].left \subseteq Range(sf'[s].answers) /\ cps'[i].left # {}
  BY <1>2, <1>3 DEF IsForCall
<1>5. cps'[i].ptcp # User => cps'[i].cont \in tree'[cps'[i].ptcp] /\ Calls(cps'[i].cont) # Done
  BY <1>2 DEF IsForCall
<1>6. (cps'[i].ptcp = User => cps'[i].cont = Asking /\ query' > 0) /\ (cps'[i].pc # "trie" => cps'[i].subgoal = s)
  BY <1>2 DEF IsForCall
<1> QED  BY <1>3, <1>4, <1>5, <1>6 DEF IsForCall

\* Steps that change the fields of choice points, breg and what runs.
LEMMA QuietOrder ==
  ASSUME OrderInv, StackInv', sf' = sf, UNCHANGED <<bfreg, frames, openreg, level_num, root_address, program, query, results>>,
         cps' \in Seq(Entry), Len(cps') = Len(cps), breg' \in 1..top_of_cpstack, cps'[1].prev = 0,
         \A i \in 1..Len(cps) : cps'[i].prev \in 0..Len(cps),
         RunTyped', UNCHANGED tree \/ (\E g, p : Run(g, p)),
         running' /\ ptcpreg' = User => query > 0,
         running' /\ ptcpreg' # User => goal' \in tree'[ptcpreg'],
         \A i \in 2..top_of_cpstack :
           /\ cps'[i].ptcp = cps[i].ptcp /\ cps'[i].cont = cps[i].cont /\ cps'[i].subgoal = cps[i].subgoal
           /\ cps'[i].pc = "trie" => cps[i].pc = "trie" /\ cps'[i].left # {} /\ cps'[i].left \subseteq cps[i].left
           /\ cps'[i].pc # "trie" => cps[i].pc # "trie"
           /\ cps'[i].pc = "tableretry" =>
                cps[i].pc = "tableretry" /\ cps'[i].next \in 2..Len(Clauses(program, cps[i].subgoal))
  PROVE  OrderInv'
<1>1. Typed /\ StackInv /\ TablesAreSound /\ ReturnsToCall
  BY DEF OrderInv
<1>2. top_of_cpstack \in 1..Len(cps) /\ bfreg \in 1..top_of_cpstack /\ breg' \in 1..Len(cps)
  BY <1>1, Tops DEF Typed
<1>3. sf' \in [Subgoal -> SubgoalFrame] /\ StackTyped'
  BY <1>1, <1>2, QuietTyped
<1>4. TablesAreSound'
  BY <1>1, SoundStill
<1>5. CallTyped'
  BY <1>1 DEF Typed, CallTyped
<1>6. Typed'
  <2>1. Typed' <=> /\ sf' \in [Subgoal -> SubgoalFrame] /\ StackTyped' /\ RunTyped' /\ CallTyped'
    BY DEF Typed, StackTyped, RunTyped, CallTyped
  <2> QED  BY <1>3, <1>5, <2>1
<1>7. \A t \in Subgoal : tree[t] \subseteq tree'[t]
  BY <1>1 DEF Run, Typed
<1>8. ASSUME NEW i \in 2..top_of_cpstack  PROVE IsForCall(i)'
  BY <1>1, <1>7, <1>8, IsStillForCall
<1>9. top_of_cpstack' \in 1..top_of_cpstack /\ top_of_cpstack \in Nat
  BY <1>2 DEF top_of_cpstack, Higher
<1>10. \A i \in 2..top_of_cpstack' : IsForCall(i)'
  BY <1>8, <1>9
<1>11. ReturnsToCall'
  BY <1>10 DEF ReturnsToCall
<1> QED  BY <1>4, <1>6, <1>11 DEF OrderInv

\* What the choice points are before a step.
LEMMA EntriesAre ==
  ASSUME OrderInv
  PROVE  /\ cps \in Seq(Entry) /\ Len(cps) \in Nat /\ cps[1].prev = 0 /\ \A i \in 1..Len(cps) : cps[i] \in Entry /\ cps[i].prev \in 0..Len(cps)
         /\ top_of_cpstack \in 1..Len(cps) /\ breg \in 1..top_of_cpstack
         /\ \A i \in 2..top_of_cpstack :
              /\ i \in 1..Len(cps) /\ cps[i].pc # "query"
              /\ cps[i].pc = "trie" => cps[i].left # {}
              /\ cps[i].pc = "tableretry" => cps[i].next \in 2..Len(Clauses(program, cps[i].subgoal))
<1>1. Typed /\ StackInv /\ ReturnsToCall
  BY DEF OrderInv
<1>2. top_of_cpstack \in 1..Len(cps) /\ breg \in 1..top_of_cpstack /\ Len(cps) \in Nat
  BY <1>1, Tops DEF Typed
<1>3. cps \in Seq(Entry) /\ cps[1].prev = 0 /\ \A i \in 1..Len(cps) : cps[i] \in Entry /\ cps[i].prev \in 0..Len(cps)
  BY <1>1 DEF Typed
<1>4. ASSUME NEW i \in 2..top_of_cpstack
      PROVE  /\ i \in 1..Len(cps) /\ cps[i].pc # "query"
             /\ cps[i].pc = "trie" => cps[i].left # {}
             /\ cps[i].pc = "tableretry" => cps[i].next \in 2..Len(Clauses(program, cps[i].subgoal))
  <2>1. IsForCall(i) /\ i \in 1..top_of_cpstack
    BY <1>1, <1>2 DEF ReturnsToCall
  <2>2. cps[i].pc # "query"
    BY <1>1, <2>1 DEF StackInv, Stacked, EntriesAreAlive
  <2> QED  BY <1>2, <2>1, <2>2 DEF IsForCall
<1> QED  BY <1>2, <1>3, <1>4

LEMMA UserAnswerOrder == OrderInv /\ UserAnswer => OrderInv'
<1> SUFFICES ASSUME OrderInv, UserAnswer  PROVE OrderInv'
  OBVIOUS
<1>1. Typed /\ StackInv /\ TablesAreSound /\ ReturnsToCall
  BY DEF OrderInv
<1>2. StackInv'
  BY <1>1, UserAnswerStack
<1>3. UNCHANGED <<program, sf, cps, breg, bfreg, frames, openreg, level_num, root_address, query>> /\ Fail1
  BY DEF UserAnswer
<1>4. sf' \in [Subgoal -> SubgoalFrame] /\ StackTyped'
  BY <1>1, <1>3 DEF Typed, StackTyped
<1>5. RunTyped'
  BY <1>1, <1>3, Fail1Typed
<1>6. CallTyped'
  <2>1. PICK a \in Answer : goal = Got(a)
    BY <1>1 DEF UserAnswer, Typed
  <2>2. query > 0 /\ query \in 0..Len(Query) /\ query = Len(results)
    BY <1>1 DEF UserAnswer, Typed
  <2>3. results' = [results EXCEPT ![query] = Append(results[query], a)]
    BY <2>1 DEF UserAnswer, Got
  <2>4. query \in 1..Len(results) /\ results \in Seq(Seq(Answer))
    BY <1>1, <2>2 DEF Typed
  <2>5. Append(results[query], a) \in Seq(Answer)
    BY <2>1, <2>4
  <2>6. results' \in Seq(Seq(Answer)) /\ Len(results') = Len(results)
    BY <2>3, <2>4, <2>5
  <2> QED  BY <1>1, <1>3, <2>2, <2>6 DEF CallTyped, Typed, Fail1
<1>7. Typed'
  <2>1. Typed' <=> /\ sf' \in [Subgoal -> SubgoalFrame] /\ StackTyped' /\ RunTyped' /\ CallTyped'
    BY DEF Typed, StackTyped, RunTyped, CallTyped
  <2> QED  BY <1>4, <1>5, <1>6, <2>1
<1>8. TablesAreSound'
  BY <1>1, <1>2, <1>3, SoundStill DEF Fail1
<1>9. ReturnsToCall'
  <2>1. top_of_cpstack' = top_of_cpstack
    BY <1>3 DEF top_of_cpstack
  <2>2. \A i \in 2..top_of_cpstack : IsForCall(i)'
    BY <1>1, <1>3 DEF ReturnsToCall, IsForCall, CallOf, Fail1
  <2> QED  BY <2>1, <2>2, <1>3 DEF ReturnsToCall, Fail1
<1> QED  BY <1>2, <1>7, <1>8, <1>9 DEF OrderInv

LEMMA NextQueryOrder == OrderInv /\ NextQuery => OrderInv'
<1> SUFFICES ASSUME OrderInv, NextQuery  PROVE OrderInv'
  OBVIOUS
<1>1. Typed /\ StackInv /\ TablesAreSound /\ ReturnsToCall
  BY DEF OrderInv
<1>2. StackInv' /\ top_of_cpstack = 1
  BY <1>1, NextQueryStack
<1>3. UNCHANGED <<program, sf, cps, breg, bfreg, frames, openreg, level_num, root_address>> /\ Run(Asking, User)
      /\ query < Len(Query) /\ query' = query + 1 /\ results' = Append(results, <<>>)
  BY DEF NextQuery
<1>4. sf' \in [Subgoal -> SubgoalFrame] /\ StackTyped'
  BY <1>1, <1>3 DEF Typed, StackTyped
<1>5. RunTyped' /\ running' /\ ptcpreg' = User
  BY <1>1, <1>3, RunsTyped
<1>6. CallTyped'
  <2>1. query \in 0..Len(Query) /\ query = Len(results) /\ results \in Seq(Seq(Answer)) /\ Len(Query) \in Nat
    BY <1>1, ProgramAssumption DEF Typed
  <2>2. <<>> \in Seq(Answer)
    OBVIOUS
  <2>3. results' \in Seq(Seq(Answer)) /\ Len(results') = Len(results) + 1
    BY <1>3, <2>1, <2>2, AppendProperties
  <2> QED  BY <1>1, <1>3, <2>1, <2>3 DEF CallTyped, Typed
<1>7. Typed'
  <2>1. Typed' <=> /\ sf' \in [Subgoal -> SubgoalFrame] /\ StackTyped' /\ RunTyped' /\ CallTyped'
    BY DEF Typed, StackTyped, RunTyped, CallTyped
  <2> QED  BY <1>4, <1>5, <1>6, <2>1
<1>8. TablesAreSound'
  BY <1>1, <1>2, <1>3, SoundStill
<1>9. ReturnsToCall'
  <2>1. top_of_cpstack' = 1
    BY <1>2, <1>3 DEF top_of_cpstack
  <2> QED  BY <2>1, <1>5 DEF ReturnsToCall
<1> QED  BY <1>2, <1>7, <1>8, <1>9 DEF OrderInv

LEMMA NextClauseOrder == OrderInv /\ NextClause => OrderInv'
<1> SUFFICES ASSUME OrderInv, NextClause  PROVE OrderInv'
  OBVIOUS
<1> PICK k : k = breg
  OBVIOUS
<1>1. Typed /\ StackInv /\ TablesAreSound /\ ReturnsToCall
  BY DEF OrderInv
<1>2. StackInv'
  BY <1>1, NextClauseStack
<1>3. /\ k \in 2..top_of_cpstack /\ k \in 1..Len(cps) /\ top_of_cpstack <= Len(cps) /\ cps[k] \in Entry /\ cps[k].next \in Nat
      /\ cps[k].pc = "tableretry" /\ cps[k].subgoal \in Subgoal
      /\ cps[k].next \in 2..Len(Clauses(program, cps[k].subgoal))
  <2>1. k \in 1..top_of_cpstack /\ k \in 1..Len(cps) /\ top_of_cpstack <= Len(cps) /\ cps[k].pc = "tableretry"
    BY <1>1, Tops DEF NextClause, FailTo, Typed
  <2>2. k # 1 /\ cps[k].subgoal \in Subgoal
    BY <1>1, <2>1 DEF StackInv, Stacked, EntriesAreAlive, IsGenerator
  <2>3. k \in 2..top_of_cpstack
    BY <2>1, <2>2
  <2>4. cps[k].next \in 2..Len(Clauses(program, cps[k].subgoal))
    BY <2>3, <2>1, EntriesAre
  <2> QED  BY <1>1, <2>1, <2>2, <2>3, <2>4, EntryTyped
<1> PICK s : s = cps[k].subgoal
  OBVIOUS
<1> PICK n : n = cps[k].next
  OBVIOUS
<1> PICK m : m = Len(Clauses(program, s))
  OBVIOUS
<1>4. /\ s \in Subgoal /\ Clauses(program, s) \in Seq(Goal) /\ n \in 2..m /\ m \in Nat
      /\ Clauses(program, s)[n] \in Goal
  <2>1. Clauses(program, s) \in Seq(Goal)
    BY <1>1, <1>3, ProgramAssumption DEF Typed
  <2> QED  BY <1>3, <2>1
<1>5. /\ UNCHANGED <<program, sf, breg, bfreg, frames, openreg, level_num, root_address, query, results>>
      /\ cps' = [cps EXCEPT ![k].next = @ + 1, ![k].pc = IF n = m THEN "check_complete" ELSE @]
      /\ Run(Clauses(program, s)[n], s)
  BY DEF NextClause
<1>6. RunTyped' /\ running' /\ ptcpreg' = s /\ goal' \in tree'[s]
  BY <1>1, <1>4, <1>5, RunsTyped, EngineAssumption
<1>7. /\ cps' \in Seq(Entry) /\ Len(cps') = Len(cps)
      /\ \A i \in 1..Len(cps) : i # k => cps'[i] = cps[i]
      /\ cps'[k].ptcp = cps[k].ptcp /\ cps'[k].cont = cps[k].cont /\ cps'[k].subgoal = s
      /\ cps'[k].prev = cps[k].prev /\ cps'[k].next = n + 1
      /\ cps'[k].pc = IF n = m THEN "check_complete" ELSE "tableretry"
  <2>c. PICK pc : pc = IF n = m THEN "check_complete" ELSE "tableretry"
    OBVIOUS
  <2>0. pc \in {"check_complete", "tableretry"} /\ n + 1 \in Nat
    BY <1>4, <2>c
  <2> DEFINE e == [cps[k] EXCEPT !.next = n + 1, !.pc = pc]
  <2>1. e \in Entry /\ e.ptcp = cps[k].ptcp /\ e.cont = cps[k].cont /\ e.subgoal = cps[k].subgoal
        /\ e.prev = cps[k].prev /\ e.next = n + 1 /\ e.pc = pc
    BY <1>3, <2>0 DEF Entry
  <2>2. cps' = [cps EXCEPT ![k] = e]
    BY <1>3, <1>5, <2>c
  <2> HIDE DEF e
  <2>3. cps \in Seq(Entry)
    BY <1>1 DEF Typed
  <2> QED  BY <1>3, <2>1, <2>2, <2>3, <2>c
<1>8. cps[1].prev = 0 /\ \A i \in 1..Len(cps) : cps[i].prev \in 0..Len(cps)
  BY <1>1 DEF Typed
<1>9. cps'[1].prev = 0 /\ \A i \in 1..Len(cps) : cps'[i].prev \in 0..Len(cps)
  BY SMTT(30), <1>3, <1>7, <1>8
<1>10. ASSUME NEW i \in 2..top_of_cpstack
       PROVE /\ cps'[i].ptcp = cps[i].ptcp /\ cps'[i].cont = cps[i].cont /\ cps'[i].subgoal = cps[i].subgoal
             /\ cps'[i].pc = "trie" => cps[i].pc = "trie" /\ cps'[i].left # {} /\ cps'[i].left \subseteq cps[i].left
             /\ cps'[i].pc # "trie" => cps[i].pc # "trie"
             /\ cps'[i].pc = "tableretry" =>
                  cps[i].pc = "tableretry" /\ cps'[i].next \in 2..Len(Clauses(program, cps[i].subgoal))
  <2>1. CASE i = k
    <3>1. cps'[k].pc = "tableretry" => n + 1 \in 2..m
      BY <1>4, <1>7
    <3> QED  BY <1>3, <1>7, <2>1, <3>1
  <2>2. CASE i # k
    BY <1>3, <1>7, <2>2, EntriesAre
  <2> QED  BY <2>1, <2>2
<1>11. ptcpreg' # User
  BY <1>4, <1>6, EngineAssumption
<1>12. breg' \in 1..top_of_cpstack
  BY <1>3, <1>5
<1>13. \E g, p : Run(g, p)
  BY <1>5
<1>14. running' /\ ptcpreg' # User => goal' \in tree'[ptcpreg']
  BY <1>6
<1> QED  BY <1>2, <1>5, <1>6, <1>7, <1>9, <1>10, <1>11, <1>12, <1>13, <1>14, QuietOrder

LEMMA NextOfTrieOrder == OrderInv /\ NextOfTrie => OrderInv'
<1> SUFFICES ASSUME OrderInv, NextOfTrie  PROVE OrderInv'
  OBVIOUS
<1> PICK k : k = breg
  OBVIOUS
<1>1. Typed /\ StackInv /\ TablesAreSound /\ ReturnsToCall
  BY DEF OrderInv
<1>2. StackInv'
  BY <1>1, NextOfTrieStack
<1>3. /\ k \in 2..top_of_cpstack /\ k \in 1..Len(cps) /\ cps[k] \in Entry /\ cps[k].pc = "trie"
      /\ top_of_cpstack <= Len(cps) /\ ~ IsGenerator(k)
  <2>1. k \in 1..top_of_cpstack /\ k \in 1..Len(cps) /\ cps[k].pc = "trie" /\ top_of_cpstack <= Len(cps)
    BY <1>1, Tops DEF NextOfTrie, FailTo, Typed
  <2>2. k # 1 /\ ~ IsGenerator(k)
    BY <1>1, <2>1 DEF StackInv, Stacked, EntriesAreAlive, IsGenerator
  <2> QED  BY <1>1, <2>1, <2>2, EntryTyped
<1>b. PICK b : b = cps[k].prev
  OBVIOUS
<1>p. PICK p : p = cps[k].ptcp
  OBVIOUS
<1>c. PICK c : c = cps[k].cont
  OBVIOUS
<1>l. PICK left : left = cps[k].left
  OBVIOUS
<1>4. left \subseteq Answer /\ p \in Subgoal \cup {User} /\ (p # User => c \in Goal /\ Calls(c) # Done)
      /\ (p = User => query > 0)
  <2>1. left \subseteq Answer /\ p \in Subgoal \cup {User}
    BY <1>1, <1>3, <1>p, <1>l, EntryTyped
  <2>2. IsForCall(k)
    BY <1>1, <1>3 DEF ReturnsToCall
  <2>3. p # User => c \in Goal
    BY <1>1, <1>3, <1>p, <1>c, CallOfTyped
  <2> QED  BY <1>p, <1>c, <2>1, <2>2, <2>3 DEF IsForCall
<1>5. PICK a \in left :
        /\ IF left = {a} THEN breg' = b /\ cps' = cps
                         ELSE cps' = [cps EXCEPT ![k].left = @ \ {a}] /\ breg' = breg
        /\ Return(a, c, p)
  BY <1>b, <1>p, <1>c, <1>l DEF NextOfTrie
<1>6. UNCHANGED <<program, sf, bfreg, frames, openreg, level_num, root_address, query, results>>
  BY DEF NextOfTrie
<1>7. a \in Answer /\ Return(a, c, p)
  BY <1>4, <1>5
<1>8. /\ RunTyped' /\ running' /\ ptcpreg' = p /\ (p # User => goal' \in tree'[p])
  BY <1>1, <1>4, <1>7, ReturnsTyped
<1>9. /\ cps' \in Seq(Entry) /\ Len(cps') = Len(cps)
      /\ \A i \in 1..Len(cps) : i # k => cps'[i] = cps[i]
      /\ cps'[k].ptcp = cps[k].ptcp /\ cps'[k].cont = cps[k].cont /\ cps'[k].subgoal = cps[k].subgoal
      /\ cps'[k].prev = cps[k].prev /\ cps'[k].pc = "trie" /\ cps'[k].left \subseteq left /\ cps'[k].left # {}
  <2>1. CASE left = {a}
    <3>1. cps' = cps
      BY <1>5, <2>1
    <3> QED  BY <1>1, <1>3, <1>l, <2>1, <3>1 DEF Typed
  <2>2. CASE left # {a}
    <3> DEFINE e == [cps[k] EXCEPT !.left = left \ {a}]
    <3>1. e \in Entry /\ e.ptcp = cps[k].ptcp /\ e.cont = cps[k].cont /\ e.subgoal = cps[k].subgoal
          /\ e.prev = cps[k].prev /\ e.pc = "trie" /\ e.left = left \ {a}
      BY <1>3, <1>4 DEF Entry
    <3>2. cps' = [cps EXCEPT ![k] = e]
      BY <1>3, <1>5, <1>l, <2>2
    <3> HIDE DEF e
    <3>3. cps \in Seq(Entry)
      BY <1>1 DEF Typed
    <3>4. left \ {a} # {} /\ left \ {a} \subseteq left
      BY <1>5, <2>2
    <3> QED  BY <1>3, <3>1, <3>2, <3>3, <3>4
  <2> QED  BY <2>1, <2>2
<1>10. cps[1].prev = 0 /\ \A i \in 1..Len(cps) : cps[i].prev \in 0..Len(cps)
  BY <1>1 DEF Typed
<1>11. cps'[1].prev = 0 /\ \A i \in 1..Len(cps) : cps'[i].prev \in 0..Len(cps)
  BY <1>3, <1>9, <1>10
<1>12. breg' \in 1..top_of_cpstack
  <2>1. b \in 1..top_of_cpstack
    BY <1>1, <1>3, <1>b, Tops, Backs
  <2> QED  BY <1>3, <1>5, <2>1
<1>13. ASSUME NEW i \in 2..top_of_cpstack
       PROVE /\ cps'[i].ptcp = cps[i].ptcp /\ cps'[i].cont = cps[i].cont /\ cps'[i].subgoal = cps[i].subgoal
             /\ cps'[i].pc = "trie" => cps[i].pc = "trie" /\ cps'[i].left # {} /\ cps'[i].left \subseteq cps[i].left
             /\ cps'[i].pc # "trie" => cps[i].pc # "trie"
             /\ cps'[i].pc = "tableretry" =>
                  cps[i].pc = "tableretry" /\ cps'[i].next \in 2..Len(Clauses(program, cps[i].subgoal))
  <2>1. CASE i = k
    BY <1>3, <1>9, <1>l, <2>1
  <2>2. CASE i # k
    <3>1. cps'[i] = cps[i]
      BY <1>9, <2>2, EntriesAre
    <3> QED  BY <3>1, EntriesAre
  <2> QED  BY <2>1, <2>2
<1>14. \E g, q : Run(g, q)
  BY <1>5 DEF Return
<1>15. (running' /\ ptcpreg' # User => goal' \in tree'[ptcpreg']) /\ (ptcpreg' = User => query > 0)
  BY <1>4, <1>8
<1> QED  BY <1>2, <1>6, <1>8, <1>9, <1>11, <1>12, <1>13, <1>14, <1>15, QuietOrder

LEMMA AnswerReturnOrder == OrderInv /\ AnswerReturn => OrderInv'
<1> SUFFICES ASSUME OrderInv, AnswerReturn  PROVE OrderInv'
  OBVIOUS
<1> PICK k : k = breg
  OBVIOUS
<1>1. Typed /\ StackInv /\ TablesAreSound /\ ReturnsToCall
  BY DEF OrderInv
<1>2. StackInv'
  BY <1>1, AnswerReturnStack
<1>3. /\ k \in 2..top_of_cpstack /\ k \in 1..Len(cps) /\ cps[k] \in Entry /\ cps[k].pc = "answer_return"
      /\ top_of_cpstack <= Len(cps) /\ ~ IsGenerator(k) /\ cps[k].subgoal \in Subgoal /\ cps[k].ret \in Nat
  <2>1. k \in 1..top_of_cpstack /\ k \in 1..Len(cps) /\ cps[k].pc = "answer_return" /\ top_of_cpstack <= Len(cps)
    BY <1>1, Tops DEF AnswerReturn, FailTo, Typed
  <2>2. k # 1 /\ ~ IsGenerator(k) /\ cps[k].subgoal \in Subgoal
    BY <1>1, <2>1 DEF StackInv, Stacked, EntriesAreAlive, IsGenerator
  <2> QED  BY <1>1, <2>1, <2>2, EntryTyped
<1>b. PICK b : b = cps[k].prev
  OBVIOUS
<1>p. PICK p : p = cps[k].ptcp
  OBVIOUS
<1>c. PICK c : c = cps[k].cont
  OBVIOUS
<1>n. PICK n : n = cps[k].ret + 1
  OBVIOUS
<1>l. PICK list : list = sf[cps[k].subgoal].answers
  OBVIOUS
<1>4. p \in Subgoal \cup {User} /\ (p # User => c \in Goal /\ Calls(c) # Done)
      /\ (p = User => query > 0)
  <2>1. p \in Subgoal \cup {User}
    BY <1>1, <1>3, <1>p, EntryTyped
  <2>2. IsForCall(k)
    BY <1>1, <1>3 DEF ReturnsToCall
  <2>3. p # User => c \in Goal
    BY <1>1, <1>3, <1>p, <1>c, CallOfTyped
  <2> QED  BY <1>p, <1>c, <2>1, <2>2, <2>3 DEF IsForCall
<1>5. IF n - 1 < Len(list) THEN cps' = [cps EXCEPT ![k].ret = n] /\ Return(list[n], c, p) /\ breg' = breg
                           ELSE breg' = b /\ Fail1 /\ cps' = cps
  BY <1>3, <1>b, <1>p, <1>c, <1>n, <1>l DEF AnswerReturn
<1>6. UNCHANGED <<program, sf, bfreg, frames, openreg, level_num, root_address, query, results>>
  BY DEF AnswerReturn
<1>7. list \in Seq(Answer) /\ n \in Nat /\ n >= 1
  BY <1>1, <1>3, <1>l, <1>n, TableTyped
<1>8. /\ cps' \in Seq(Entry) /\ Len(cps') = Len(cps)
      /\ \A i \in 1..Len(cps) : i # k => cps'[i] = cps[i]
      /\ cps'[k].ptcp = cps[k].ptcp /\ cps'[k].cont = cps[k].cont /\ cps'[k].subgoal = cps[k].subgoal
      /\ cps'[k].prev = cps[k].prev /\ cps'[k].pc = "answer_return"
  <2>1. CASE ~ (n - 1 < Len(list))
    <3>1. cps' = cps
      BY <1>5, <2>1
    <3> QED  BY <1>1, <1>3, <3>1 DEF Typed
  <2>2. CASE n - 1 < Len(list)
    <3> DEFINE e == [cps[k] EXCEPT !.ret = n]
    <3>1. e \in Entry /\ e.ptcp = cps[k].ptcp /\ e.cont = cps[k].cont /\ e.subgoal = cps[k].subgoal
          /\ e.prev = cps[k].prev /\ e.pc = "answer_return"
      BY <1>3, <1>7 DEF Entry
    <3>2. cps' = [cps EXCEPT ![k] = e]
      BY <1>3, <1>5, <2>2
    <3> HIDE DEF e
    <3>3. cps \in Seq(Entry)
      BY <1>1 DEF Typed
    <3> QED  BY <1>3, <3>1, <3>2, <3>3
  <2> QED  BY <2>1, <2>2
<1>9. /\ RunTyped' /\ (running' /\ ptcpreg' = User => query > 0)
      /\ (running' /\ ptcpreg' # User => goal' \in tree'[ptcpreg'])
      /\ (UNCHANGED tree \/ \E g, q : Run(g, q))
  <2>1. CASE ~ (n - 1 < Len(list))
    <3>1. Fail1
      BY <1>5, <2>1
    <3> QED  BY <1>1, <3>1, Fail1Typed DEF Fail1
  <2>2. CASE n - 1 < Len(list)
    <3>1. list[n] \in Answer /\ Return(list[n], c, p)
      BY <1>5, <1>7, <2>2
    <3>a. PICK a : a = list[n]
      OBVIOUS
    <3>2. a \in Answer /\ Return(a, c, p)
      BY <3>1, <3>a
    <3>3. RunTyped' /\ running' /\ ptcpreg' = p /\ (p # User => goal' \in tree'[p])
      BY <1>1, <1>4, <3>2, ReturnsTyped
    <3>4. \E g, q : Run(g, q)
      BY <3>2 DEF Return
    <3> QED  BY <1>4, <3>3, <3>4
  <2> QED  BY <2>1, <2>2
<1>10. cps[1].prev = 0 /\ \A i \in 1..Len(cps) : cps[i].prev \in 0..Len(cps)
  BY <1>1 DEF Typed
<1>11. cps'[1].prev = 0 /\ \A i \in 1..Len(cps) : cps'[i].prev \in 0..Len(cps)
  BY <1>3, <1>8, <1>10
<1>12. breg' \in 1..top_of_cpstack
  <2>1. b \in 1..top_of_cpstack
    BY <1>1, <1>3, <1>b, Tops, Backs
  <2> QED  BY <1>3, <1>5, <2>1
<1>13. ASSUME NEW i \in 2..top_of_cpstack
       PROVE /\ cps'[i].ptcp = cps[i].ptcp /\ cps'[i].cont = cps[i].cont /\ cps'[i].subgoal = cps[i].subgoal
             /\ cps'[i].pc = "trie" => cps[i].pc = "trie" /\ cps'[i].left # {} /\ cps'[i].left \subseteq cps[i].left
             /\ cps'[i].pc # "trie" => cps[i].pc # "trie"
             /\ cps'[i].pc = "tableretry" =>
                  cps[i].pc = "tableretry" /\ cps'[i].next \in 2..Len(Clauses(program, cps[i].subgoal))
  <2>1. CASE i = k
    BY <1>3, <1>8, <2>1
  <2>2. CASE i # k
    <3>1. cps'[i] = cps[i]
      BY <1>8, <2>2, EntriesAre
    <3> QED  BY <3>1, EntriesAre
  <2> QED  BY <2>1, <2>2
<1> QED  BY <1>2, <1>6, <1>8, <1>9, <1>11, <1>12, <1>13, QuietOrder

\* Consumers are linked by either way: that changes where they backtrack to.
LEMMA LinkedTyped ==
  ASSUME Typed, StackInv, NEW s \in Subgoal, AtCheckComplete(s),
         NEW stack, stack = Linked(s) \/ stack = find_fixpoint(s)
  PROVE  /\ stack \in Seq(Entry) /\ Len(stack) = Len(cps) /\ stack[1].prev = 0
         /\ \A i \in 1..Len(cps) :
              /\ stack[i].prev \in 0..Len(cps)
              /\ stack[i].pc = cps[i].pc /\ stack[i].subgoal = cps[i].subgoal /\ stack[i].cont = cps[i].cont
              /\ stack[i].ptcp = cps[i].ptcp /\ stack[i].next = cps[i].next /\ stack[i].ret = cps[i].ret
              /\ stack[i].left = cps[i].left
<1>1. /\ cps \in Seq(Entry) /\ DOMAIN cps = 1..Len(cps) /\ Len(cps) \in Nat /\ cps[1].prev = 0
      /\ \A i \in 1..Len(cps) : cps[i] \in Entry /\ cps[i].prev \in 0..Len(cps)
      /\ top_of_cpstack \in 1..Len(cps)
  BY Tops DEF Typed
<1>2. OpenTable(s) /\ breg \in 2..top_of_cpstack
      /\ \A c \in Consumers(s) : c \in 1..top_of_cpstack /\ c # breg /\ sf[s].cp <= c /\ sf[s].cp = breg
  BY GeneratorOnTop
<1>3. ASSUME NEW i \in 1..Len(cps)
      PROVE  \E n \in 0..Len(cps) : stack[i] = [cps[i] EXCEPT !.prev = n] /\ (i = 1 => n = 0)
  <2>1. CASE stack = find_fixpoint(s)
    <3>1. stack[i] = [cps[i] EXCEPT !.prev = FixpointPrev(s, i)]
      BY <1>1, <1>3, <2>1 DEF find_fixpoint
    <3>2. stack[i].prev \in 0..Len(cps) /\ (i = 1 => stack[i] = cps[i])
      BY <1>1, <1>2, <2>1, FixpointTyped
    <3>3. stack[i].prev = FixpointPrev(s, i)
      BY <1>1, <3>1, WithPrev
    <3> QED  BY <1>1, <3>1, <3>2, <3>3
  <2>2. CASE stack = Linked(s) /\ IsScheduled(s, i)
    <3>1. stack[i] = [cps[i] EXCEPT !.prev = NextScheduled(s, i)]
      BY <1>1, <1>3, <2>2 DEF Linked
    <3>2. i \in Consumers(s) /\ (NextScheduled(s, i) = breg \/ NextScheduled(s, i) \in Consumers(s))
      BY <2>2, Scheduled
    <3>3. NextScheduled(s, i) \in 1..top_of_cpstack /\ breg < i
      BY <1>1, <1>2, <3>2
    <3>4. NextScheduled(s, i) \in 0..Len(cps) /\ i # 1
      BY <1>1, <1>2, <3>3
    <3> QED  BY <3>1, <3>4
  <2>3. CASE stack = Linked(s) /\ ~ IsScheduled(s, i)
    <3>1. stack[i] = cps[i]
      BY <1>1, <1>3, <2>3 DEF Linked
    <3>2. \A c \in Entry : [c EXCEPT !.prev = c.prev] = c
      BY DEF Entry
    <3>3. stack[i] = [cps[i] EXCEPT !.prev = cps[i].prev]
      BY <1>1, <3>1, <3>2
    <3> QED  BY <1>1, <3>3
  <2> QED  BY <2>1, <2>2, <2>3
<1>4. ASSUME NEW i \in 1..Len(cps)
      PROVE  /\ stack[i] \in Entry /\ stack[i].prev \in 0..Len(cps) /\ (i = 1 => stack[i].prev = 0)
             /\ stack[i].pc = cps[i].pc /\ stack[i].subgoal = cps[i].subgoal /\ stack[i].cont = cps[i].cont
             /\ stack[i].ptcp = cps[i].ptcp /\ stack[i].next = cps[i].next /\ stack[i].ret = cps[i].ret
             /\ stack[i].left = cps[i].left
  <2>1. PICK n \in 0..Len(cps) : stack[i] = [cps[i] EXCEPT !.prev = n] /\ (i = 1 => n = 0)
    BY <1>3
  <2>2. n \in Nat /\ cps[i] \in Entry
    BY <1>1, <2>1
  <2> DEFINE d == [cps[i] EXCEPT !.prev = n]
  <2>3. /\ d.prev = n /\ d.pc = cps[i].pc /\ d.subgoal = cps[i].subgoal /\ d.cont = cps[i].cont /\ d.ptcp = cps[i].ptcp
        /\ d.next = cps[i].next /\ d.ret = cps[i].ret /\ d.left = cps[i].left /\ d \in Entry
    BY <2>2, WithPrev
  <2>4. stack[i] = d
    BY <2>1
  <2> HIDE DEF d
  <2> QED  BY <2>1, <2>3, <2>4
<1>5. DOMAIN stack = 1..Len(cps) /\ stack = [i \in 1..Len(cps) |-> stack[i]]
  BY <1>1 DEF Linked, find_fixpoint
<1>6. stack \in [1..Len(cps) -> Entry]
  BY <1>4, <1>5
<1>7. stack \in Seq(Entry) /\ Len(stack) = Len(cps)
  BY <1>1, <1>6
<1> QED  BY <1>1, <1>4, <1>7

LEMMA ScheduleOrder == OrderInv /\ (\E s \in Subgoal : ScheduleOwn(s) \/ ScheduleFollowers(s)) => OrderInv'
<1> SUFFICES ASSUME OrderInv, NEW s \in Subgoal, ScheduleOwn(s) \/ ScheduleFollowers(s)  PROVE OrderInv'
  OBVIOUS
<1>1. Typed /\ StackInv /\ TablesAreSound /\ ReturnsToCall
  BY DEF OrderInv
<1>2. StackInv'
  BY <1>1, ScheduleOwnStack, ScheduleFollowersStack
<1>3. /\ AtCheckComplete(s) /\ Fail1
      /\ cps' = Linked(s) \/ cps' = find_fixpoint(s)
      /\ UNCHANGED <<program, sf, bfreg, frames, openreg, level_num, root_address, query, results>>
  BY DEF ScheduleOwn, ScheduleFollowers
<1>4. /\ cps' \in Seq(Entry) /\ Len(cps') = Len(cps) /\ cps'[1].prev = 0
      /\ \A i \in 1..Len(cps) :
           /\ cps'[i].prev \in 0..Len(cps)
           /\ cps'[i].pc = cps[i].pc /\ cps'[i].subgoal = cps[i].subgoal /\ cps'[i].cont = cps[i].cont
           /\ cps'[i].ptcp = cps[i].ptcp /\ cps'[i].next = cps[i].next /\ cps'[i].left = cps[i].left
  BY <1>1, <1>3, LinkedTyped
<1>5. breg' \in 1..top_of_cpstack
  <2>1. OpenTable(s) /\ \A t \in Subgoal : OpenTable(t) => \A c \in Consumers(t) : c \in 1..top_of_cpstack
    BY <1>1, <1>3, GeneratorOnTop
  <2>2. CASE ScheduleOwn(s)
    <3>1. breg' = FirstScheduled(s) /\ FirstScheduled(s) \in Consumers(s)
      BY <1>1, <2>2, Scheduled DEF ScheduleOwn
    <3> QED  BY <2>1, <3>1
  <2>3. CASE ScheduleFollowers(s)
    <3>0. openreg \in Nat
      BY <1>1 DEF Typed
    <3>1. ScheduledFrames(s) # {}
      BY <2>3 DEF ScheduleFollowers
    <3>2. \A k \in Followers(s) : k \in Nat /\ k <= openreg
      BY <1>1, <2>1, FollowersNewer
    <3>3. ScheduledFrames(s) \in SUBSET Nat /\ ScheduledFrames(s) # {} /\ \A k \in ScheduledFrames(s) : k <= openreg
      BY <3>1, <3>2 DEF ScheduledFrames
    <3>4. PICK f \in Followers(s) : f = Greatest(ScheduledFrames(s)) /\ sched_answers(frames[f].subgoal) # {}
      <4>1. Greatest(ScheduledFrames(s)) \in ScheduledFrames(s)
        BY <3>0, <3>3, GreatestOf
      <4> QED  BY <4>1 DEF ScheduledFrames
    <3>t. PICK t : t = frames[f].subgoal
      OBVIOUS
    <3>5. t \in Subgoal /\ OpenTable(t)
      BY <1>1, <2>1, <3>4, <3>t, FollowersNewer
    <3>6. breg' = FirstScheduled(t) /\ FirstScheduled(t) \in Consumers(t)
      BY <1>1, <2>3, <3>4, <3>5, <3>t, Scheduled DEF ScheduleFollowers
    <3> QED  BY <2>1, <3>5, <3>6
  <2> QED  BY <2>2, <2>3
<1>6. RunTyped' /\ UNCHANGED tree /\ ~ running'
  BY <1>1, <1>3, Fail1Typed DEF Fail1
<1>7. ASSUME NEW i \in 2..top_of_cpstack
       PROVE /\ cps'[i].ptcp = cps[i].ptcp /\ cps'[i].cont = cps[i].cont /\ cps'[i].subgoal = cps[i].subgoal
             /\ cps'[i].pc = "trie" => cps[i].pc = "trie" /\ cps'[i].left # {} /\ cps'[i].left \subseteq cps[i].left
             /\ cps'[i].pc # "trie" => cps[i].pc # "trie"
             /\ cps'[i].pc = "tableretry" =>
                  cps[i].pc = "tableretry" /\ cps'[i].next \in 2..Len(Clauses(program, cps[i].subgoal))
  BY <1>4, EntriesAre
<1> QED  BY <1>2, <1>3, <1>4, <1>5, <1>6, <1>7, QuietOrder

LEMMA NewAnswerOrder == OrderInv /\ (\E s \in Subgoal : NewAnswer(s)) => OrderInv'
<1> SUFFICES ASSUME OrderInv, NEW s \in Subgoal, NewAnswer(s)  PROVE OrderInv'
  OBVIOUS
<1>1. Typed /\ StackInv /\ TablesAreSound /\ ReturnsToCall
  BY DEF OrderInv
<1>2. StackInv'
  BY <1>1, NewAnswerStack
<1>3. /\ OpenTable(s) /\ Fail1 /\ goal \in Goal /\ Calls(goal) = Done /\ Gives(goal) \in Answer
      /\ UNCHANGED <<program, bfreg, frames, openreg, level_num, root_address, query, results>>
  <2>1. running /\ ptcpreg = s /\ s # User /\ Calls(goal) = Done
    BY EngineAssumption DEF NewAnswer
  <2>2. OpenTable(s) /\ goal \in Goal
    BY <1>1, <2>1 DEF StackInv, RunsInOrder, Typed
  <2> QED  BY <2>1, <2>2, ProgramAssumption DEF NewAnswer
<1>a. PICK a \in Answer : a = Gives(goal)
  BY <1>3
<1>4. RunTyped' /\ UNCHANGED tree /\ ~ running'
  BY <1>1, <1>3, Fail1Typed DEF Fail1
<1>5. CASE UNCHANGED <<sf, cps, breg>>
  <2>1. breg' \in 1..top_of_cpstack /\ cps' \in Seq(Entry) /\ cps'[1].prev = 0
        /\ \A i \in 1..Len(cps) : cps'[i].prev \in 0..Len(cps)
    BY <1>5, EntriesAre
  <2>2. ASSUME NEW i \in 2..top_of_cpstack
       PROVE /\ cps'[i].ptcp = cps[i].ptcp /\ cps'[i].cont = cps[i].cont /\ cps'[i].subgoal = cps[i].subgoal
             /\ cps'[i].pc = "trie" => cps[i].pc = "trie" /\ cps'[i].left # {} /\ cps'[i].left \subseteq cps[i].left
             /\ cps'[i].pc # "trie" => cps[i].pc # "trie"
             /\ cps'[i].pc = "tableretry" =>
                  cps[i].pc = "tableretry" /\ cps'[i].next \in 2..Len(Clauses(program, cps[i].subgoal))
    BY <1>5, EntriesAre
  <2> QED  BY <1>2, <1>3, <1>4, <1>5, <2>1, <2>2, QuietOrder
<1>6. CASE /\ isNewAnswer(s, a)
           /\ sf' = [sf EXCEPT ![s].answers = Append(@, a), ![s].complete = @ \/ s \in Ground]
           /\ IF s \in Ground THEN cps' = perform_early_completion(s) /\ breg' = sf[s].cp
                              ELSE UNCHANGED <<cps, breg>>
  <2>1. /\ sf[s] \in SubgoalFrame /\ sf[s].answers \in Seq(Answer) /\ IsInjective(sf[s].answers)
        /\ a \notin Range(sf[s].answers) /\ sf[s].called /\ sf[s].complete \in BOOLEAN
    BY <1>1, <1>3, <1>6, TableTyped DEF isNewAnswer, TablesAreSound, OpenTable
  <2>l. PICK list : list = Append(sf[s].answers, a)
    OBVIOUS
  <2>2. list \in Seq(Answer) /\ IsInjective(list) /\ Range(list) = Range(sf[s].answers) \cup {a}
    <3>1. Append(sf[s].answers, a) \in Seq(Answer)
      BY <2>1
    <3>2. IsInjective(Append(sf[s].answers, a)) /\ Range(Append(sf[s].answers, a)) = Range(sf[s].answers) \cup {a}
      BY <2>1, InjectiveAppend
    <3> QED  BY <2>l, <3>1, <3>2
  <2>3. /\ sf' \in [Subgoal -> SubgoalFrame]
        /\ \A t \in Subgoal : t # s => sf'[t] = sf[t]
        /\ sf'[s].answers = list /\ (sf'[s].complete <=> sf[s].complete \/ s \in Ground)
        /\ sf'[s].called = sf[s].called /\ sf'[s].reclaimed = sf[s].reclaimed /\ sf'[s].asf = sf[s].asf
    <3>c. PICK c \in BOOLEAN : c = (sf[s].complete \/ s \in Ground)
      OBVIOUS
    <3> DEFINE e == [sf[s] EXCEPT !.answers = list, !.complete = c]
    <3>1. e \in SubgoalFrame /\ e.answers = list /\ e.complete = c /\ e.called = sf[s].called
          /\ e.reclaimed = sf[s].reclaimed /\ e.asf = sf[s].asf
      BY <2>1, <2>2 DEF SubgoalFrame
    <3>2. sf' = [sf EXCEPT ![s] = e]
      BY <1>1, <1>6, <2>l, <3>c DEF Typed
    <3> HIDE DEF e
    <3>3. sf \in [Subgoal -> SubgoalFrame]
      BY <1>1 DEF Typed
    <3> QED  BY <3>1, <3>2, <3>3, <3>c
  <2>4. /\ cps' \in Seq(Entry) /\ Len(cps') = Len(cps)
        /\ \A i \in 1..Len(cps) :
             /\ cps'[i].ptcp = cps[i].ptcp /\ cps'[i].cont = cps[i].cont /\ cps'[i].subgoal = cps[i].subgoal
             /\ cps'[i].prev = cps[i].prev /\ cps'[i].left = cps[i].left /\ cps'[i].next = cps[i].next
             /\ cps'[i].pc = cps[i].pc \/ (IsGenerator(i) /\ cps'[i].pc = "check_complete")
        /\ breg' \in 1..top_of_cpstack
    <3>1. cps \in Seq(Entry) /\ breg \in 1..top_of_cpstack
      BY EntriesAre
    <3>2. CASE s \notin Ground
      BY <1>6, <3>1, <3>2
    <3>3. CASE s \in Ground
      <4>k. PICK k : k = sf[s].cp
        OBVIOUS
      <4>1. k \in 1..top_of_cpstack /\ k \in 1..Len(cps) /\ cps[k] \in Entry
            /\ (cps[k].pc = "answer_return" \/ IsGenerator(k))
        <5>1. k \in 2..top_of_cpstack /\ k \in 1..Len(cps)
          BY <1>1, <1>3, <4>k, OpenTyped
        <5>2. cps[k].pc = "answer_return" \/ IsGenerator(k)
          BY <1>1, <1>3, <4>k DEF StackInv, Stacked, TablesAreOnStack
        <5> QED  BY <1>1, <5>1, <5>2, EntryTyped
      <4>p. PICK pc : pc = IF cps[k].pc = "answer_return" THEN "answer_return" ELSE "check_complete"
        OBVIOUS
      <4>2. pc \in {"answer_return", "check_complete"}
        BY <4>p
      <4> DEFINE e == [cps[k] EXCEPT !.pc = pc]
      <4>3. /\ e \in Entry /\ e.ptcp = cps[k].ptcp /\ e.cont = cps[k].cont /\ e.subgoal = cps[k].subgoal
            /\ e.prev = cps[k].prev /\ e.left = cps[k].left /\ e.next = cps[k].next /\ e.pc = pc
        BY <4>1, <4>2 DEF Entry
      <4>4. cps' = [cps EXCEPT ![k] = e]
        BY <1>6, <3>3, <4>1, <4>k, <4>p DEF perform_early_completion
      <4>5. e.pc = cps[k].pc \/ (IsGenerator(k) /\ e.pc = "check_complete")
        BY <4>1, <4>3, <4>p
      <4> HIDE DEF e
      <4>6. breg' = k
        BY <1>6, <3>3, <4>k
      <4> QED  BY <3>1, <4>1, <4>3, <4>4, <4>5, <4>6
    <3> QED  BY <3>2, <3>3
  <2>5. StackTyped'
    <3>1. bfreg' \in 1..Len(cps') /\ frames' \in Seq(CompletionFrame) /\ openreg' \in 0..Len(frames')
          /\ level_num' \in Nat /\ root_address' \in 0..Len(cps')
      BY <1>1, <1>3, <2>4 DEF Typed
    <3>0. 1 \in 1..Len(cps) /\ cps[1].prev = 0 /\ \A i \in 1..Len(cps) : cps[i].prev \in 0..Len(cps)
      BY EntriesAre
    <3>2. cps'[1].prev = 0 /\ \A i \in 1..Len(cps') : cps'[i].prev \in 0..Len(cps')
      BY <2>4, <3>0
    <3>3. breg' \in 1..Len(cps')
      BY <2>4, EntriesAre
    <3> QED  BY <2>4, <3>1, <3>2, <3>3 DEF StackTyped
  <2>6. Typed'
    <3>1. CallTyped'
      BY <1>1, <1>3, <1>4 DEF Typed, CallTyped
    <3>2. Typed' <=> /\ sf' \in [Subgoal -> SubgoalFrame] /\ StackTyped' /\ RunTyped' /\ CallTyped'
      BY DEF Typed, StackTyped, RunTyped, CallTyped
    <3> QED  BY <1>4, <2>3, <2>5, <3>1, <3>2
  <2>7. TablesAreSound'
    BY <1>1, <1>4, <2>1, <2>2, <2>3 DEF TablesAreSound
  <2>8. ASSUME NEW i \in 2..top_of_cpstack  PROVE IsForCall(i)'
    <3>1. \A t \in Subgoal : /\ tree[t] \subseteq tree'[t] /\ (sf[t].complete => sf'[t].complete)
                             /\ Range(sf[t].answers) \subseteq Range(sf'[t].answers)
      BY <1>4, <2>2, <2>3
    <3>2. i \in 1..Len(cps)
      BY EntriesAre
    <3>3. /\ cps'[i].pc = "trie" => cps[i].pc = "trie" /\ cps'[i].left # {} /\ cps'[i].left \subseteq cps[i].left
          /\ cps'[i].pc # "trie" => cps[i].pc # "trie"
          /\ cps'[i].pc = "tableretry" =>
                  cps[i].pc = "tableretry" /\ cps'[i].next \in 2..Len(Clauses(program, cps[i].subgoal))
      BY <2>4, <3>2, EntriesAre DEF IsGenerator
    <3> QED  BY <1>1, <1>3, <2>4, <3>1, <3>2, <3>3, IsStillForCall
  <2>9. ReturnsToCall'
    <3>1. top_of_cpstack' \in 1..top_of_cpstack /\ top_of_cpstack \in Nat
      BY <1>1, <1>3, <2>4, Tops DEF top_of_cpstack, Higher
    <3>2. \A i \in 2..top_of_cpstack' : IsForCall(i)'
      BY <2>8, <3>1
    <3> QED  BY <1>4, <3>2 DEF ReturnsToCall
  <2> QED  BY <1>2, <2>6, <2>7, <2>9 DEF OrderInv
<1>7. UNCHANGED <<sf, cps, breg>>
      \/ /\ isNewAnswer(s, a)
         /\ sf' = [sf EXCEPT ![s].answers = Append(@, a), ![s].complete = @ \/ s \in Ground]
         /\ IF s \in Ground THEN cps' = perform_early_completion(s) /\ breg' = sf[s].cp
                            ELSE UNCHANGED <<cps, breg>>
  BY <1>a DEF NewAnswer
<1> QED  BY <1>5, <1>6, <1>7

\* The choice point that is made for the goal that runs is for its call.
LEMMA RunsCall ==
  ASSUME OrderInv, NEW s \in Subgoal, Calling(s), NEW i, cps'[i].ptcp = ptcpreg, cps'[i].cont = goal,
         program' = program, query' = query, \A t \in Subgoal : tree[t] \subseteq tree'[t]
  PROVE  /\ CallOf(i)' = s
         /\ cps'[i].ptcp = User => cps'[i].cont = Asking /\ query' > 0
         /\ cps'[i].ptcp # User => cps'[i].cont \in tree'[cps'[i].ptcp] /\ Calls(cps'[i].cont) # Done
<1>1. Typed /\ ReturnsToCall /\ s # Done
  BY ProgramAssumption DEF OrderInv
<1>2. /\ running /\ ptcpreg \in Subgoal \cup {User}
      /\ ptcpreg = User => goal = Asking /\ query \in 1..Len(Query) /\ Query[query] = s
      /\ ptcpreg # User => goal \in Goal /\ Calls(goal) = s
  BY <1>1, CallingTyped
<1>3. ptcpreg # User => goal \in tree[ptcpreg] /\ tree[ptcpreg] \subseteq tree'[ptcpreg]
  BY <1>1, <1>2 DEF ReturnsToCall
<1>4. CallOf(i)' = s
  BY <1>2 DEF CallOf
<1> QED  BY <1>1, <1>2, <1>3, <1>4

\* Steps that put a choice point on top of T others.
LEMMA PushedOrder ==
  ASSUME OrderInv, StackInv', NEW T \in 1..top_of_cpstack,
         program' = program, query' = query, results' = results,
         sf' \in [Subgoal -> SubgoalFrame], TablesAreSound',
         \A t \in Subgoal : /\ tree[t] \subseteq tree'[t] /\ (sf[t].complete => sf'[t].complete)
                            /\ Range(sf[t].answers) \subseteq Range(sf'[t].answers),
         cps' \in Seq(Entry), Len(cps') = T + 1, \A i \in 1..T : cps'[i] = cps[i],
         breg' \in 1..T + 1, bfreg' \in 1..T + 1, top_of_cpstack' = T + 1,
         frames' \in Seq(CompletionFrame), openreg' \in 0..Len(frames'), level_num' \in Nat,
         RunTyped', running' /\ ptcpreg' = User => query > 0,
         running' /\ ptcpreg' # User => goal' \in tree'[ptcpreg'],
         IsForCall(T + 1)'
  PROVE  OrderInv'
<1>1. Typed /\ StackInv /\ TablesAreSound /\ ReturnsToCall
  BY DEF OrderInv
<1>2. T \in Nat /\ T >= 1 /\ 1 \in 1..T /\ cps[1].prev = 0 /\ top_of_cpstack \in Nat /\ T <= top_of_cpstack
  <2>1. cps[1].prev = 0 /\ top_of_cpstack \in Nat
    BY <1>1, Tops DEF Typed
  <2> QED  BY <2>1
<1>3. breg' \in 1..Len(cps') /\ bfreg' \in 1..Len(cps') /\ cps'[1].prev = 0
      /\ \A i \in 1..Len(cps') : i <= top_of_cpstack'
  BY <1>2
<1>4. StackTyped'
  BY <1>3, LinksTyped
<1>5. CallTyped'
  BY <1>1 DEF Typed, CallTyped
<1>6. Typed'
  <2>1. Typed' <=> /\ sf' \in [Subgoal -> SubgoalFrame] /\ StackTyped' /\ RunTyped' /\ CallTyped'
    BY DEF Typed, StackTyped, RunTyped, CallTyped
  <2> QED  BY <1>4, <1>5, <2>1
<1>7. ASSUME NEW i \in 2..T  PROVE IsForCall(i)'
  <2>1. i \in 2..top_of_cpstack /\ i \in 1..T /\ cps'[i] = cps[i]
    BY <1>2
  <2>2. cps[i].pc = "trie" => cps[i].left # {}
    BY <2>1, EntriesAre
  <2>3. cps[i].pc = "tableretry" => cps[i].next \in 2..Len(Clauses(program, cps[i].subgoal))
    BY <2>1, EntriesAre
  <2> QED  BY <1>1, <2>1, <2>2, <2>3, IsStillForCall
<1>8. \A i \in 2..top_of_cpstack' : i \in 2..T \/ i = T + 1
  BY <1>2
<1>9. \A i \in 2..top_of_cpstack' : IsForCall(i)'
  BY <1>7, <1>8
<1>10. ReturnsToCall'
  BY <1>9 DEF ReturnsToCall
<1> QED  BY <1>6, <1>10 DEF OrderInv

LEMMA CallCompletedOrder == OrderInv /\ (\E s \in Subgoal : CallCompleted(s)) => OrderInv'
<1> SUFFICES ASSUME OrderInv, NEW s \in Subgoal, CallCompleted(s)  PROVE OrderInv'
  OBVIOUS
<1>1. Typed /\ StackInv /\ TablesAreSound /\ ReturnsToCall
  BY DEF OrderInv
<1>2. StackInv'
  BY <1>1, CallCompletedStack
<1>p. PICK p : p = ptcpreg
  OBVIOUS
<1>3. /\ running /\ p \in Subgoal \cup {User} /\ goal \in Goal \cup {Asking} /\ Calling(s) /\ sf[s].complete
      /\ (p = User => query > 0) /\ (p # User => goal \in Goal /\ Calls(goal) # Done)
      /\ UNCHANGED <<program, sf, bfreg, frames, openreg, level_num, root_address, query, results>>
      /\ Range(sf[s].answers) \subseteq Answer
  <2>1. Calling(s) /\ sf[s].complete
        /\ UNCHANGED <<program, sf, bfreg, frames, openreg, level_num, root_address, query, results>>
    BY DEF CallCompleted
  <2>2. s # Done
    BY ProgramAssumption
  <2> QED  BY <1>1, <1>p, <2>1, <2>2, CallingTyped, TableTyped, RangeOfSeq
<1>T. PICK T : T = top_of_cpstack
  OBVIOUS
<1>l. PICK left : left = Range(sf[s].answers)
  OBVIOUS
<1>4. ASSUME cps' = cps, breg' = breg, RunTyped', UNCHANGED tree \/ (\E g, q : Run(g, q)),
             running' /\ ptcpreg' = User => query > 0,
             running' /\ ptcpreg' # User => goal' \in tree'[ptcpreg']
      PROVE  OrderInv'
  <2>1. breg' \in 1..top_of_cpstack /\ cps' \in Seq(Entry) /\ cps'[1].prev = 0
        /\ \A i \in 1..Len(cps) : cps'[i].prev \in 0..Len(cps)
    BY <1>4, EntriesAre
  <2>2. ASSUME NEW i \in 2..top_of_cpstack
       PROVE /\ cps'[i].ptcp = cps[i].ptcp /\ cps'[i].cont = cps[i].cont /\ cps'[i].subgoal = cps[i].subgoal
             /\ cps'[i].pc = "trie" => cps[i].pc = "trie" /\ cps'[i].left # {} /\ cps'[i].left \subseteq cps[i].left
             /\ cps'[i].pc # "trie" => cps[i].pc # "trie"
             /\ cps'[i].pc = "tableretry" =>
                  cps[i].pc = "tableretry" /\ cps'[i].next \in 2..Len(Clauses(program, cps[i].subgoal))
    BY <1>4, EntriesAre
  <2> QED  BY <1>2, <1>3, <1>4, <2>1, <2>2, QuietOrder
<1>5. CASE sf[s].answers = <<>>
  <2>1. Fail1 /\ UNCHANGED <<cps, breg>>
    BY <1>5 DEF CallCompleted
  <2>2. RunTyped' /\ UNCHANGED tree /\ ~ running'
    BY <1>1, <2>1, Fail1Typed DEF Fail1
  <2> QED  BY <1>4, <2>1, <2>2
<1>6. CASE sf[s].answers # <<>>
  <2>1. PICK a \in left :
          /\ IF left = {a}
               THEN cps' = cps /\ breg' = breg
               ELSE cps' = Push(cps, T, TrieChoicePoint(left \ {a}, goal, p, breg)) /\ breg' = T + 1
          /\ Return(a, goal, p)
    BY <1>6, <1>p, <1>T, <1>l DEF CallCompleted, TrieReturn
  <2>2. a \in Answer /\ Return(a, goal, p)
    BY <1>3, <1>l, <2>1
  <2>3. RunTyped' /\ running' /\ ptcpreg' = p /\ (p # User => goal' \in tree'[p])
        /\ \A t \in Subgoal : tree[t] \subseteq tree'[t]
    BY <1>1, <1>3, <2>2, ReturnsTyped
  <2>4. \E g, q : Run(g, q)
    BY <2>2 DEF Return
  <2>5. CASE left = {a}
    BY <1>3, <1>4, <2>1, <2>3, <2>4, <2>5
  <2>6. CASE left # {a}
    <3>1. cps' = Push(cps, T, TrieChoicePoint(left \ {a}, goal, p, breg)) /\ breg' = T + 1
      BY <2>1, <2>6
    <3>2. cps \in Seq(Entry) /\ T \in 1..top_of_cpstack /\ T \in 0..Len(cps) /\ T \in Nat /\ breg \in Nat
          /\ left \ {a} \in SUBSET Answer /\ left \ {a} # {} /\ bfreg \in 1..T
      <4>1. left \ {a} \in SUBSET Answer /\ left \ {a} # {}
        BY <1>3, <1>l, <2>1, <2>6
      <4>2. bfreg \in 1..T /\ T \in 1..top_of_cpstack /\ T \in 0..Len(cps) /\ T \in Nat /\ breg \in Nat
        BY <1>1, <1>T, Tops DEF Typed
      <4> QED  BY <4>1, <4>2, EntriesAre
    <3>3. /\ cps' \in Seq(Entry) /\ Len(cps') = T + 1 /\ \A i \in 1..T : cps'[i] = cps[i]
          /\ cps'[T + 1].pc = "trie" /\ cps'[T + 1].ptcp = p /\ cps'[T + 1].cont = goal
          /\ cps'[T + 1].left = left \ {a}
      BY <1>3, <3>1, <3>2, PushedTrie
    <3>4. IsForCall(T + 1)'
      <4>1. /\ CallOf(T + 1)' = s
            /\ cps'[T + 1].ptcp = User => cps'[T + 1].cont = Asking /\ query' > 0
            /\ cps'[T + 1].ptcp # User => cps'[T + 1].cont \in tree'[cps'[T + 1].ptcp] /\ Calls(cps'[T + 1].cont) # Done
        BY <1>3, <1>p, <2>3, <3>3, RunsCall
      <4>2. sf'[s].complete /\ cps'[T + 1].left # {} /\ cps'[T + 1].left \subseteq Range(sf'[s].answers)
        BY <1>3, <1>l, <3>2, <3>3
      <4> QED  BY <3>3, <4>1, <4>2 DEF IsForCall
    <3>5. TablesAreSound'
      BY <1>1, <1>2, <1>3, <2>4, SoundStill
    <3>6. sf' \in [Subgoal -> SubgoalFrame] /\ frames' \in Seq(CompletionFrame) /\ openreg' \in 0..Len(frames') /\ level_num' \in Nat
      BY <1>1, <1>3 DEF Typed
    <3>7. breg' \in 1..T + 1 /\ bfreg' \in 1..T + 1 /\ top_of_cpstack' = T + 1
      <4>1. breg' = T + 1 /\ bfreg' \in 1..T /\ T \in Nat
        BY <1>3, <3>1, <3>2
      <4> QED  BY <4>1 DEF top_of_cpstack, Higher
    <3> QED  BY <1>2, <1>3, <2>3, <3>2, <3>3, <3>4, <3>5, <3>6, <3>7, PushedOrder
  <2> QED  BY <2>5, <2>6
<1> QED  BY <1>5, <1>6

LEMMA NewProducerOrder == OrderInv /\ (\E s \in Subgoal : NewProducer(s)) => OrderInv'
<1> SUFFICES ASSUME OrderInv, NEW s \in Subgoal, NewProducer(s)  PROVE OrderInv'
  OBVIOUS
<1>1. Typed /\ StackInv /\ TablesAreSound /\ ReturnsToCall
  BY DEF OrderInv
<1>2. StackInv'
  BY <1>1, NewProducerStack
<1>3. Calling(s) /\ ~ sf[s].called /\ UNCHANGED <<program, query, results>>
  BY DEF NewProducer
<1>T. PICK T : T = top_of_cpstack
  OBVIOUS
<1>g. PICK g : g = Clauses(program, s)[1]
  OBVIOUS
<1>4. /\ cps' \in Seq(Entry) /\ Len(cps') = T + 1 /\ \A i \in 1..T : cps'[i] = cps[i]
      /\ cps'[T + 1].pc \in {"tableretry", "check_complete"}
      /\ cps'[T + 1].pc = "tableretry" => Len(Clauses(program, s)) > 1
      /\ cps'[T + 1].subgoal = s /\ cps'[T + 1].cont = goal /\ cps'[T + 1].ptcp = ptcpreg /\ cps'[T + 1].next = 2
      /\ breg' = T + 1 /\ bfreg' = bfreg /\ top_of_cpstack' = T + 1
      /\ openreg' = openreg + 1 /\ level_num' = level_num + 1
      /\ frames' \in Seq(CompletionFrame) /\ openreg' <= Len(frames')
      /\ \A t \in Subgoal : t # s => sf'[t] = sf[t]
      /\ sf' \in [Subgoal -> SubgoalFrame]
      /\ sf'[s].called /\ ~ sf'[s].complete /\ ~ sf'[s].reclaimed /\ sf'[s].answers = <<>> /\ sf'[s].asf = <<>>
      /\ running' /\ ptcpreg' = s /\ goal' = g
      /\ tree' = [t \in Subgoal |-> IF t = s THEN tree[t] \cup {g} ELSE tree[t]]
  BY <1>1, <1>T, <1>g, NewProducerFacts
<1>5. Clauses(program, s) \in Seq(Goal) /\ g \in Goal /\ s # User
  <2>1. Clauses(program, s) \in Seq(Goal) /\ Clauses(program, s) # <<>>
    BY <1>1, ProgramAssumption DEF Typed
  <2> QED  BY <1>g, <2>1, EngineAssumption
<1>6. RunTyped' /\ \A t \in Subgoal : tree[t] \subseteq tree'[t]
  <2>1. tree \in [Subgoal -> SUBSET Goal]
    BY <1>1 DEF Typed
  <2>2. tree' \in [Subgoal -> SUBSET Goal] /\ \A t \in Subgoal : tree[t] \subseteq tree'[t]
    BY <1>4, <1>5, <2>1
  <2> QED  BY <1>4, <1>5, <2>2 DEF RunTyped
<1>7. TablesAreSound'
  <2>1. IsInjective(<<>>)
    BY DEF IsInjective
  <2>2. \A t \in Subgoal : t # s => tree'[t] = tree[t]
    BY <1>4
  <2>3. ASSUME NEW t \in Subgoal
        PROVE  /\ sf'[t].reclaimed => sf'[t].complete
               /\ sf'[t].complete => sf'[t].called
               /\ ~ sf'[t].called => sf'[t] = NoTable /\ tree'[t] = {}
               /\ t \in Ground /\ sf'[t].answers # <<>> => sf'[t].complete
               /\ IsInjective(sf'[t].answers) /\ IsInjective(sf'[t].asf)
    BY <1>1, <1>4, <2>1, <2>2 DEF TablesAreSound
  <2> QED  BY <2>3 DEF TablesAreSound, NoTable
<1>8. ASSUME NEW t \in Subgoal
      PROVE  (sf[t].complete => sf'[t].complete) /\ Range(sf[t].answers) \subseteq Range(sf'[t].answers)
  <2>1. CASE t = s
    BY <1>1, <1>3, <1>4, <2>1 DEF TablesAreSound, NoTable
  <2>2. CASE t # s
    BY <1>4, <2>2
  <2> QED  BY <2>1, <2>2
<1>9. IsForCall(T + 1)'
  <2>1. /\ CallOf(T + 1)' = s
        /\ cps'[T + 1].ptcp = User => cps'[T + 1].cont = Asking /\ query' > 0
        /\ cps'[T + 1].ptcp # User => cps'[T + 1].cont \in tree'[cps'[T + 1].ptcp] /\ Calls(cps'[T + 1].cont) # Done
    BY <1>3, <1>4, <1>6, RunsCall
  <2>2. cps'[T + 1].pc = "tableretry" => cps'[T + 1].next \in 2..Len(Clauses(program, s))
    BY <1>4, <1>5
  <2> QED  BY <1>3, <1>4, <2>1, <2>2 DEF IsForCall
<1>10. T \in 1..top_of_cpstack /\ T \in Nat /\ bfreg \in 1..T /\ openreg \in Nat /\ level_num \in Nat
  BY <1>1, <1>T, Tops DEF Typed
<1>11. breg' \in 1..T + 1 /\ bfreg' \in 1..T + 1 /\ openreg' \in 0..Len(frames') /\ level_num' \in Nat
  BY <1>4, <1>10
<1>12. running' /\ ptcpreg' # User /\ goal' \in tree'[ptcpreg']
  BY <1>4, <1>5
<1> QED  BY <1>2, <1>3, <1>4, <1>6, <1>7, <1>8, <1>9, <1>10, <1>11, <1>12, PushedOrder

LEMMA ConsumeOrder == OrderInv /\ (\E s \in Subgoal : Consume(s)) => OrderInv'
<1> SUFFICES ASSUME OrderInv, NEW s \in Subgoal, Consume(s)  PROVE OrderInv'
  OBVIOUS
<1>1. Typed /\ StackInv /\ TablesAreSound /\ ReturnsToCall
  BY DEF OrderInv
<1>2. StackInv'
  BY <1>1, ConsumeStack
<1>3. Calling(s) /\ UNCHANGED <<program, query, results>>
  BY DEF Consume
<1>T. PICK T : T = top_of_cpstack
  OBVIOUS
<1>p. PICK p : p = ptcpreg
  OBVIOUS
<1>4. /\ OpenTable(s)
      /\ cps' \in Seq(Entry) /\ Len(cps') = T + 1 /\ \A i \in 1..T : cps'[i] = cps[i]
      /\ cps'[T + 1].pc = "answer_return" /\ cps'[T + 1].subgoal = s /\ cps'[T + 1].cont = goal /\ cps'[T + 1].ptcp = p
      /\ bfreg' = T + 1 /\ top_of_cpstack' = T + 1
      /\ frames' \in Seq(CompletionFrame) /\ Len(frames') = Len(frames)
      /\ openreg' = openreg /\ level_num' = level_num
      /\ sf' \in [Subgoal -> SubgoalFrame]
      /\ \A t \in Subgoal : /\ t # s => sf'[t] = sf[t]
                            /\ sf'[t].answers = sf[t].answers /\ sf'[t].complete = sf[t].complete
                            /\ sf'[t].called = sf[t].called /\ sf'[t].reclaimed = sf[t].reclaimed
      /\ sf'[s].asf = <<T + 1>> \o sf[s].asf
  BY <1>1, <1>T, <1>p, ConsumeFacts
<1>5. /\ p \in Subgoal \cup {User} /\ (p = User => query > 0) /\ (p # User => goal \in Goal /\ Calls(goal) # Done)
  <2>1. s # Done
    BY ProgramAssumption
  <2> QED  BY <1>1, <1>3, <1>p, <2>1, CallingTyped
<1>6. /\ T \in 1..top_of_cpstack /\ T \in Nat /\ breg \in 1..T /\ openreg \in 0..Len(frames) /\ level_num \in Nat
      /\ bfreg <= T
  BY <1>1, <1>T, Tops DEF Typed
<1>7. /\ RunTyped' /\ (UNCHANGED tree \/ \E g, q : Run(g, q)) /\ \A t \in Subgoal : tree[t] \subseteq tree'[t]
      /\ running' /\ ptcpreg' = User => query > 0
      /\ running' /\ ptcpreg' # User => goal' \in tree'[ptcpreg']
      /\ breg' = T + 1 \/ breg' = breg
  <2>1. CASE sf[s].answers # <<>>
    <3>1. breg' = T + 1 /\ Return(sf[s].answers[1], goal, p)
      BY <2>1, <1>p, <1>T DEF Consume
    <3>a. PICK a : a = sf[s].answers[1]
      OBVIOUS
    <3>2. a \in Answer
      <4>1. sf[s].answers \in Seq(Answer)
        BY <1>1, TableTyped
      <4> QED  BY <2>1, <3>a, <4>1
    <3>3. Return(a, goal, p)
      BY <3>1, <3>a
    <3>4. RunTyped' /\ running' /\ ptcpreg' = p /\ (p # User => goal' \in tree'[p])
          /\ \A t \in Subgoal : tree[t] \subseteq tree'[t]
      BY <1>1, <1>5, <3>2, <3>3, ReturnsTyped
    <3>5. \E g, q : Run(g, q)
      BY <3>3 DEF Return
    <3> QED  BY <1>5, <3>1, <3>4, <3>5
  <2>2. CASE sf[s].answers = <<>>
    <3>1. breg' = breg /\ Fail1
      BY <2>2 DEF Consume
    <3> QED  BY <1>1, <3>1, Fail1Typed DEF Fail1
  <2> QED  BY <2>1, <2>2
<1>8. TablesAreSound'
  <2>1. sf[s].called
    BY <1>4 DEF OpenTable
  <2>2. \A c \in Consumers(s) : c \in Nat /\ c <= bfreg
    BY <1>1, <1>4, ConsumersTyped DEF StackInv, Stacked, TablesAreOnStack
  <2>3. T + 1 \notin Consumers(s) /\ bfreg \in Nat
    BY <1>1, <1>6, <2>2, Tops
  <2>4. IsInjective(sf'[s].asf)
    <3>1. sf[s].asf \in Seq(Nat) /\ IsInjective(sf[s].asf) /\ T + 1 \in Nat
      BY <1>1, <1>6, TableTyped DEF TablesAreSound
    <3> QED  BY <1>4, <2>3, <3>1, InjectivePrepend DEF Consumers
  <2>5. ASSUME NEW t \in Subgoal  PROVE tree'[t] = tree[t] \/ sf'[t].called
    BY <1>2, <1>7, RunSound
  <2>6. ASSUME NEW t \in Subgoal
        PROVE  /\ sf'[t].reclaimed => sf'[t].complete
               /\ sf'[t].complete => sf'[t].called
               /\ ~ sf'[t].called => sf'[t] = NoTable /\ tree'[t] = {}
               /\ t \in Ground /\ sf'[t].answers # <<>> => sf'[t].complete
               /\ IsInjective(sf'[t].answers) /\ IsInjective(sf'[t].asf)
    BY ZenonT(30), <1>1, <1>4, <2>1, <2>4, <2>5 DEF TablesAreSound
  <2> QED  BY <2>6 DEF TablesAreSound, NoTable
<1>9. IsForCall(T + 1)'
  <2>1. /\ CallOf(T + 1)' = s
        /\ cps'[T + 1].ptcp = User => cps'[T + 1].cont = Asking /\ query' > 0
        /\ cps'[T + 1].ptcp # User => cps'[T + 1].cont \in tree'[cps'[T + 1].ptcp] /\ Calls(cps'[T + 1].cont) # Done
    BY <1>3, <1>4, <1>7, <1>p, RunsCall
  <2> QED  BY <1>4, <2>1 DEF IsForCall
<1>10. breg' \in 1..T + 1 /\ bfreg' \in 1..T + 1 /\ openreg' \in 0..Len(frames') /\ level_num' \in Nat
  BY <1>4, <1>6, <1>7
<1>11. \A t \in Subgoal : (sf[t].complete => sf'[t].complete) /\ Range(sf[t].answers) \subseteq Range(sf'[t].answers)
  BY <1>4
<1> QED  BY <1>2, <1>3, <1>4, <1>6, <1>7, <1>8, <1>9, <1>10, <1>11, PushedOrder

\* Steps that put no choice point on the stack.
LEMMA KeptOrder ==
  ASSUME OrderInv, StackInv', UNCHANGED <<program, query, results>>,
         sf' \in [Subgoal -> SubgoalFrame], StackTyped', RunTyped', TablesAreSound',
         \A t \in Subgoal : /\ tree[t] \subseteq tree'[t] /\ (sf[t].complete => sf'[t].complete)
                            /\ Range(sf[t].answers) \subseteq Range(sf'[t].answers),
         running' /\ ptcpreg' = User => query > 0,
         running' /\ ptcpreg' # User => goal' \in tree'[ptcpreg'],
         top_of_cpstack' <= top_of_cpstack, top_of_cpstack' \in Nat,
         \A i \in 2..top_of_cpstack' :
           /\ cps'[i].ptcp = cps[i].ptcp /\ cps'[i].cont = cps[i].cont /\ cps'[i].subgoal = cps[i].subgoal
           /\ cps'[i].left = cps[i].left /\ cps'[i].next = cps[i].next
           /\ cps'[i].pc = cps[i].pc \/ (cps[i].pc # "trie" /\ cps'[i].pc = "answer_return")
  PROVE  OrderInv'
<1>1. Typed /\ StackInv /\ TablesAreSound /\ ReturnsToCall
  BY DEF OrderInv
<1>2. CallTyped'
  BY <1>1 DEF Typed, CallTyped
<1>3. Typed'
  <2>1. Typed' <=> /\ sf' \in [Subgoal -> SubgoalFrame] /\ StackTyped' /\ RunTyped' /\ CallTyped'
    BY DEF Typed, StackTyped, RunTyped, CallTyped
  <2> QED  BY <1>2, <2>1
<1>4. ASSUME NEW i \in 2..top_of_cpstack'  PROVE IsForCall(i)'
  <2>1. i \in 2..top_of_cpstack
    <3>1. top_of_cpstack \in Nat
      BY <1>1, Tops
    <3> QED  BY <3>1
  <2>2. (cps[i].pc = "trie" => cps[i].left # {})
        /\ (cps[i].pc = "tableretry" => cps[i].next \in 2..Len(Clauses(program, cps[i].subgoal)))
    BY <2>1, EntriesAre
  <2>3. /\ cps'[i].pc = "trie" => cps[i].pc = "trie" /\ cps'[i].left # {} /\ cps'[i].left \subseteq cps[i].left
        /\ cps'[i].pc # "trie" => cps[i].pc # "trie"
        /\ cps'[i].pc = "tableretry" =>
             cps[i].pc = "tableretry" /\ cps'[i].next \in 2..Len(Clauses(program, cps[i].subgoal))
    BY <1>4, <2>2
  <2> QED  BY <1>1, <1>4, <2>1, <2>3, IsStillForCall
<1>5. ReturnsToCall'
  BY <1>4 DEF ReturnsToCall
<1> QED  BY <1>3, <1>5 DEF OrderInv

LEMMA makeConsumerOrder == OrderInv /\ (\E s \in Subgoal : makeConsumerFromGenerator(s)) => OrderInv'
<1> SUFFICES ASSUME OrderInv, NEW s \in Subgoal, makeConsumerFromGenerator(s)  PROVE OrderInv'
  OBVIOUS
<1>1. Typed /\ StackInv /\ TablesAreSound /\ ReturnsToCall
  BY DEF OrderInv
<1>2. StackInv'
  BY <1>1, makeConsumerStack
<1>k. PICK k : k = breg
  OBVIOUS
<1>3. /\ AtCheckComplete(s) /\ OpenTable(s) /\ IsGenerator(k)
      /\ k \in 2..top_of_cpstack /\ top_of_cpstack' = top_of_cpstack
      /\ cps[k].prev \in 1..top_of_cpstack /\ breg' = cps[k].prev
      /\ cps' \in Seq(Entry) /\ Len(cps') = Len(cps)
      /\ \A i \in 1..Len(cps) : /\ i # k => cps'[i] = cps[i]
                                /\ cps'[i].subgoal = cps[i].subgoal /\ cps'[i].cont = cps[i].cont
                                /\ cps'[i].ptcp = cps[i].ptcp /\ cps'[i].prev = cps[i].prev
                                /\ cps'[i].left = cps[i].left
      /\ cps'[k].pc = "answer_return"
      /\ sf' \in [Subgoal -> SubgoalFrame]
      /\ \A t \in Subgoal : /\ t # s => sf'[t] = sf[t]
                            /\ sf'[t].answers = sf[t].answers /\ sf'[t].complete = sf[t].complete
                            /\ sf'[t].called = sf[t].called /\ sf'[t].reclaimed = sf[t].reclaimed
      /\ sf'[s].asf = <<k>> \o sf[s].asf
      /\ ~ running' /\ UNCHANGED <<goal, ptcpreg, tree, bfreg, frames, openreg, level_num, root_address>>
  BY <1>1, <1>k, makeConsumerFacts
<1>4. UNCHANGED <<program, query, results>> /\ Fail1
      /\ cps' = [cps EXCEPT ![k].pc = "answer_return", ![k].ret = 0]
  BY <1>k DEF makeConsumerFromGenerator
<1>5. cps \in Seq(Entry) /\ top_of_cpstack \in Nat /\ top_of_cpstack \in 1..Len(cps) /\ Len(cps) \in Nat
      /\ cps[1].prev = 0 /\ \A i \in 1..Len(cps) : cps[i] \in Entry /\ cps[i].prev \in 0..Len(cps)
  BY <1>1, Tops, EntriesAre
<1>6. StackTyped'
  <2>1. bfreg \in 1..Len(cps) /\ frames \in Seq(CompletionFrame) /\ openreg \in 0..Len(frames)
        /\ level_num \in Nat /\ root_address \in 0..Len(cps)
    BY <1>1 DEF Typed
  <2>2. breg' \in 1..Len(cps')
    BY <1>3, <1>5
  <2>3. 1 \in 1..Len(cps)
    BY <1>5
  <2>4. cps'[1].prev = 0 /\ \A i \in 1..Len(cps') : cps'[i].prev \in 0..Len(cps')
    BY <1>3, <1>5, <2>3
  <2> QED  BY <1>3, <2>1, <2>2, <2>4 DEF StackTyped
<1>7. TablesAreSound'
  <2>1. sf[s].asf \in Seq(Nat) /\ IsInjective(sf[s].asf) /\ k \in Nat
    BY <1>1, <1>3, TableTyped DEF TablesAreSound
  <2>2. k \notin Range(sf[s].asf)
    <3>1. \A c \in Consumers(s) : c # k
      BY <1>1, <1>3, <1>k, GeneratorOnTop
    <3> QED  BY <3>1 DEF Consumers
  <2>3. IsInjective(sf'[s].asf)
    BY <1>3, <2>1, <2>2, InjectivePrepend
  <2>4. sf[s].called
    BY <1>3 DEF OpenTable
  <2> QED  BY ZenonT(30), <1>1, <1>3, <2>3, <2>4 DEF TablesAreSound
<1>8. RunTyped'
  BY <1>1, <1>4, Fail1Typed
<1>9. ASSUME NEW i \in 2..top_of_cpstack'
      PROVE  /\ cps'[i].ptcp = cps[i].ptcp /\ cps'[i].cont = cps[i].cont /\ cps'[i].subgoal = cps[i].subgoal
             /\ cps'[i].left = cps[i].left /\ cps'[i].next = cps[i].next
             /\ cps'[i].pc = cps[i].pc \/ (cps[i].pc # "trie" /\ cps'[i].pc = "answer_return")
  <2>1. i \in 1..Len(cps)
    BY <1>3, <1>5
  <2>2. CASE i = k
    <3> DEFINE e == [cps[k] EXCEPT !.pc = "answer_return", !.ret = 0]
    <3>0. k \in DOMAIN cps /\ cps[k] \in Entry
      BY <1>5, <2>1, <2>2
    <3>1. cps' = [cps EXCEPT ![k] = e]
      BY <1>4, <3>0
    <3>2. e.next = cps[k].next
      BY <3>0 DEF Entry
    <3> HIDE DEF e
    <3>3. cps'[k].next = cps[k].next
      BY <3>0, <3>1, <3>2
    <3> QED  BY <1>3, <2>1, <2>2, <3>3 DEF IsGenerator
  <2>3. CASE i # k
    BY <1>3, <2>1, <2>3
  <2> QED  BY <2>2, <2>3
<1>10. top_of_cpstack' <= top_of_cpstack /\ top_of_cpstack' \in Nat
  BY <1>3, <1>5
<1> QED  BY <1>2, <1>3, <1>4, <1>6, <1>7, <1>8, <1>9, <1>10, KeptOrder

LEMMA CompleteOrder == OrderInv /\ (\E s \in Subgoal : Complete(s)) => OrderInv'
<1> SUFFICES ASSUME OrderInv, NEW s \in Subgoal, Complete(s)  PROVE OrderInv'
  OBVIOUS
<1>1. Typed /\ StackInv /\ TablesAreSound /\ ReturnsToCall
  BY DEF OrderInv
<1>2. StackInv'
  BY <1>1, CompleteStack
<1>k. PICK k \in Nat : k = breg
  BY <1>1, Tops
<1>b. PICK b : b = cps[k].prev
  OBVIOUS
<1>T. PICK T : T = Higher(b, bfreg')
  OBVIOUS
<1>p. PICK p : p = cps[k].ptcp
  OBVIOUS
<1>n. PICK cont : cont = cps[k].cont
  OBVIOUS
<1>l. PICK left : left = Range(sf[s].answers)
  OBVIOUS
<1>3. UNCHANGED <<program, frames, query, results>>
  BY DEF Complete
<1>4. /\ AtCheckComplete(s) /\ OpenTable(s) /\ IsGenerator(k)
      /\ sf' \in [Subgoal -> SubgoalFrame]
      /\ \A t \in Subgoal :
           /\ sf'[t].answers = sf[t].answers /\ sf'[t].called = sf[t].called
           /\ sf'[t].asf = sf[t].asf \/ (t = s /\ sf'[t].asf = <<>>)
           /\ IF OpenTable(t) /\ sf[s].frame <= sf[t].frame
                THEN sf'[t].complete /\ sf'[t].reclaimed
                ELSE sf'[t] = sf[t]
  BY <1>1, <1>k, CompletedTables
<1>5. k \in 2..top_of_cpstack /\ cps[k].pc = "check_complete" /\ cps[k].subgoal = s /\ sf[s].frame <= sf[s].frame
  <2>1. k \in 2..top_of_cpstack
    BY <1>1, <1>4, <1>k, GeneratorOnTop
  <2>2. sf[s].frame \in Nat
    BY <1>1, TableTyped
  <2> QED  BY <1>4, <1>k, <2>1, <2>2 DEF AtCheckComplete, FailTo
<1>6. /\ p \in Subgoal \cup {User} /\ cont \in Goal \cup {Asking} /\ (p = User => query > 0 /\ cont = Asking /\ Query[query] = s)
      /\ (p # User => cont \in Goal /\ Calls(cont) = s /\ Calls(cont) # Done /\ cont \in tree[p])
  <2>1. IsForCall(k)
    BY <1>1, <1>5 DEF ReturnsToCall
  <2>2. CallOf(k) = s
    BY <1>5, <2>1 DEF IsForCall
  <2>3. p # User => cont \in tree[p]
    BY <1>p, <1>n, <2>1 DEF IsForCall
  <2>4. s # Done
    BY ProgramAssumption
  <2> QED  BY <1>1, <1>5, <1>p, <1>n, <2>2, <2>3, <2>4, CallOfTyped
<1>7. /\ b \in 1..k - 1 /\ T \in 1..k - 1 /\ b <= T /\ bfreg' <= T
      /\ cps' \in Seq(Entry) /\ T <= Len(cps')
      /\ \A i \in 1..T : cps'[i] = cps[i]
      /\ \/ /\ breg' = b /\ Len(cps') = Len(cps)
            /\ \A i \in 1..Len(cps) : cps'[i].prev \in 0..Len(cps)
            /\ Fail1
         \/ \E a \in left :
              /\ Return(a, cont, p)
              /\ \/ /\ breg' = b /\ Len(cps') = Len(cps)
                    /\ \A i \in 1..Len(cps) : cps'[i].prev \in 0..Len(cps)
                 \/ /\ breg' = T + 1 /\ Len(cps') = T + 1 /\ left \ {a} # {}
                    /\ cps'[T + 1].pc = "trie" /\ cps'[T + 1].ptcp = p /\ cps'[T + 1].cont = cont
                    /\ cps'[T + 1].left = left \ {a}
  BY <1>1, <1>k, <1>b, <1>T, <1>p, <1>n, <1>l, CompletedEntries
<1>8. /\ bfreg' \in 1..k - 1 /\ openreg' \in 0..openreg /\ level_num' \in Nat /\ T \in 1..top_of_cpstack /\ T \in Nat
      /\ openreg' \in 0..Len(frames') /\ frames' \in Seq(CompletionFrame) /\ root_address' \in 0..Len(cps)
      /\ (openreg' > 0 => root_address' = root_address) /\ (openreg' = 0 => root_address' = 0)
  <2>1. /\ bfreg' \in 1..k - 1 /\ openreg' \in 0..openreg
        /\ openreg' = 0 => root_address' = 0 /\ level_num' = 0
        /\ openreg' > 0 => UNCHANGED <<root_address, level_num>>
    BY <1>1, <1>k, Reclaimed
  <2>2. openreg \in 0..Len(frames) /\ frames \in Seq(CompletionFrame) /\ root_address \in 0..Len(cps) /\ level_num \in Nat
    BY <1>1 DEF Typed
  <2>3. T \in 1..top_of_cpstack /\ T \in Nat
    BY <1>1, <1>5, <1>7, Tops
  <2>4. openreg' \in 0..Len(frames') /\ root_address' \in 0..Len(cps) /\ level_num' \in Nat
    BY <1>3, <2>1, <2>2
  <2> QED  BY <1>3, <2>1, <2>2, <2>3, <2>4
<1>9. left \subseteq Answer
  <2>1. sf[s].answers \in Seq(Answer)
    BY <1>1, TableTyped
  <2> QED  BY <1>l, <2>1, RangeOfSeq
<1>10. TablesAreSound'
  <2>1. \A t \in Subgoal : tree'[t] = tree[t] \/ sf'[t].called
    <3> SUFFICES ASSUME NEW t \in Subgoal  PROVE tree'[t] = tree[t] \/ sf'[t].called
      OBVIOUS
    <3>1. UNCHANGED tree \/ \E g, q : Run(g, q)
      BY <1>7 DEF Fail1, Return
    <3> QED  BY <1>2, <3>1, RunSound
  <2>2. IsInjective(<<>>)
    BY DEF IsInjective
  <2>3. ASSUME NEW t \in Subgoal
        PROVE  /\ sf'[t].reclaimed => sf'[t].complete
               /\ sf'[t].complete => sf'[t].called
               /\ ~ sf'[t].called => sf'[t] = NoTable /\ tree'[t] = {}
               /\ t \in Ground /\ sf'[t].answers # <<>> => sf'[t].complete
               /\ IsInjective(sf'[t].answers) /\ IsInjective(sf'[t].asf)
    <3>1. CASE OpenTable(t) /\ sf[s].frame <= sf[t].frame
      BY <1>1, <1>4, <2>1, <2>2, <3>1 DEF TablesAreSound, OpenTable
    <3>2. CASE ~ (OpenTable(t) /\ sf[s].frame <= sf[t].frame)
      BY <1>1, <1>4, <2>1, <3>2 DEF TablesAreSound
    <3> QED  BY <3>1, <3>2
  <2> QED  BY <2>3 DEF TablesAreSound, NoTable
<1>11. \A t \in Subgoal : (sf[t].complete => sf'[t].complete) /\ Range(sf[t].answers) \subseteq Range(sf'[t].answers)
  BY <1>4
<1>12. sf'[s].complete /\ Range(sf'[s].answers) = left
  BY <1>4, <1>5, <1>l
<1>13. \A a \in left : Return(a, cont, p) =>
         /\ RunTyped' /\ running' /\ ptcpreg' = p /\ (p # User => goal' \in tree'[p])
         /\ \A t \in Subgoal : tree[t] \subseteq tree'[t]
  BY <1>1, <1>6, <1>9, ReturnsTyped
<1>14. Fail1 => RunTyped' /\ ~ running' /\ \A t \in Subgoal : tree[t] \subseteq tree'[t]
  BY <1>1, Fail1Typed DEF Fail1
<1>15. CASE /\ breg' = b /\ Len(cps') = Len(cps) /\ \A i \in 1..Len(cps) : cps'[i].prev \in 0..Len(cps)
            /\ Fail1 \/ \E a \in left : Return(a, cont, p)
  <2>1. /\ RunTyped' /\ (running' /\ ptcpreg' = User => query > 0)
        /\ (running' /\ ptcpreg' # User => goal' \in tree'[ptcpreg'])
        /\ \A t \in Subgoal : tree[t] \subseteq tree'[t]
    BY <1>6, <1>13, <1>14, <1>15
  <2>2. top_of_cpstack' = T
    BY <1>15, <1>T DEF top_of_cpstack
  <2>3. Len(cps) \in Nat /\ 1 \in 1..T /\ cps[1].prev = 0 /\ b \in 1..Len(cps) /\ bfreg' \in 1..Len(cps)
    <3>1. Len(cps) \in Nat /\ top_of_cpstack \in 1..Len(cps) /\ cps[1].prev = 0
      BY EntriesAre
    <3>2. b \in 1..top_of_cpstack /\ bfreg' \in 1..top_of_cpstack /\ 1 \in 1..T
      BY SMTT(30), <1>5, <1>7, <1>8, <3>1
    <3> QED  BY <3>1, <3>2
  <2>4. StackTyped'
    BY <1>7, <1>8, <1>15, <2>3 DEF StackTyped
  <2>5. \A i \in 2..T : i \in 1..T
    BY <1>8
  <2>6. \A i \in 2..top_of_cpstack' : cps'[i] = cps[i]
    BY <1>7, <2>2, <2>5
  <2>7. top_of_cpstack' <= top_of_cpstack /\ top_of_cpstack' \in Nat
    BY <1>8, <2>2
  <2> QED  BY <1>2, <1>3, <1>4, <1>10, <1>11, <2>1, <2>4, <2>6, <2>7, KeptOrder
<1>16. ASSUME NEW a \in left, Return(a, cont, p),
              breg' = T + 1, Len(cps') = T + 1, left \ {a} # {},
              cps'[T + 1].pc = "trie", cps'[T + 1].ptcp = p, cps'[T + 1].cont = cont,
              cps'[T + 1].left = left \ {a}
       PROVE  OrderInv'
  <2>1. /\ RunTyped' /\ (running' /\ ptcpreg' = User => query > 0)
        /\ (running' /\ ptcpreg' # User => goal' \in tree'[ptcpreg'])
        /\ \A t \in Subgoal : tree[t] \subseteq tree'[t]
    BY <1>6, <1>13, <1>16
  <2>2. breg' \in 1..T + 1 /\ bfreg' \in 1..T + 1 /\ top_of_cpstack' = T + 1
    <3>1. breg' = T + 1 /\ bfreg' \in 1..T /\ T \in Nat
      BY <1>7, <1>8, <1>16
    <3> QED  BY <3>1 DEF top_of_cpstack, Higher
  <2>3. IsForCall(T + 1)'
    <3>1. CallOf(T + 1)' = s
      BY <1>3, <1>6, <1>16 DEF CallOf
    <3>2. p # User => cont \in tree'[p]
      BY <1>6, <2>1
    <3> QED  BY <1>3, <1>6, <1>12, <1>16, <3>1, <3>2 DEF IsForCall
  <2> QED  BY <1>2, <1>3, <1>4, <1>7, <1>8, <1>10, <1>11, <1>16, <2>1, <2>2, <2>3, PushedOrder
<1> QED  BY <1>7, <1>15, <1>16

--------------------------------------------------------------------------------
(* The stacks are in order, always. *)

LEMMA InitOrder == Init => OrderInv
<1> SUFFICES ASSUME Init  PROVE OrderInv
  OBVIOUS
<1>e. PICK e : e = ChoicePoint("query", User, Asking, User, 0, 0)
  OBVIOUS
<1>1. e \in Entry /\ e.pc = "query" /\ e.prev = 0 /\ e.bfreg = 0 /\ e.ptcp = User
  BY <1>e DEF ChoicePoint, Entry
<1>2. cps = <<e>> /\ Len(cps) = 1 /\ cps \in Seq(Entry) /\ cps[1] = e /\ top_of_cpstack = 1 /\ breg = 1 /\ bfreg = 1
  BY <1>e, <1>1 DEF Init, top_of_cpstack, Higher
<1>3. NoTable \in SubgoalFrame /\ ~ NoTable.called /\ ~ NoTable.complete /\ ~ NoTable.reclaimed
      /\ NoTable.answers = <<>> /\ NoTable.asf = <<>>
  BY EmptySeq DEF NoTable, SubgoalFrame
<1>4. /\ sf = [s \in Subgoal |-> NoTable] /\ tree = [s \in Subgoal |-> {}]
      /\ frames = <<>> /\ openreg = 0 /\ level_num = 0 /\ root_address = 0
      /\ running = FALSE /\ goal = Asking /\ ptcpreg = User /\ query = 0 /\ results = <<>> /\ program \in Program
  BY DEF Init
<1>5. Typed
  <2>1. sf \in [Subgoal -> SubgoalFrame] /\ tree \in [Subgoal -> SUBSET Goal]
    BY <1>3, <1>4
  <2>2. frames \in Seq(CompletionFrame) /\ openreg \in 0..Len(frames) /\ results \in Seq(Seq(Answer)) /\ Len(results) = 0
    BY <1>4
  <2>3. query \in 0..Len(Query)
    BY <1>4, ProgramAssumption
  <2>4. \A i \in 1..Len(cps) : cps[i].prev \in 0..Len(cps)
    BY <1>1, <1>2
  <2>5. breg \in 1..Len(cps) /\ bfreg \in 1..Len(cps) /\ cps[1].prev = 0 /\ root_address \in 0..Len(cps)
    BY <1>1, <1>2, <1>4
  <2>6. StackTyped
    BY <1>2, <1>4, <2>2, <2>4, <2>5 DEF StackTyped
  <2>7. RunTyped /\ CallTyped
    BY <1>4, <2>1, <2>2, <2>3 DEF RunTyped, CallTyped
  <2> QED  BY <2>1, <2>6, <2>7, TypedParts
<1>6. TablesAreSound
  <2>1. IsInjective(<<>>)
    BY DEF IsInjective
  <2> QED  BY <1>3, <1>4, <2>1 DEF TablesAreSound
<1>7. ReturnsToCall
  BY <1>2, <1>4 DEF ReturnsToCall
<1>8. StackInv
  <2>1. \A t \in Subgoal : ~ OpenTable(t)
    BY <1>3, <1>4 DEF OpenTable
  <2>2. FramesHoldTables /\ LevelsNested /\ LeadersLeaveRest /\ ConsumersDepend /\ RunsInOrder
    BY <1>2, <1>4, <2>1 DEF FramesHoldTables, LevelsNested, LeadersLeaveRest, ConsumersDepend, RunsInOrder
  <2>3. \A i \in 1..1 : i = 1 /\ cps[i].pc = "query" /\ ~ IsGenerator(i) /\ ~ Waits(i)
    BY <1>1, <1>2 DEF IsGenerator, Waits, ReturnsMore
  <2>4. EntriesAreAlive(1)
    BY <1>1, <1>2, <2>1, <2>3 DEF EntriesAreAlive
  <2>5. TablesAreOnStack(1) /\ WaitsBelow(1, 1) /\ NoneIsSkipped(1) /\ LinksAreAlive(1) /\ ResumesInOrder(1)
    BY <2>1, <2>3 DEF TablesAreOnStack, WaitsBelow, NoneIsSkipped, LinksAreAlive, ResumesInOrder
  <2> QED  BY <1>2, <2>2, <2>4, <2>5 DEF StackInv, Stacked
<1> QED  BY <1>5, <1>6, <1>7, <1>8 DEF OrderInv

LEMMA OrderStep == OrderInv /\ [Next]_vars => OrderInv'
<1> SUFFICES ASSUME OrderInv, [Next]_vars  PROVE OrderInv'
  OBVIOUS
<1>1. CASE \E s \in Subgoal : NewProducer(s)
  BY <1>1, NewProducerOrder
<1>2. CASE \E s \in Subgoal : CallCompleted(s)
  BY <1>2, CallCompletedOrder
<1>3. CASE \E s \in Subgoal : Consume(s)
  BY <1>3, ConsumeOrder
<1>4. CASE \E s \in Subgoal : NewAnswer(s)
  BY <1>4, NewAnswerOrder
<1>5. CASE \E s \in Subgoal : ScheduleOwn(s) \/ ScheduleFollowers(s)
  BY <1>5, ScheduleOrder
<1>6. CASE \E s \in Subgoal : makeConsumerFromGenerator(s)
  BY <1>6, makeConsumerOrder
<1>7. CASE \E s \in Subgoal : Complete(s)
  BY <1>7, CompleteOrder
<1>8. CASE UserAnswer
  BY <1>8, UserAnswerOrder
<1>9. CASE NextQuery
  BY <1>9, NextQueryOrder
<1>10. CASE NextClause
  BY <1>10, NextClauseOrder
<1>11. CASE NextOfTrie
  BY <1>11, NextOfTrieOrder
<1>12. CASE AnswerReturn
  BY <1>12, AnswerReturnOrder
<1>13. CASE UNCHANGED vars
  <2> USE <1>13 DEF vars
  <2>1. /\ \A i : IsGenerator(i)' = IsGenerator(i)
        /\ \A t : OpenTable(t)' = OpenTable(t) /\ Consumers(t)' = Consumers(t) /\ Leads(t)' = Leads(t)
        /\ top_of_cpstack' = top_of_cpstack
    BY DEF IsGenerator, OpenTable, Consumers, Leads, is_leader, top_of_cpstack
  <2>2. \A i : Waits(i)' = Waits(i)
    BY <2>1 DEF Waits, ReturnsMore
  <2>3. Typed'
    BY DEF OrderInv, Typed
  <2>4. FramesHoldTables' /\ LevelsNested' /\ LeadersLeaveRest' /\ ConsumersDepend'
    BY <2>1 DEF OrderInv, StackInv, FramesHoldTables, LevelsNested, LeadersLeaveRest, ConsumersDepend, Dependent
  <2>5. Stacked(breg, top_of_cpstack)'
    <3>1. EntriesAreAlive(top_of_cpstack)' /\ TablesAreOnStack(top_of_cpstack)'
      BY <2>1 DEF OrderInv, StackInv, Stacked, EntriesAreAlive, TablesAreOnStack
    <3>2. WaitsBelow(breg, top_of_cpstack)' /\ NoneIsSkipped(top_of_cpstack)'
      BY <2>1, <2>2 DEF OrderInv, StackInv, Stacked, WaitsBelow, NoneIsSkipped
    <3>3. LinksAreAlive(top_of_cpstack)' /\ ResumesInOrder(top_of_cpstack)'
      BY <2>1, <2>2 DEF OrderInv, StackInv, Stacked, LinksAreAlive, ResumesInOrder, Precedes
    <3> QED  BY <3>1, <3>2, <3>3 DEF Stacked
  <2>6. RunsInOrder'
    BY <2>1, <2>2 DEF OrderInv, StackInv, RunsInOrder, Precedes
  <2>7. TablesAreSound' /\ ReturnsToCall'
    BY <2>1 DEF OrderInv, TablesAreSound, ReturnsToCall, IsForCall, CallOf
  <2> QED  BY <2>3, <2>4, <2>5, <2>6, <2>7 DEF OrderInv, StackInv
<1> QED  BY <1>1, <1>2, <1>3, <1>4, <1>5, <1>6, <1>7, <1>8, <1>9, <1>10, <1>11, <1>12, <1>13 DEF Next

\* The completion frame of a table stays in the stack's array when it is popped.
FramesAreThere == \A s \in Subgoal : sf[s].frame \in 0..Len(frames)

LEMMA FramesStep == OrderInv /\ FramesAreThere /\ [Next]_vars => FramesAreThere'
<1> SUFFICES ASSUME OrderInv, FramesAreThere, [Next]_vars, NEW t \in Subgoal  PROVE sf'[t].frame \in 0..Len(frames')
  BY DEF FramesAreThere
<1>1. Typed /\ StackInv /\ TablesAreSound
  BY DEF OrderInv
<1>2. sf[t].frame \in 0..Len(frames) /\ sf[t] \in SubgoalFrame /\ Len(frames) \in Nat
  BY <1>1, TableTyped DEF FramesAreThere, Typed
<1>3. CASE sf' = sf /\ frames' = frames
  BY <1>2, <1>3
<1>4. ASSUME NEW s \in Subgoal, NewProducer(s)  PROVE sf'[t].frame \in 0..Len(frames')
  <2>1. /\ openreg' = openreg + 1 /\ frames' \in Seq(CompletionFrame) /\ openreg' <= Len(frames')
        /\ \A u \in Subgoal : u # s => sf'[u] = sf[u]
        /\ sf'[s].frame = openreg + 1 /\ openreg \in Nat
    BY <1>1, <1>4, NewProducerFacts DEF Typed
  <2>2. Len(frames) <= Len(frames')
    <3>f. PICK f : frames' = IF openreg' \in DOMAIN frames THEN [frames EXCEPT ![openreg'] = f] ELSE Append(frames, f)
      BY <1>4 DEF NewProducer
    <3>0. frames \in Seq(CompletionFrame)
      BY <1>1 DEF Typed
    <3>1. CASE openreg' \in DOMAIN frames
      <4>1. DOMAIN frames' = DOMAIN frames
        BY <3>f, <3>1
      <4> QED  BY <1>2, <2>1, <3>0, <4>1
    <3>2. CASE openreg' \notin DOMAIN frames
      <4>1. frames' = Append(frames, f)
        BY <3>f, <3>2
      <4>2. DOMAIN frames' = 1..Len(frames) + 1
        BY <3>0, <4>1
      <4> QED  BY <1>2, <2>1, <4>2
    <3> QED  BY <3>1, <3>2
  <2>3. Len(frames') \in Nat
    BY <2>1
  <2> QED  BY <1>2, <2>1, <2>2, <2>3
<1>5. ASSUME NEW s \in Subgoal, Consume(s)  PROVE sf'[t].frame \in 0..Len(frames')
  <2>1. Len(frames') = Len(frames) /\ sf'[t].frame = sf[t].frame
    BY <1>1, <1>5, ConsumeFacts
  <2> QED  BY <1>2, <2>1
<1>6. ASSUME NEW s \in Subgoal, makeConsumerFromGenerator(s)  PROVE sf'[t].frame \in 0..Len(frames')
  <2>1. frames' = frames /\ sf'[t].frame = sf[t].frame
    BY <1>1, <1>6, makeConsumerFacts
  <2> QED  BY <1>2, <2>1
<1>7. ASSUME NEW s \in Subgoal, NewAnswer(s)  PROVE sf'[t].frame \in 0..Len(frames')
  <2>1. frames' = frames
    BY <1>7 DEF NewAnswer
  <2>2. sf' = sf \/ \E a, c : sf' = [sf EXCEPT ![s].answers = a, ![s].complete = c]
    BY <1>7 DEF NewAnswer
  <2>3. CASE sf' = sf
    BY <1>2, <2>1, <2>3
  <2>4. ASSUME NEW a, NEW c, sf' = [sf EXCEPT ![s].answers = a, ![s].complete = c]
        PROVE  sf'[t].frame = sf[t].frame
    <3>1. sf \in [Subgoal -> SubgoalFrame]
      BY <1>1 DEF Typed
    <3>2. sf' = [sf EXCEPT ![s] = [sf[s] EXCEPT !.answers = a, !.complete = c]]
      BY <2>4, <3>1
    <3>3. sf'[t] = sf[t] \/ sf'[t] = [sf[t] EXCEPT !.answers = a, !.complete = c]
      BY <3>1, <3>2
    <3> QED  BY <1>2, <3>3 DEF SubgoalFrame
  <2> QED  BY <1>2, <2>1, <2>2, <2>3, <2>4
<1>8. ASSUME NEW s \in Subgoal, Complete(s)  PROVE sf'[t].frame \in 0..Len(frames')
  <2>1. frames' = frames
    BY <1>8 DEF Complete
  <2>2. \E asf : sf'[t] = sf[t] \/ sf'[t] = [sf[t] EXCEPT !.complete = TRUE, !.reclaimed = TRUE, !.asf = asf]
    BY <1>8 DEF Complete
  <2>3. sf'[t].frame = sf[t].frame
    BY <1>2, <2>2 DEF SubgoalFrame
  <2> QED  BY <1>2, <2>1, <2>3
<1>9. CASE UserAnswer \/ NextQuery \/ NextClause \/ NextOfTrie \/ AnswerReturn \/ UNCHANGED vars
  BY <1>3, <1>9 DEF UserAnswer, NextQuery, NextClause, NextOfTrie, AnswerReturn, vars
<1>10. CASE \E s \in Subgoal : CallCompleted(s) \/ ScheduleOwn(s) \/ ScheduleFollowers(s)
  BY <1>3, <1>10 DEF CallCompleted, ScheduleOwn, ScheduleFollowers
<1> QED  BY <1>4, <1>5, <1>6, <1>7, <1>8, <1>9, <1>10 DEF Next

\* The stacks are in order, and what they hold is: the invariant that keeps itself.
THEOREM StacksStayInOrder == Spec => []OrderInv
<1>1. Init => OrderInv
  BY InitOrder
<1>2. OrderInv /\ [Next]_vars => OrderInv'
  BY OrderStep
<1> QED  BY <1>1, <1>2, PTL DEF Spec

\* Types: answers, consumers and stacks are what the engine's C code has them be, and
\* a table never lists an answer twice, or a consumer.
THEOREM EngineTypeCorrect == Spec => []TypeOK
<1>1. Init => FramesAreThere
  BY DEF Init, FramesAreThere, NoTable
<1>2. OrderInv /\ FramesAreThere /\ [Next]_vars => FramesAreThere'
  BY FramesStep
<1>3. OrderInv /\ FramesAreThere => TypeOK
  <2> SUFFICES ASSUME OrderInv, FramesAreThere  PROVE TypeOK
    OBVIOUS
  <2>1. Typed /\ StackInv /\ TablesAreSound
    BY DEF OrderInv
  <2>2. ASSUME NEW s \in Subgoal
        PROVE  /\ sf[s].answers \in Seq(Answer) /\ IsInjective(sf[s].answers)
               /\ sf[s].asf \in Seq(Nat) /\ IsInjective(sf[s].asf)
               /\ sf[s].frame \in 0..Len(frames) /\ tree[s] \subseteq Goal
    <3>1. tree[s] \in SUBSET Goal
      BY <2>1 DEF Typed
    <3> QED  BY <2>1, <3>1, TableTyped DEF TablesAreSound, FramesAreThere
  <2>3. ASSUME NEW i \in DOMAIN cps  PROVE cps[i].prev \in 0..Len(cps) /\ cps[i].ptcp \in Subgoal \cup {User}
    <3>1. i \in 1..Len(cps)
      BY <2>1 DEF Typed
    <3>2. cps[i].prev \in 0..Len(cps)
      BY <2>1, <3>1 DEF Typed
    <3> QED  BY <2>1, <3>1, <3>2, EntryTyped
  <2>4. ASSUME NEW i \in 1..openreg  PROVE frames[i].subgoal \in Subgoal /\ frames[i].level \in 1..level_num
    BY <2>1, FrameTyped DEF StackInv, LevelsNested
  <2>5. /\ program \in Program /\ breg \in 1..Len(cps) /\ bfreg \in 1..Len(cps) /\ root_address \in 0..Len(cps)
        /\ openreg \in 0..Len(frames) /\ ptcpreg \in Subgoal \cup {User} /\ query = Len(results)
    BY <2>1 DEF Typed
  <2> QED  BY <2>2, <2>3, <2>4, <2>5 DEF TypeOK
<1>4. Spec => []OrderInv
  BY StacksStayInOrder
<1> QED  BY <1>1, <1>2, <1>3, <1>4, PTL DEF Spec

\* No table that is open loses its generator or a consumer to a newer choice point, and
\* no consumer is resumed whose table's list of answers is gone: what freezing the stacks
\* (bfreg, reclaim_stacks) is for.
THEOREM OpenTablesStayOnStack == Spec => []OpenTablesKeepTheirStack
<1>1. OrderInv => OpenTablesKeepTheirStack
  <2> SUFFICES ASSUME OrderInv  PROVE OpenTablesKeepTheirStack
    OBVIOUS
  <2>1. Typed /\ StackInv
    BY DEF OrderInv
  <2>2. ASSUME NEW s \in Subgoal, OpenTable(s)
        PROVE  /\ sf[s].cp <= top_of_cpstack /\ cps[sf[s].cp].subgoal = s
               /\ \A c \in Range(sf[s].asf) : c <= bfreg /\ cps[c].pc = "answer_return" /\ cps[c].subgoal = s
    <3>1. \A c \in Consumers(s) : c <= bfreg /\ cps[c].pc = "answer_return" /\ cps[c].subgoal = s
      BY <2>1, <2>2 DEF StackInv, Stacked, TablesAreOnStack
    <3>2. sf[s].cp \in 2..top_of_cpstack /\ cps[sf[s].cp].subgoal = s /\ top_of_cpstack \in Nat
      BY <2>1, <2>2, OpenTyped, Tops
    <3> QED  BY <3>1, <3>2 DEF Consumers
  <2>3. ASSUME FailTo("answer_return")  PROVE ~ sf[cps[breg].subgoal].reclaimed
    <3>1. cps[breg].pc = "answer_return" /\ breg \in 1..top_of_cpstack
      BY <2>1, <2>3, Tops DEF FailTo, Typed
    <3>2. OpenTable(cps[breg].subgoal)
      BY <2>1, <3>1 DEF StackInv, Stacked, EntriesAreAlive
    <3> QED  BY <3>2 DEF OpenTable
  <2> QED  BY <2>2, <2>3 DEF OpenTablesKeepTheirStack
<1>2. Spec => []OrderInv
  BY StacksStayInOrder
<1> QED  BY <1>1, <1>2, PTL

\* The leaders that the levels of the completion stack name are leaders: none lies between
\* a table and an older one that it consumes.
THEOREM NoFalseLeader == Spec => []NoLeaderAmidDependency
<1>1. OrderInv => NoLeaderAmidDependency
  <2> SUFFICES ASSUME OrderInv, NEW s \in Subgoal, OpenTable(s), NEW c \in Range(sf[s].asf),
                      NEW p, p = cps[c].ptcp, p # User, NEW f \in sf[s].frame + 1..sf[p].frame
               PROVE  ~ is_leader(f)
    BY DEF NoLeaderAmidDependency
  <2>1. Typed /\ StackInv /\ c \in Consumers(s)
    BY DEF OrderInv, Consumers
  <2>2. c \in 1..top_of_cpstack /\ c \in 1..Len(cps)
    <3>1. sf[s].cp \in 2..top_of_cpstack /\ sf[s].cp <= c /\ c <= bfreg /\ c \in Nat
      BY <2>1, OpenTyped, ConsumersTyped DEF StackInv, Stacked, TablesAreOnStack
    <3> QED  BY <2>1, <3>1, Tops
  <2>3. OpenTable(p) /\ p \in Subgoal
    <3>1. OpenTable(cps[c].ptcp)
      BY <2>1, <2>2 DEF StackInv, Stacked, EntriesAreAlive
    <3> QED  BY <2>1, <2>2, <3>1, EntryTyped
  <2>4. Dependent(s, p)
    BY <2>1 DEF StackInv, ConsumersDepend
  <2>5. sf[p].frame \in 1..openreg /\ sf[s].frame \in 1..openreg /\ openreg \in Nat
    <3>1. sf[p].frame \in 1..openreg
      BY <2>1, <2>3, OpenTyped
    <3>2. sf[s].frame \in 1..openreg
      BY <2>1, OpenTyped
    <3> QED  BY <2>1, <3>1, <3>2 DEF Typed
  <2>6. f \in 1..openreg /\ sf[s].frame < f /\ f <= sf[p].frame
    BY <2>5
  <2>7. PICK u \in Subgoal : OpenTable(u) /\ sf[u].frame = f
    BY <2>1, <2>6, FrameTyped DEF StackInv, FramesHoldTables
  <2>8. ~ Leads(u)
    BY <2>4, <2>6, <2>7 DEF Dependent
  <2> QED  BY <2>7, <2>8 DEF Leads
<1>2. Spec => []OrderInv
  BY StacksStayInOrder
<1> QED  BY <1>1, <1>2, PTL

=================================================================================
