-------------------------------- MODULE SLGEngine --------------------------------
(***************************************************************************)
(* How the XSB engine under the parser evaluates tabled predicates: the    *)
(* SLG-WAM with local scheduling (XSB/emu, built with LOCAL_EVAL).  The    *)
(* first call of a subgoal is a producer; it leaves a generator choice     *)
(* point and a frame on the completion stack.  A later call of a table     *)
(* still open is a consumer: it takes the answers there are and suspends,  *)
(* its part of the stack frozen.  Answers go to the table only; a          *)
(* generator that has run out of clauses schedules the consumers that lack *)
(* answers and, when it leads a set of mutually dependent tables that have *)
(* nothing left to do, completes them and returns its answers.             *)
(*                                                                         *)
(* Stacks grow upwards here, cps[1] and frames[1] being the oldest.  What  *)
(* lies above the top stays until it is overwritten.  Negation is left     *)
(* out: rules.P has none over tables, so there are no delays, completion   *)
(* suspensions or simplifications.                                         *)
(***************************************************************************)
EXTENDS TabledProgram, FiniteSets

VARIABLES program,       \* the clauses
          sf,            \* the subgoal frames, one per table
          cps, breg, bfreg,   \* choice points, the newest, the top of what is frozen
          frames, openreg,    \* completion stack and its top
          level_num, root_address,
          running,       \* executing goal; otherwise about to backtrack to breg
          goal, ptcpreg, \* the goal, and the table it runs for
          query, results,     \* calls made by the program, and the answers they got
          tree           \* history: the goals run for each table

vars == <<program, sf, cps, breg, bfreg, frames, openreg, level_num, root_address,
          running, goal, ptcpreg, query, results, tree>>

User == "user"   \* no table: the program's own call
ASSUME EngineAssumption == User \notin Subgoal
Asking == [user |-> <<>>]
Got(a) == [user |-> <<a>>]

NoTable == [called |-> FALSE, complete |-> FALSE, reclaimed |-> FALSE,
            answers |-> <<>>, cp |-> 0, asf |-> <<>>, frame |-> 0]

\* A choice point: where to go on (pc), the table it is for, the goal and the
\* table to return answers to, and the registers saved.  next is a generator's
\* next clause, ret the number of answers a consumer has had.
ChoicePoint(pc, s, cont, p, prev, bf) ==
  [pc |-> pc, subgoal |-> s, cont |-> cont, ptcp |-> p, prev |-> prev, bfreg |-> bf,
   next |-> 2, ret |-> 0, left |-> {}]

Init ==
  /\ program \in Program
  /\ sf = [s \in Subgoal |-> NoTable]
  /\ cps = <<ChoicePoint("query", User, Asking, User, 0, 0)>> /\ breg = 1 /\ bfreg = 1
  /\ frames = <<>> /\ openreg = 0 /\ level_num = 0 /\ root_address = 0
  /\ running = FALSE /\ goal = Asking /\ ptcpreg = User
  /\ query = 0 /\ results = <<>>
  /\ tree = [s \in Subgoal |-> {}]

Higher(i, j) == IF i > j THEN i ELSE j
Lower(i, j) == IF i < j THEN i ELSE j

MutTopIgnoresFrozen == breg

top_of_cpstack == Higher(breg, bfreg)

\* A push overwrites what is above top, and so may free.
Push(stack, top, x) == Append(SubSeq(stack, 1, top), x)

Fail1 == running' = FALSE /\ UNCHANGED <<goal, ptcpreg, tree>>

Run(g, p) ==
  /\ running' = TRUE /\ goal' = g /\ ptcpreg' = p
  /\ tree' = [t \in Subgoal |-> IF t = p THEN tree[t] \cup {g} ELSE tree[t]]

Return(a, cont, p) == Run(IF p = User THEN Got(a) ELSE After(cont, a), p)

Selected ==
  IF ptcpreg # User THEN Calls(goal) ELSE IF goal = Asking THEN Query[query] ELSE Done

Calling(s) == running /\ Selected = s

--------------------------------------------------------------------------------
\* tabletry, the first call of s: run its first clause.
NewProducer(s) ==
  LET cp == top_of_cpstack + 1
      pc == IF Len(Clauses(program, s)) > 1 THEN "tableretry" ELSE "check_complete"
  IN
  /\ Calling(s) /\ ~sf[s].called
  /\ cps' = Push(cps, cp - 1, ChoicePoint(pc, s, goal, ptcpreg, breg, bfreg))
  /\ breg' = cp
  /\ root_address' = IF root_address = 0 THEN cp ELSE root_address
  /\ openreg' = openreg + 1 /\ level_num' = level_num + 1
  /\ LET f == [subgoal |-> s, level |-> level_num'] IN
     frames' = IF openreg' \in DOMAIN frames THEN [frames EXCEPT ![openreg'] = f]
                                             ELSE Append(frames, f)
  /\ sf' = [sf EXCEPT ![s] = [NoTable EXCEPT !.called = TRUE, !.cp = cp, !.frame = openreg']]
  /\ Run(Clauses(program, s)[1], s)
  /\ UNCHANGED <<program, bfreg, query, results>>

MutFirstAnswerOnly(left, stack, b, top, cont, p) ==
  cps' = stack /\ breg' = b /\ \E a \in left : Return(a, cont, p)

TrieChoicePoint(left, cont, p, prev) ==
  [ChoicePoint("trie", User, cont, p, prev, 0) EXCEPT !.left = left]

\* Trie code returns the answers of a completed table in no order of note, with
\* a choice point at the top while there are more.
TrieReturn(left, stack, b, top, cont, p) ==
  \E a \in left :
    /\ IF left = {a}
         THEN cps' = stack /\ breg' = b
         ELSE cps' = Push(stack, top, TrieChoicePoint(left \ {a}, cont, p, b)) /\ breg' = top + 1
    /\ Return(a, cont, p)

\* tabletry of a completed table.
CallCompleted(s) ==
  /\ Calling(s) /\ sf[s].complete
  /\ IF sf[s].answers # <<>>
       THEN TrieReturn(Range(sf[s].answers), cps, breg, top_of_cpstack, goal, ptcpreg)
       ELSE Fail1 /\ UNCHANGED <<cps, breg>>
  /\ UNCHANGED <<program, sf, bfreg, frames, openreg, level_num, root_address, query, results>>

MutLevelsUnchanged(frame) == frames

\* The tables newer than the one called depend on it: they get its level, as far
\* as theirs is not lower already.
adjust_level(frame) ==
  LET new == frames[frame].level IN
  IF new >= frames[openreg].level THEN frames
  ELSE [i \in DOMAIN frames |->
          IF i \in frame..openreg /\ \A k \in frame..i : frames[k].level >= new
            THEN [frames[i] EXCEPT !.level = new] ELSE frames[i]]

\* tabletry of an open table: a consumer, with the first answer if there is one.
\* It protects the stack up to its own choice point.
Consume(s) ==
  LET cp == top_of_cpstack + 1
      ready == sf[s].answers # <<>>
  IN
  /\ Calling(s) /\ sf[s].called /\ ~sf[s].complete
  /\ frames' = adjust_level(sf[s].frame)
  /\ cps' = Push(cps, cp - 1, [ChoicePoint("answer_return", s, goal, ptcpreg, breg, 0)
                                 EXCEPT !.ret = IF ready THEN 1 ELSE 0])
  /\ bfreg' = cp
  /\ sf' = [sf EXCEPT ![s].asf = <<cp>> \o @]
  /\ IF ready THEN breg' = cp /\ Return(sf[s].answers[1], goal, ptcpreg)
              ELSE breg' = breg /\ Fail1
  /\ UNCHANGED <<program, openreg, level_num, root_address, query, results>>

subgoal_space_has_been_reclaimed(s) == frames[sf[s].frame].subgoal # s

MutAlwaysNew(s, a) == TRUE

\* Without variables there is one answer to make, an empty one.
isNewAnswer(s, a) ==
  a \notin Range(sf[s].answers) /\ (s \in Ground => sf[s].answers = <<>>)

\* The generator of s, cut off from its other clauses.
perform_early_completion(s) ==
  [cps EXCEPT ![sf[s].cp].pc = IF @ = "answer_return" THEN @ ELSE "check_complete"]

\* new_answer_dealloc: a new answer is tabled, and the branch fails.  A subgoal
\* without variables needs no second one: everything newer than its generator
\* is dropped.
NewAnswer(s) ==
  LET a == Gives(goal) IN
  /\ running /\ ptcpreg = s /\ Calls(goal) = Done
  /\ IF subgoal_space_has_been_reclaimed(s) \/ ~isNewAnswer(s, a)
       THEN UNCHANGED <<sf, cps, breg>>
       ELSE /\ sf' = [sf EXCEPT ![s].answers = Append(@, a), ![s].complete = @ \/ s \in Ground]
            /\ IF s \in Ground THEN cps' = perform_early_completion(s) /\ breg' = sf[s].cp
                               ELSE UNCHANGED <<cps, breg>>
  /\ Fail1
  /\ UNCHANGED <<program, bfreg, frames, openreg, level_num, root_address, query, results>>

\* The program takes an answer to its call and asks for the next.
UserAnswer ==
  /\ running /\ ptcpreg = User /\ goal # Asking
  /\ results' = [results EXCEPT ![query] = Append(@, goal.user[1])]
  /\ Fail1
  /\ UNCHANGED <<program, sf, cps, breg, bfreg, frames, openreg, level_num, root_address, query>>

--------------------------------------------------------------------------------
FailTo(pc) == ~running /\ cps[breg].pc = pc

\* No choice point of an earlier call is left: the program makes its next call.
NextQuery ==
  /\ FailTo("query") /\ query < Len(Query)
  /\ query' = query + 1 /\ results' = Append(results, <<>>)
  /\ Run(Asking, User)
  /\ UNCHANGED <<program, sf, cps, breg, bfreg, frames, openreg, level_num, root_address>>

\* tableretry, and tabletrust for the last clause.
NextClause ==
  LET c == cps[breg] IN
  /\ FailTo("tableretry")
  /\ cps' = [cps EXCEPT ![breg].next = @ + 1,
                        ![breg].pc = IF c.next = Len(Clauses(program, c.subgoal))
                                       THEN "check_complete" ELSE @]
  /\ Run(Clauses(program, c.subgoal)[c.next], c.subgoal)
  /\ UNCHANGED <<program, sf, breg, bfreg, frames, openreg, level_num, root_address, query, results>>

NextOfTrie ==
  LET c == cps[breg] IN
  /\ FailTo("trie")
  /\ \E a \in c.left :
       /\ IF c.left = {a} THEN breg' = c.prev /\ UNCHANGED cps
                         ELSE cps' = [cps EXCEPT ![breg].left = @ \ {a}] /\ UNCHANGED breg
       /\ Return(a, c.cont, c.ptcp)
  /\ UNCHANGED <<program, sf, bfreg, frames, openreg, level_num, root_address, query, results>>

\* answer_return: the consumer's next answer, or it suspends.
AnswerReturn ==
  LET c == cps[breg]
      list == sf[c.subgoal].answers
  IN
  /\ FailTo("answer_return")
  /\ IF c.ret < Len(list)
       THEN /\ cps' = [cps EXCEPT ![breg].ret = @ + 1]
            /\ Return(list[c.ret + 1], c.cont, c.ptcp)
            /\ UNCHANGED breg
       ELSE breg' = c.prev /\ Fail1 /\ UNCHANGED cps
  /\ UNCHANGED <<program, sf, bfreg, frames, openreg, level_num, root_address, query, results>>

--------------------------------------------------------------------------------
AtCheckComplete(s) == FailTo("check_complete") /\ cps[breg].subgoal = s

is_leader(f) == frames[f].level > IF f = 1 THEN 0 ELSE frames[f - 1].level

MutAllConsumers(s) == DOMAIN sf[s].asf

\* sched_answers: the places, on the list of the consumers of s, of those that lack answers.
sched_answers(s) == {k \in DOMAIN sf[s].asf : cps[sf[s].asf[k]].ret < Len(sf[s].answers)}

Least(K) == CHOOSE k \in K : \A j \in K : k <= j
Greatest(K) == CHOOSE k \in K : \A j \in K : k >= j

\* They are linked to backtrack from one to the next, and from the last to the
\* generator at breg.
FirstScheduled(s) == sf[s].asf[Least(sched_answers(s))]
IsScheduled(s, i) == \E k \in sched_answers(s) : sf[s].asf[k] = i
PlaceOf(s, i) == CHOOSE k \in sched_answers(s) : sf[s].asf[k] = i
NextScheduled(s, i) ==
  LET later == {k \in sched_answers(s) : k > PlaceOf(s, i)}
  IN  IF later = {} THEN breg ELSE sf[s].asf[Least(later)]
Linked(s) ==
  [i \in DOMAIN cps |->
     IF IsScheduled(s, i) THEN [cps[i] EXCEPT !.prev = NextScheduled(s, i)] ELSE cps[i]]

MutFollowersButOne(s) == sf[s].frame + 2..openreg

\* The completion frames above that of s, and those with consumers to schedule.
Followers(s) == sf[s].frame + 1..openreg
ScheduledFrames(s) == {f \in Followers(s) : sched_answers(frames[f].subgoal) # {}}

\* find_fixpoint goes through the followers of the leader s, newest first.  The
\* generator of one that has consumers to schedule comes to lead to the next
\* one's; those of the rest, and the last, lead to s.
GeneratorPrev(s, f) ==
  LET older == {g \in ScheduledFrames(s) : g < f}
  IN  IF f \in ScheduledFrames(s) /\ older # {}
        THEN FirstScheduled(frames[Greatest(older)].subgoal) ELSE sf[s].cp
FixpointPrev(s, i) ==
  LET generator == {f \in Followers(s) : sf[frames[f].subgoal].cp = i}
      consumer == {f \in Followers(s) : IsScheduled(frames[f].subgoal, i)}
  IN  IF generator # {} THEN GeneratorPrev(s, CHOOSE f \in generator : TRUE)
      ELSE IF consumer # {} THEN NextScheduled(frames[CHOOSE f \in consumer : TRUE].subgoal, i)
      ELSE cps[i].prev
find_fixpoint(s) == [i \in DOMAIN cps |-> [cps[i] EXCEPT !.prev = FixpointPrev(s, i)]]

\* check_complete: first the consumers of s itself,
ScheduleOwn(s) ==
  /\ AtCheckComplete(s) /\ sched_answers(s) # {}
  /\ cps' = Linked(s) /\ breg' = FirstScheduled(s)
  /\ Fail1
  /\ UNCHANGED <<program, sf, bfreg, frames, openreg, level_num, root_address, query, results>>

\* then, if s leads, those of its followers;
ScheduleFollowers(s) ==
  /\ AtCheckComplete(s) /\ sched_answers(s) = {} /\ is_leader(sf[s].frame)
  /\ ScheduledFrames(s) # {}
  /\ cps' = find_fixpoint(s)
  /\ breg' = FirstScheduled(frames[Greatest(ScheduledFrames(s))].subgoal)
  /\ Fail1
  /\ UNCHANGED <<program, sf, bfreg, frames, openreg, level_num, root_address, query, results>>

\* if it does not lead, its choice point becomes that of a consumer, for the call
\* that made it, with all answers still to be had;
makeConsumerFromGenerator(s) ==
  /\ AtCheckComplete(s) /\ sched_answers(s) = {} /\ ~is_leader(sf[s].frame)
  /\ cps' = [cps EXCEPT ![breg].pc = "answer_return", ![breg].ret = 0]
  /\ sf' = [sf EXCEPT ![s].asf = <<breg>> \o @]
  /\ breg' = cps[breg].prev
  /\ Fail1
  /\ UNCHANGED <<program, bfreg, frames, openreg, level_num, root_address, query, results>>

MutReclaimAll(cp) == bfreg' = 1 /\ UNCHANGED <<level_num, root_address>>

\* reclaim_stacks: what was frozen since the generator cp was made is free again.
reclaim_stacks(cp) ==
  IF cp = root_address
    THEN bfreg' = 1 /\ level_num' = 0 /\ root_address' = 0
    ELSE bfreg' = Lower(bfreg, cps[cp].bfreg) /\ UNCHANGED <<level_num, root_address>>

\* and when all is done s and its followers are completed, their space is
\* reclaimed, and the answers of s are returned to the call that made it.
Complete(s) ==
  LET scc == {frames[i].subgoal : i \in sf[s].frame..openreg}
      stack == find_fixpoint(s)
      c == stack[breg]
  IN
  /\ AtCheckComplete(s) /\ sched_answers(s) = {} /\ is_leader(sf[s].frame)
  /\ ScheduledFrames(s) = {}
  /\ sf' = [t \in Subgoal |->
              IF t \in scc THEN [sf[t] EXCEPT !.complete = TRUE, !.reclaimed = TRUE,
                                              !.asf = IF t = s THEN <<>> ELSE @]
                           ELSE sf[t]]
  /\ openreg' = sf[s].frame - 1
  /\ reclaim_stacks(breg)
  /\ IF sf[s].answers # <<>>
       THEN TrieReturn(Range(sf[s].answers), stack, c.prev, Higher(c.prev, bfreg'), c.cont, c.ptcp)
       ELSE cps' = stack /\ breg' = c.prev /\ Fail1
  /\ UNCHANGED <<program, frames, query, results>>

Next ==
  \/ \E s \in Subgoal :
       \/ NewProducer(s) \/ CallCompleted(s) \/ Consume(s) \/ NewAnswer(s)
       \/ ScheduleOwn(s) \/ ScheduleFollowers(s) \/ makeConsumerFromGenerator(s) \/ Complete(s)
  \/ UserAnswer \/ NextQuery \/ NextClause \/ NextOfTrie \/ AnswerReturn

\* The engine is one process that runs until the program is done.
Spec == Init /\ [][Next]_vars /\ WF_vars(Next)

--------------------------------------------------------------------------------
\* Types.  A table never lists an answer twice, or a consumer.
TypeOK ==
  /\ program \in Program
  /\ \A s \in Subgoal :
       /\ sf[s].answers \in Seq(Answer) /\ IsInjective(sf[s].answers)
       /\ sf[s].asf \in Seq(Nat) /\ IsInjective(sf[s].asf)
       /\ sf[s].frame \in 0..Len(frames)
       /\ tree[s] \subseteq Goal
  /\ breg \in 1..Len(cps) /\ bfreg \in 1..Len(cps) /\ root_address \in 0..Len(cps)
  /\ \A i \in DOMAIN cps : cps[i].prev \in 0..Len(cps) /\ cps[i].ptcp \in Subgoal \cup {User}
  /\ openreg \in 0..Len(frames)
  /\ \A i \in 1..openreg : frames[i].subgoal \in Subgoal /\ frames[i].level \in 1..level_num
  /\ ptcpreg \in Subgoal \cup {User} /\ query = Len(results)

OpenTable(s) == sf[s].called /\ ~sf[s].reclaimed

\* The generator and the consumers of a table still on the completion stack are
\* never written over: they are below the stack's top, what is suspended below
\* bfreg, and backtracking never resumes a consumer whose answer list is gone.
OpenTablesKeepTheirStack ==
  /\ \A s \in {t \in Subgoal : OpenTable(t)} :
       /\ sf[s].cp <= top_of_cpstack /\ cps[sf[s].cp].subgoal = s
       /\ \A c \in Range(sf[s].asf) :
            c <= bfreg /\ cps[c].pc = "answer_return" /\ cps[c].subgoal = s
  /\ FailTo("answer_return") => ~sf[cps[breg].subgoal].reclaimed

\* No table between a consumed one and the one that consumes it can be taken for
\* a leader: completing it would leave out a table it may depend on.
NoLeaderAmidDependency ==
  \A s \in {t \in Subgoal : OpenTable(t)} : \A c \in Range(sf[s].asf) :
    LET p == cps[c].ptcp IN
    p # User /\ ~sf[p].reclaimed => \A f \in sf[s].frame + 1..sf[p].frame : ~is_leader(f)

Finished == query = Len(Query) /\ FailTo("query")

\* A call of the program has had each answer once, and when the program goes on
\* to the next it has had all that the table, complete by now, will ever hold.
CallsGetEveryAnswerOnce ==
  \A q \in DOMAIN results :
    /\ IsInjective(results[q])
    /\ Range(results[q]) \subseteq Range(sf[Query[q]].answers)
    /\ q < query \/ Finished =>
         sf[Query[q]].complete /\ Len(results[q]) = Len(sf[Query[q]].answers)

\* Left and mutual recursion included, the engine comes to an end.
Terminates == <>Finished

\* Every step calls a subgoal, resolves a goal with a clause or an answer, adds
\* an answer, completes tables that lack nothing, or only moves on the stacks.
Forest == INSTANCE SLGForest
            WITH called <- {s \in Subgoal : sf[s].called},
                 answers <- [s \in Subgoal |-> Range(sf[s].answers)],
                 complete <- {s \in Subgoal : sf[s].complete}

ForestSpec == Forest!ForestSpec
================================================================================
