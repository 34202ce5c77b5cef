------------------------------- MODULE SLGMemory -------------------------------
(***************************************************************************)
(* Where the engine keeps its variables.  SLGEngine carries the goal of a  *)
(* suspended computation by value; the SLG-WAM has it in memory: clauses   *)
(* have environments on the local stack, calls have variables and answers  *)
(* terms on the heap, a binding is trailed if a choice point or a          *)
(* suspended computation may want it undone, and the trail, a tree, holds  *)
(* new values too, so that a suspended computation's bindings can be done  *)
(* again (sw_envs.h).  The freeze registers keep what suspended            *)
(* computations use from being overwritten.                                *)
(*                                                                         *)
(* Each action is one of SLGEngine with what it does to memory.  Stacks    *)
(* grow upwards and are not cleared when they shrink; a frame is one unit  *)
(* of its stack.  A call has at most one variable, put on the heap by      *)
(* variant_call_search; an answer is a term of one cell.  The answer       *)
(* template, next to the variable, is left out, and so is the pre-image    *)
(* trail, which only attributed variables use.                             *)
(* Names beginning with Mut are mistakes no specification uses.            *)
(***************************************************************************)
EXTENDS SLGEngine

CONSTANTS MaxCalls,    \* the most calls a clause makes
          EmptyAnswer  \* the answer of a subgoal without variables

VARIABLES mem,   \* heap, env and trail; h, hb, hf, e, eb, ef, tr, trf and ptcp are the
                 \* registers hreg, hbreg, hfreg and so on; at, the point in the code, is
                 \* a clause and the number of its calls that have returned
          saved  \* what the choice points of cps hold of these

memoryVars == <<mem, saved>>

Free == <<"free", "none">>
Ref(i) == <<"ref", i>>     \* to the heap
Term(x) == <<"term", x>>
OnHeap(i) == <<"heap", i>>
InFrame(f, k) == <<"env", f, k>>
NoVariable == 0

Frame(s, head) == [sf |-> s, head |-> head, y |-> [k \in 1..MaxCalls |-> Free]]
BottomOfTrail == 1

InitMemory ==
  /\ mem = [heap |-> <<>>, h |-> 1, hb |-> 1, hf |-> 1,
            env |-> <<Frame(User, NoVariable)>>, e |-> 1, eb |-> 1, ef |-> 0,
            trail |-> <<[var |-> OnHeap(0), value |-> Free, parent |-> BottomOfTrail]>>,
            tr |-> BottomOfTrail, trf |-> BottomOfTrail,
            ptcp |-> User, at |-> [clause |-> Asking, n |-> 0]]
  /\ saved = <<[at |-> mem.at, e |-> 1, h |-> 1, eb |-> 1, tr |-> BottomOfTrail,
                hf |-> 1, ef |-> 0, trf |-> BottomOfTrail, template |-> NoVariable]>>

--------------------------------------------------------------------------------
(* Cells. *)

Put(stack, i, x) == IF i \in DOMAIN stack THEN [stack EXCEPT ![i] = x] ELSE Append(stack, x)

Store(m, a, c) == IF a[1] = "heap" THEN [m EXCEPT !.heap[a[2]] = c]
                                   ELSE [m EXCEPT !.env[a[2]].y[a[3]] = c]

Follow(m, c) == IF c[1] = "ref" THEN m.heap[c[2]] ELSE c
\* From a variable of an environment over one of the heap to a term.
Deref(m, c) == Follow(m, Follow(m, c))

\* A cell at the top of the heap.
Build(m, c) == [m EXCEPT !.heap = Put(@, m.h, c), !.h = @ + 1]

MutFrozenIsNew(m, a) == IF a[1] = "heap" THEN a[2] < m.hb ELSE a[2] <= m.eb
\* Older than the newest choice point, or frozen.
conditional(m, a) == IF a[1] = "heap" THEN a[2] < m.hb \/ a[2] < m.hf
                                      ELSE a[2] <= m.eb \/ a[2] <= m.ef

MutPushOnFrozen(m, a, c) ==
  [m EXCEPT !.trail = Put(@, m.trf + 1, [var |-> a, value |-> c, parent |-> m.tr]), !.tr = m.trf + 1]
pushtrail0(m, a, c) ==
  LET top == Higher(m.tr, m.trf) + 1
  IN  [m EXCEPT !.trail = Put(@, top, [var |-> a, value |-> c, parent |-> m.tr]), !.tr = top]

\* What a unification does, and what returning an answer to a consumer does.
bind(m, a, c) == Store(IF conditional(m, a) THEN pushtrail0(m, a, c) ELSE m, a, c)
dbind(m, a, c) == Store(pushtrail0(m, a, c), a, c)

\* The trail frames from t down, each with its parent.
Path(m, t) ==
  LET path[i \in DOMAIN m.trail] ==
        IF i = BottomOfTrail THEN {i} ELSE {i} \cup path[m.trail[i].parent]
  IN  path[t]

\* The cell a, which holds c, when the bindings of the frames undone are undone and then
\* those of the frames redone are done again, the oldest first.
Cell(m, undone, redone, a, c) ==
  LET again == {i \in redone : m.trail[i].var = a}
  IN  IF again # {} THEN m.trail[Greatest(again)].value
      ELSE IF \E i \in undone : m.trail[i].var = a THEN Free ELSE c
Rebound(m, undone, redone) ==
  [m EXCEPT !.heap = [i \in DOMAIN m.heap |-> Cell(m, undone, redone, OnHeap(i), m.heap[i])],
            !.env = [f \in DOMAIN m.env |->
                       [m.env[f] EXCEPT !.y = [k \in DOMAIN @ |-> Cell(m, undone, redone, InFrame(f, k), @[k])]]]]

MutUntrailOnly(m, c) ==
  [Rebound(m, Path(m, m.tr) \ Path(m, saved[c].tr), {}) EXCEPT !.tr = saved[c].tr]
\* From one branch of the trail to another: down to the frame where they part, undoing, and
\* up, doing again.  (The code turns the parent links round on the way to that
\* frame to find its way up, and turns them back going up.)
switch_envs(m, c) ==
  LET old == Path(m, m.tr)
      new == Path(m, saved[c].tr)
  IN  [Rebound(m, old \ new, new \ old) EXCEPT !.tr = saved[c].tr]

\* Backtracking along one branch.
undo_bindings(m, c) ==
  LET old == Path(m, m.tr)
      kept == {i \in old : i <= saved[c].tr}
  IN  [Rebound(m, old \ kept, {}) EXCEPT !.tr = Greatest(kept)]

--------------------------------------------------------------------------------
(* Registers. *)

restore_some_wamregs(m, c) ==
  [m EXCEPT !.h = Higher(m.hb, m.hf), !.at = saved[c].at, !.e = saved[c].e]

restore_trail_condition_registers(m, b) ==
  IF cps[b].pc = "check_complete" THEN m ELSE [m EXCEPT !.eb = saved[b].eb, !.hb = saved[b].h]

top_of_localstk(m) == Higher(m.eb, Higher(m.e, m.ef))
save_find_locx(m) == [m EXCEPT !.eb = top_of_localstk(m)]

\* The clause's environment, all its variables unbound; head is what it was called with.
allocate(m, clause, s, head) ==
  LET f == top_of_localstk(m) + 1
  IN  [m EXCEPT !.env = Put(@, f, Frame(s, head)), !.e = f, !.at = [clause |-> clause, n |-> 0]]

\* variant_call_search for the call of s: its variable, local so far, moves to the heap.
\* The answer template is then what the heap ends with.
calling(m, s) ==
  IF s \in Ground THEN m
  ELSE Build(bind(m, InFrame(m.e, m.at.n + 1), Ref(m.h)), Free)
template(m, s) == IF s \in Ground THEN NoVariable ELSE m.h - 1

ChoicePointOf(m, t) ==
  [at |-> m.at, e |-> m.e, h |-> m.h, eb |-> m.eb, tr |-> m.tr,
   hf |-> m.hf, ef |-> m.ef, trf |-> m.trf, template |-> t]

\* The answer a for the template t, and on after the call.
Answered(m) == [m EXCEPT !.at.n = @ + 1]
table_consume_answer(m, t, a) ==
  Answered(IF t = NoVariable THEN m ELSE dbind(Build(m, Term(a)), OnHeap(t), Ref(m.h)))
unify_with_trie(m, t, a) ==
  Answered(IF t = NoVariable THEN m ELSE bind(Build(m, Term(a)), OnHeap(t), Ref(m.h)))

\* Trie code, as in SLGEngine; Taken says which answer that took.
Taken(left, a) == a \in left /\ (left = {a} \/ cps'[breg'].left = left \ {a})
trie_try(m, t, left, top) ==
  LET n == save_find_locx(m)
  IN  \E a \in left :
        /\ Taken(left, a)
        /\ IF left = {a} THEN mem' = unify_with_trie(m, t, a) /\ UNCHANGED saved
           ELSE /\ mem' = unify_with_trie([n EXCEPT !.hb = n.h], t, a)
                /\ saved' = Put(saved, top + 1, ChoicePointOf(n, t))

--------------------------------------------------------------------------------
(* The instructions. *)

NewProducerInMemory(s) ==
  LET cp == top_of_cpstack + 1
      m == save_find_locx(calling(mem, s))
      t == template(m, s)
  IN
  /\ NewProducer(s)
  /\ saved' = Put(saved, cp, ChoicePointOf(m, t))
  /\ mem' = allocate([m EXCEPT !.ptcp = s, !.hb = m.h], Clauses(program, s)[1], s, t)

CallCompletedInMemory(s) ==
  LET m == calling(mem, s)
  IN
  /\ CallCompleted(s)
  /\ IF sf[s].answers # <<>>
       THEN trie_try(m, template(m, s), Range(sf[s].answers), top_of_cpstack)
       ELSE mem' = m /\ UNCHANGED saved

\* The registers of a new consumer: what there is now is frozen.
freeze(m) == [m EXCEPT !.ef = m.eb, !.trf = Higher(@, m.tr), !.hf = Higher(@, m.h)]

ConsumeInMemory(s) ==
  LET cp == top_of_cpstack + 1
      m == freeze(save_find_locx(calling(mem, s)))
      t == template(m, s)
  IN
  /\ Consume(s)
  /\ saved' = Put(saved, cp, ChoicePointOf(m, t))
  /\ mem' = IF sf[s].answers # <<>>
              THEN table_consume_answer([m EXCEPT !.hb = m.h], t, sf[s].answers[1])
              ELSE m

\* The head's variable gets its value; new_answer_dealloc reads it there.
NewAnswerInMemory(s) ==
  /\ NewAnswer(s)
  /\ LET head == mem.env[mem.e].head
     IN  mem' = IF s \in Ground THEN mem
                ELSE bind(Build(mem, Term(Gives(goal))), OnHeap(head), Ref(mem.h))
  /\ UNCHANGED saved

UserAnswerInMemory == UserAnswer /\ UNCHANGED memoryVars

\* A retry of untabled code, and the next call of the program after it.
NextQueryInMemory ==
  /\ NextQuery
  /\ LET m == [restore_some_wamregs(undo_bindings(mem, breg), breg) EXCEPT !.ptcp = cps[breg].ptcp]
     IN  mem' = allocate(m, Asking, User, NoVariable)
  /\ UNCHANGED saved

NextClauseInMemory ==
  /\ NextClause
  /\ LET c == cps[breg]
         m == [restore_some_wamregs(switch_envs(mem, breg), breg) EXCEPT !.ptcp = c.subgoal]
     IN  mem' = allocate(m, Clauses(program, c.subgoal)[c.next], c.subgoal, saved[breg].template)
  /\ UNCHANGED saved

\* trie_retry, and trie_trust for the last answer; ptcpreg is not restored.
NextOfTrieInMemory ==
  LET c == cps[breg]
      m == restore_some_wamregs(undo_bindings(mem, breg), breg)
  IN
  /\ NextOfTrie
  /\ \E a \in c.left :
       /\ Taken(c.left, a)
       /\ mem' = unify_with_trie(IF c.left = {a} THEN restore_trail_condition_registers(m, c.prev) ELSE m,
                                 saved[breg].template, a)
  /\ UNCHANGED saved

AnswerReturnInMemory ==
  LET c == cps[breg]
      list == sf[c.subgoal].answers
      m == [switch_envs(mem, breg) EXCEPT !.ptcp = c.ptcp]
  IN
  /\ AnswerReturn
  /\ mem' = IF c.ret < Len(list)
              THEN table_consume_answer(restore_some_wamregs(m, breg), saved[breg].template, list[c.ret + 1])
              ELSE LET suspended == restore_trail_condition_registers(mem, c.prev)
                   IN  [suspended EXCEPT !.h = Higher(suspended.hb, suspended.hf)]
  /\ UNCHANGED saved

\* check_complete begins alike for all.
AtGenerator == [switch_envs(mem, breg) EXCEPT !.ptcp = cps[breg].ptcp]

ScheduleInMemory(s) ==
  /\ ScheduleOwn(s) \/ ScheduleFollowers(s)
  /\ mem' = AtGenerator /\ UNCHANGED saved

makeConsumerInMemory(s) ==
  /\ makeConsumerFromGenerator(s)
  /\ LET prev == cps[breg].prev
     IN  mem' = [AtGenerator EXCEPT !.hb = saved[prev].h, !.eb = saved[prev].eb]
  /\ UNCHANGED saved

MutReclaimNothing(m, cp) == m
\* reclaim_stacks: back to what was frozen when the generator was made.
unfreeze(m, cp) ==
  IF cp = root_address THEN [m EXCEPT !.hf = 1, !.ef = 0, !.trf = BottomOfTrail]
  ELSE [m EXCEPT !.hf = Lower(@, saved[cp].hf), !.ef = Lower(@, saved[cp].ef),
                 !.trf = Lower(@, saved[cp].trf)]

\* SetupReturnFromLeader, when there are answers.
CompleteInMemory(s) ==
  LET prev == find_fixpoint(s)[breg].prev
      m == [restore_some_wamregs(AtGenerator, breg) EXCEPT !.hb = saved[prev].h, !.eb = saved[prev].eb]
  IN
  /\ Complete(s)
  /\ IF sf[s].answers # <<>>
       THEN trie_try(unfreeze(m, breg), saved[breg].template, Range(sf[s].answers), Higher(prev, bfreg'))
       ELSE mem' = unfreeze(AtGenerator, breg) /\ UNCHANGED saved

NextInMemory ==
  \/ \E s \in Subgoal :
       \/ NewProducerInMemory(s) \/ CallCompletedInMemory(s) \/ ConsumeInMemory(s)
       \/ NewAnswerInMemory(s) \/ ScheduleInMemory(s) \/ makeConsumerInMemory(s)
       \/ CompleteInMemory(s)
  \/ UserAnswerInMemory \/ NextQueryInMemory \/ NextClauseInMemory \/ NextOfTrieInMemory
  \/ AnswerReturnInMemory

SpecInMemory == Init /\ InitMemory /\ [][NextInMemory]_<<vars, memoryVars>>

--------------------------------------------------------------------------------
\* Registers are in their stacks; a trail frame's parent is older than it is.
IsSeq(f) == f \in Seq(Range(f))
CodePoint == [clause : Goal \cup {Asking}, n : Nat]
IsMemory(m) ==
  /\ m \in [heap : Seq(Range(m.heap)), env : Seq(Range(m.env)), trail : Seq(Range(m.trail)),
            h : 1..Len(m.heap) + 1, hb : 1..Len(m.heap) + 1, hf : 1..Len(m.heap) + 1,
            e : 1..Len(m.env), eb : 1..Len(m.env), ef : 0..Len(m.env),
            tr : 1..Len(m.trail), trf : 1..Len(m.trail),
            ptcp : Subgoal \cup {User}, at : CodePoint]
  /\ \A i \in 2..Len(m.trail) : m.trail[i].parent \in 1..i - 1
SavedRegisters(m) ==
  [at : CodePoint, e : 1..Len(m.env), h : 1..Len(m.heap) + 1, eb : 1..Len(m.env), tr : 1..Len(m.trail),
   hf : 1..Len(m.heap) + 1, ef : 0..Len(m.env), trf : 1..Len(m.trail), template : 0..Len(m.heap)]
MemoryTypeOK ==
  /\ IsMemory(mem)
  /\ IsSeq(saved) /\ Len(saved) >= Len(cps)
  /\ \A c \in 1..Len(saved) : saved[c] \in SavedRegisters(mem)

\* What memory m holds of the goal at the point in the code, in its environment.
Resolved(m) ==
  LET y == m.env[m.e].y
      a(s, k) == IF s \in Ground THEN EmptyAnswer ELSE Deref(m, y[k])[2]
  IN  IF m.at.clause = Asking
        THEN IF m.at.n = 0 THEN Asking ELSE Got(a(Query[query], 1))
        ELSE FoldLeft(LAMBDA g, k : After(g, a(Calls(g), k)), m.at.clause, [k \in 1..m.at.n |-> k])

\* The goal that is run is the one memory holds: every variable bound by the calls that
\* have returned has its value still or again, the next one is free, and the answer
\* will be read where the clause's head is bound.
MemoryHoldsGoal ==
  running =>
    /\ Resolved(mem) = goal
    /\ mem.env[mem.e].sf = ptcpreg /\ mem.ptcp = ptcpreg
    /\ Selected # Done => mem.env[mem.e].y[mem.at.n + 1] = Free
    /\ ptcpreg # User /\ ~ subgoal_space_has_been_reclaimed(ptcpreg) =>
         mem.env[mem.e].head = saved[sf[ptcpreg].cp].template

\* The choice points backtracking will come to as things are, and those of open tables.
Backtracked ==
  LET chain[c \in DOMAIN cps] == {c} \cup IF cps[c].prev = 0 THEN {} ELSE chain[cps[c].prev]
  IN  chain[breg]
Live == Backtracked \cup UNION {{sf[s].cp} \cup Range(sf[s].asf) : s \in {t \in Subgoal : OpenTable(t)}}

\* Whatever else has run since and whatever is run now, going back to a choice point or
\* resuming a suspended call finds the goal it was made for, with the call's variable
\* unbound.
ChoicePointsKeepGoals ==
  \A c \in Live \ {1} :
    LET m == [switch_envs(mem, c) EXCEPT !.at = saved[c].at, !.e = saved[c].e]
        t == saved[c].template
    IN  Resolved(m) = cps[c].cont /\ (t # NoVariable => m.heap[t] = Free)

\* Exactly what suspended calls of open tables need is frozen, neither less nor
\* more: completing tables frees all that they alone kept.
FrozenIsSuspended ==
  LET suspended == UNION {Range(sf[s].asf) : s \in {t \in Subgoal : OpenTable(t)}}
      Topmost(Of(_), bottom) == CHOOSE x \in {bottom} \cup {Of(c) : c \in suspended} :
                                  \A c \in suspended : x >= Of(c) /\ x >= bottom
      heap(c) == saved[c].h
      env(c) == saved[c].eb
      trail(c) == saved[c].tr
  IN  /\ mem.hf = Topmost(heap, 1) /\ mem.ef = Topmost(env, 0)
      /\ mem.trf = Topmost(trail, BottomOfTrail)
================================================================================
