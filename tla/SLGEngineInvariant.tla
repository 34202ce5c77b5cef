--------------------------- MODULE SLGEngineInvariant ---------------------------
(***************************************************************************)
(* Why the engine's stacks serve tabled evaluation: the invariants of      *)
(* SLGEngine that keep themselves.  A choice point waits while there is    *)
(* something only backtracking to it will do: a generator's clauses and    *)
(* its completion, or an answer of a completed table still to be returned. *)
(* No waiting choice point is above breg, none is skipped on the way down, *)
(* and what runs, or will be resumed, is newer than what waits.  So when a *)
(* leader finds nothing to schedule, nothing waits above it, and every     *)
(* goal of its tables has been returned all answers.                       *)
(***************************************************************************)
EXTENDS SLGEngine

Entry == [pc : {"query", "tableretry", "check_complete", "answer_return", "trie"},
          subgoal : Subgoal \cup {User}, cont : Goal \cup {Asking}, ptcp : Subgoal \cup {User},
          prev : Nat, bfreg : Nat, next : Nat, ret : Nat, left : SUBSET Answer]
SubgoalFrame == [called : BOOLEAN, complete : BOOLEAN, reclaimed : BOOLEAN, answers : Seq(Answer),
                 cp : Nat, asf : Seq(Nat), frame : Nat]
CompletionFrame == [subgoal : Subgoal, level : Nat]

Typed ==
  /\ program \in Program
  /\ sf \in [Subgoal -> SubgoalFrame]
  /\ cps \in Seq(Entry) /\ breg \in 1..Len(cps) /\ bfreg \in 1..Len(cps)
  /\ cps[1].prev = 0 /\ \A i \in 1..Len(cps) : cps[i].prev \in 0..Len(cps)
  /\ frames \in Seq(CompletionFrame) /\ openreg \in 0..Len(frames)
  /\ level_num \in Nat /\ root_address \in 0..Len(cps)
  /\ running \in BOOLEAN /\ ptcpreg \in Subgoal \cup {User}
  /\ goal \in IF ptcpreg = User THEN {Asking} \cup {Got(a) : a \in Answer} ELSE Goal
  /\ tree \in [Subgoal -> SUBSET Goal]
  /\ query \in 0..Len(Query) /\ results \in Seq(Seq(Answer)) /\ query = Len(results)
  /\ running /\ ptcpreg = User => query > 0

--------------------------------------------------------------------------------
(* The stacks. *)

IsGenerator(i) == cps[i].pc \in {"tableretry", "check_complete"}
Consumers(s) == Range(sf[s].asf)
Leads(s) == is_leader(sf[s].frame)

\* The completion stack holds the open tables, oldest first.
FramesHoldTables ==
  /\ \A s \in Subgoal : OpenTable(s) => sf[s].frame \in 1..openreg /\ frames[sf[s].frame].subgoal = s
  /\ \A f \in 1..openreg : OpenTable(frames[f].subgoal) /\ sf[frames[f].subgoal].frame = f
  /\ \A s, t \in Subgoal : OpenTable(s) /\ OpenTable(t) =>
       (sf[s].frame < sf[t].frame <=> sf[s].cp < sf[t].cp)
  /\ openreg > 0 => root_address = sf[frames[1].subgoal].cp
  /\ openreg = 0 => root_address = 0 /\ bfreg = 1

\* A table's level is no lower than an older one's.
LevelsNested ==
  /\ \A f \in 1..openreg : frames[f].level \in 1..level_num
  /\ \A f, g \in 1..openreg : f <= g => frames[f].level <= frames[g].level

\* Every choice point up to the top is of a table that is open, or of a trie, and
\* was made by an open table older than it, or by the program before any was open.
EntriesAreAlive(top) ==
  \A i \in 1..top :
    /\ cps[i].pc = "query" <=> i = 1
    /\ IsGenerator(i) => /\ cps[i].subgoal \in Subgoal /\ OpenTable(cps[i].subgoal)
                         /\ sf[cps[i].subgoal].cp = i /\ cps[i].bfreg >= 1
    /\ cps[i].pc = "answer_return" => /\ cps[i].subgoal \in Subgoal /\ OpenTable(cps[i].subgoal)
                                      /\ i \in Consumers(cps[i].subgoal)
    /\ cps[i].bfreg < i
    /\ cps[i].ptcp # User => OpenTable(cps[i].ptcp) /\ sf[cps[i].ptcp].cp < i
    /\ cps[i].ptcp = User => \A t \in Subgoal : OpenTable(t) => sf[t].cp >= i

\* The generator of an open table, which may have become a consumer, and its
\* consumers are on the stack, what is suspended below bfreg.
TablesAreOnStack(top) ==
  \A s \in Subgoal : OpenTable(s) =>
    /\ sf[s].cp \in 2..top
    /\ IsGenerator(sf[s].cp) \/ sf[s].cp \in Consumers(s)
    /\ cps[sf[s].cp].subgoal = s
    /\ \A c \in Consumers(s) :
         sf[s].cp <= c /\ c <= bfreg /\ cps[c].pc = "answer_return" /\ cps[c].subgoal = s

\* A leader is a generator still, and what it will leave frozen when it completes
\* are the consumers of the tables older than it; a table that does not lead is
\* frozen, as it will be a consumer.
LeadersLeaveRest ==
  \A s \in Subgoal : OpenTable(s) =>
    IF Leads(s)
      THEN /\ IsGenerator(sf[s].cp)
           /\ \A t \in Subgoal : OpenTable(t) /\ sf[t].frame < sf[s].frame =>
                /\ \A c \in Consumers(t) : c <= cps[sf[s].cp].bfreg
                /\ ~Leads(t) => sf[t].cp <= cps[sf[s].cp].bfreg
      ELSE sf[s].cp <= bfreg

\* A table that consumes an open one is newer, with no leader between them, or
\* was called by its table: then it is as old as that.
Dependent(t, p) == \A s \in Subgoal : OpenTable(s) /\ Leads(s) => ~ (sf[t].frame < sf[s].frame /\ sf[s].frame <= sf[p].frame)
ConsumersDepend ==
  \A t \in Subgoal : OpenTable(t) =>
    \A c \in Consumers(t) : cps[c].ptcp # User => Dependent(t, cps[c].ptcp)

--------------------------------------------------------------------------------
(* What waits. *)

\* A trie choice point with an answer to return that has not been returned yet.
ReturnsMore(q) ==
  LET c == cps[q] IN
  c.pc = "trie" /\ (c.ptcp # User => ~ sf[c.ptcp].complete /\ \E a \in c.left : After(c.cont, a) \notin tree[c.ptcp])
Waits(q) == IsGenerator(q) \/ ReturnsMore(q)

\* Whatever waits, from 1 to the top, is no newer than breg,
WaitsBelow(b, top) == \A q \in 1..top : Waits(q) => q <= b
\* and is not skipped by backtracking from a newer choice point.
NoneIsSkipped(top) == \A i, q \in 1..top : Waits(q) /\ q < i => q <= cps[i].prev

\* Backtracking goes to an older choice point, or to a consumer of an open table,
\* older than any generator that is newer than where it comes from.
LinksAreAlive(top) ==
  /\ \A i \in 2..top :
       /\ cps[i].prev >= 1
       /\ cps[i].pc # "answer_return" => cps[i].prev < i
       /\ cps[i].prev < i \/ \E t \in Subgoal : OpenTable(t) /\ cps[i].prev \in Consumers(t)
  /\ \A i, q \in 2..top : IsGenerator(q) /\ i < q => cps[i].prev < q

\* While something runs for p, or is resumed for it, no newer table waits, and no
\* trie but p's own.
Precedes(q, p) == q <= sf[p].cp \/ (cps[q].pc = "trie" /\ cps[q].ptcp = p)
ResumesInOrder(top) ==
  \A i \in 2..top : cps[i].ptcp # User =>
    \A q \in 1..top : Waits(q) /\ q < i => Precedes(q, cps[i].ptcp)
RunsInOrder ==
  running => IF ptcpreg = User THEN openreg = 0
             ELSE /\ OpenTable(ptcpreg)
                  /\ \A q \in 1..top_of_cpstack : Waits(q) => Precedes(q, ptcpreg)

--------------------------------------------------------------------------------
(* What choice points are for. *)

CallOf(i) == IF cps[i].ptcp = User THEN Query[query] ELSE Calls(cps[i].cont)

TablesAreSound ==
  \A s \in Subgoal :
    /\ sf[s].reclaimed => sf[s].complete
    /\ sf[s].complete => sf[s].called
    /\ ~ sf[s].called => sf[s] = NoTable /\ tree[s] = {}
    /\ s \in Ground /\ sf[s].answers # <<>> => sf[s].complete
    /\ IsInjective(sf[s].answers) /\ IsInjective(sf[s].asf)

\* Whoever is to be returned answers has made the call.
IsForCall(i) ==
  /\ cps[i].ptcp = User => cps[i].cont = Asking /\ query > 0
  /\ cps[i].ptcp # User => cps[i].cont \in tree[cps[i].ptcp] /\ Calls(cps[i].cont) # Done
  /\ cps[i].pc # "trie" => cps[i].subgoal = CallOf(i)
  /\ cps[i].pc = "trie" => /\ sf[CallOf(i)].complete /\ cps[i].left # {}
                           /\ cps[i].left \subseteq Range(sf[CallOf(i)].answers)
  /\ cps[i].pc = "tableretry" => cps[i].next \in 2..Len(Clauses(program, cps[i].subgoal))
ReturnsToCall ==
  /\ running /\ ptcpreg # User => goal \in tree[ptcpreg]
  /\ \A i \in 2..top_of_cpstack : IsForCall(i)

\* The choice points from 1 to the top, b being where backtracking goes.
Stacked(b, top) ==
  /\ EntriesAreAlive(top) /\ TablesAreOnStack(top)
  /\ WaitsBelow(b, top) /\ NoneIsSkipped(top) /\ LinksAreAlive(top) /\ ResumesInOrder(top)

StackInv ==
  /\ FramesHoldTables /\ LevelsNested /\ LeadersLeaveRest /\ ConsumersDepend
  /\ Stacked(breg, top_of_cpstack) /\ RunsInOrder

\* The stacks are in order, and what they hold is.
OrderInv == Typed /\ StackInv /\ TablesAreSound /\ ReturnsToCall

--------------------------------------------------------------------------------
(* What has been done for the goals of the tables that are not complete. *)

\* The clauses that have been run: all, when the generator has none left.
ClausesAreRun ==
  \A s \in Subgoal : OpenTable(s) /\ ~ sf[s].complete =>
    LET c == cps[sf[s].cp] IN
    \A k \in DOMAIN Clauses(program, s) :
      (c.pc = "tableretry" => k < c.next) => Clauses(program, s)[k] \in tree[s]

\* An open table is complete only as one without variables that has its answer, and a
\* consumer has had no more answers than there are.
AnswersAreCounted ==
  \A s \in Subgoal : OpenTable(s) =>
    /\ sf[s].complete => s \in Ground /\ sf[s].answers # <<>>
    /\ \A c \in Consumers(s) : cps[c].ret <= Len(sf[s].answers)

\* The call of u that g makes for t has been returned the table's answers, or a choice
\* point is there to return the rest.
Returned(t, g, u) ==
  \/ /\ OpenTable(u) /\ IsGenerator(sf[u].cp)
     /\ cps[sf[u].cp].cont = g /\ cps[sf[u].cp].ptcp = t
  \/ /\ OpenTable(u)
     /\ \E c \in Consumers(u) :
          /\ cps[c].cont = g /\ cps[c].ptcp = t
          /\ \A k \in DOMAIN sf[u].answers : k <= cps[c].ret => After(g, sf[u].answers[k]) \in tree[t]
  \/ /\ sf[u].complete
     /\ \A a \in Range(sf[u].answers) :
          \/ After(g, a) \in tree[t]
          \/ \E q \in 1..top_of_cpstack :
               cps[q].pc = "trie" /\ cps[q].cont = g /\ cps[q].ptcp = t /\ a \in cps[q].left

\* But for the goal that runs, each goal of a table has given its answer or made its call.
Followed(t, g) == IF Calls(g) = Done THEN Gives(g) \in Range(sf[t].answers) ELSE Returned(t, g, Calls(g))
GoalsAreFollowed ==
  \A t \in Subgoal : OpenTable(t) /\ ~ sf[t].complete =>
    \A g \in tree[t] : ~ (running /\ ptcpreg = t /\ goal = g) => Followed(t, g)

WorkInv == ClausesAreRun /\ AnswersAreCounted /\ GoalsAreFollowed

(* What the program's own call has been returned. *)

\* The answer at hand when the program's goal runs, and those left in a trie choice point.
AtCall == IF running /\ goal # Asking THEN {goal.user[1]} ELSE {}
InTrie == IF breg = 2 THEN cps[2].left ELSE {}

\* The program's call q, of s, with no table open: it is about to be made, or s is complete and
\* each of its answers has been returned, is at hand or is left, one of the three.
Serves(q, s) ==
  IF running /\ goal = Asking THEN results[q] = <<>> /\ breg = 1
  ELSE /\ breg \in {1, 2} /\ (breg = 2 => cps[2].pc = "trie")
       /\ sf[s].complete
       /\ AtCall \cap InTrie = {} /\ Range(results[q]) \cap (AtCall \cup InTrie) = {}
       /\ Range(results[q]) \cup AtCall \cup InTrie = Range(sf[s].answers)

\* While tables are open the oldest is the one the program called, and nothing has been returned.
QueryIsServed ==
  query > 0 =>
    LET s == Query[query] IN
    IF openreg > 0 THEN results[query] = <<>> /\ frames[1].subgoal = s /\ sf[s].cp = 2
    ELSE Serves(query, s)

\* No answer is returned twice, and a call the program has gone on from had them all.
ResultsAreKept ==
  \A q \in DOMAIN results :
    /\ IsInjective(results[q]) /\ Range(results[q]) \subseteq Range(sf[Query[q]].answers)
    /\ q < query => sf[Query[q]].complete /\ Range(sf[Query[q]].answers) = Range(results[q])

CallInv == QueryIsServed /\ ResultsAreKept

--------------------------------------------------------------------------------
\* The inductive invariant: the stacks are in order, no goal is forgotten while its table is
\* open, and the program's call has had, or will have, each answer once.  It ties what SLGEngine
\* keeps apart, as the code does: choice points, completion stack, consumer chains and tables.
EngineInv == OrderInv /\ WorkInv /\ CallInv
================================================================================
