------------------------------ MODULE RulePipeline ------------------------------
(***************************************************************************)
(* The evaluation of p_verb/2 in rules.P, one resolution at a time.  Each  *)
(* call p_verb([X|T], In, Out) runs rule X over the list In, runs it again *)
(* over what the first run made, merges the three lists, calls p_verb on   *)
(* the remaining rules and, as the calls return, merges once more.         *)
(*                                                                         *)
(* A list of elements is the set of its members: absmerge/3 drops what it  *)
(* already has, and nothing here depends on the order.  The definitions    *)
(* whose names begin with Mut are plausible mistakes in the code; no       *)
(* specification uses them.                                                *)
(***************************************************************************)
EXTENDS Derivations

VARIABLES head,      \* position of X, the head of the rule list
          pass,      \* "first", "second", "return" or "done"
          input,     \* In of the innermost call
          todo,      \* what rule/3 has still to visit in this pass
          made,      \* what this pass of rule/3 has made
          once,      \* L1, the result of the first pass
          pending,   \* L3 of every call that waits for its recursive call
          answer     \* Out of the call that returned last

vars == <<head, pass, input, todo, made, once, pending, answer>>

TypeOK ==
  /\ head \in 1..NRules+1
  /\ pass \in {"first", "second", "return", "done"}
  /\ \A s \in {input, todo, made, once, answer} : s \subseteq Element
  /\ pending \in Seq(SUBSET Element)
  /\ \A e \in input \cup todo \cup made : Len(e.tags) > 0

Init ==
  /\ head = 1 /\ pass = "first"
  /\ input = {InitialElement} /\ todo = {InitialElement}
  /\ made = {} /\ once = {} /\ pending = <<>> /\ answer = {}

LastTag(e) == e.tags[Len(e.tags)]

\* rule/3 fires on elt(Parse, Tags): the last tag is another rule, and setof/3,
\* which fails when there is none, finds an output.
MutApplicableAgain(r, e) == Rewrites[r][e.form] # {}
Applicable(r, e) == LastTag(e) # r /\ Rewrites[r][e.form] # {}

InPass == pass \in {"first", "second"} /\ head <= NRules

\* rule/3, first two clauses: an element is rewritten.
Rewrite ==
  /\ InPass
  /\ \E e \in todo :
       /\ Applicable(head, e)
       /\ made' = made \cup Outputs(head, e)
       /\ todo' = todo \ {e}
  /\ UNCHANGED <<head, pass, input, once, pending, answer>>

MutSkipAbandonsTheRest ==
  /\ InPass
  /\ \E e \in todo : ~Applicable(head, e) /\ todo' = {}
  /\ UNCHANGED <<head, pass, input, made, once, pending, answer>>

MutSkipOnlyWithoutOutput ==
  /\ InPass
  /\ \E e \in todo : Rewrites[head][e.form] = {} /\ todo' = todo \ {e}
  /\ UNCHANGED <<head, pass, input, made, once, pending, answer>>

\* rule/3, third clause: an element yields nothing and the rest goes on.
Skip ==
  /\ InPass
  /\ \E e \in todo : ~Applicable(head, e) /\ todo' = todo \ {e}
  /\ UNCHANGED <<head, pass, input, made, once, pending, answer>>

\* rule(X,In,L1) has returned; rule(X,L1,L2) starts.
SecondPass ==
  /\ InPass /\ pass = "first" /\ todo = {}
  /\ pass' = "second"
  /\ once' = made /\ todo' = made /\ made' = {}
  /\ UNCHANGED <<head, input, pending, answer>>

\* absmerge(In,L1,L2,L3).
MutMergedWithoutInput == once \cup made
Merged == input \cup once \cup made

\* rule(X,L1,L2) has returned; the lists are merged and p_verb(T,L3,L4) is called.
NextRule ==
  /\ InPass /\ pass = "second" /\ todo = {}
  /\ head' = head + 1 /\ pass' = "first"
  /\ input' = Merged /\ todo' = Merged
  /\ pending' = Append(pending, Merged)
  /\ made' = {} /\ once' = {}
  /\ UNCHANGED answer

\* p_verb([],_,[]).
NoRuleLeft ==
  /\ pass = "first" /\ head = NRules + 1
  /\ pass' = "return" /\ answer' = {}
  /\ UNCHANGED <<head, input, todo, made, once, pending>>

\* The innermost waiting call gets its L4, merges it with its L3 and returns.
Return ==
  /\ pass = "return"
  /\ answer' = pending[Len(pending)] \cup answer
  /\ pending' = SubSeq(pending, 1, Len(pending) - 1)
  /\ pass' = IF Len(pending) = 1 THEN "done" ELSE "return"
  /\ UNCHANGED <<head, input, todo, made, once>>

Next == Rewrite \/ Skip \/ SecondPass \/ NextRule \/ NoRuleLeft \/ Return

\* The engine runs the query to its end: a rule terminates on every form.
Spec == Init /\ [][Next]_vars /\ WF_vars(Next)

--------------------------------------------------------------------------------
Elements == input \cup todo \cup made \cup once \cup answer

\* No rule acts twice on its own output and none out of its turn, although
\* p_verb/3 calls every rule twice: rule/3's test of the last tag prevents it.
RulesInOrderOnce == \A e \in Elements : WellTagged(e.tags)

\* The tags shown with an underlying form account for it: a chain of rewrites by
\* those rules, in that order, leads to it from the surface form.
TagsExplainForm == \A e \in Elements : Derived(e)

\* When p_verb/2 returns, its answer is every form some subsequence of the rules
\* derives, the surface form itself included, and nothing else.
AnswerIsAllDerivations == pass = "done" => answer = Derivations(NRules)

\* The two passes, the skipped elements and the merges on the way back amount to
\* one application of each rule to everything known.
Closure == INSTANCE RuleClosure WITH upto <- head - 1, known <- input
ClosureSpec == Closure!ClosureSpec

\* p_verb/2 returns.
Terminates == <>(pass = "done")
================================================================================
