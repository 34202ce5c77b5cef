------------------------------ MODULE Derivations ------------------------------
(***************************************************************************)
(* What the phonology rules of rules.P derive from a surface form, said     *)
(* without the program that computes it.                                   *)
(*                                                                         *)
(* A form is a list of segments and is left abstract.  A rule is its       *)
(* position in the list that p_verb/2 hands to p_verb/3, where every rule  *)
(* occurs once.  An element is rules.P's elt(Form, Tags): the form and the *)
(* rules that made it, oldest first, behind the tag `initial', here 0.     *)
(***************************************************************************)
EXTENDS Naturals, Sequences

CONSTANTS Form,      \* the forms that can occur
          NRules,    \* how many rules p_verb/2 lists
          Rewrites,  \* Rewrites[r][f]: the outputs setof/3 collects for rule r on f
          Surface    \* the form the user typed, segmentized

ASSUME PipelineAssumption ==
  /\ NRules \in Nat \ {0}
  /\ Rewrites \in [1..NRules -> [Form -> SUBSET Form]]
  /\ Surface \in Form

Rule == 1..NRules
Tag == 0..NRules
Element == [form : Form, tags : Seq(Tag)]

UntaggedElement == [form |-> Surface, tags |-> <<>>]
\* elt(In, [initial]), the only element p_verb/2 starts from.
InitialElement == [form |-> Surface, tags |-> <<0>>]

\* The elements one application of rule r makes of e: setof/3's outputs, each
\* with r at the end of e's tags (pairtag/3).
ForgetfulOutputs(r, e) == {[form |-> g, tags |-> <<0, r>>] : g \in Rewrites[r][e.form]}
Outputs(r, e) == {[form |-> g, tags |-> Append(e.tags, r)] : g \in Rewrites[r][e.form]}

Image(r, S) == UNION {Outputs(r, e) : e \in S}

--------------------------------------------------------------------------------
\* Behind `initial', the rules occur in pipeline order, none of them twice.
WellTagged(tags) ==
  /\ Len(tags) > 0
  /\ tags[1] = 0
  /\ \A i, j \in 1..Len(tags) : i < j => tags[i] < tags[j]

\* forms[1], forms[2], ... is a chain of rewrites by e's tags that ends in e's form.
Chain(forms, e) ==
  /\ forms[1] = Surface
  /\ forms[Len(e.tags)] = e.form
  /\ \A i \in 2..Len(e.tags) : forms[i] \in Rewrites[e.tags[i]][forms[i-1]]

Derived(e) == WellTagged(e.tags) /\ \E forms \in [1..Len(e.tags) -> Form] : Chain(forms, e)

\* What rules 1..n derive.  Well-tagged lists over 0..n have at most n+1 tags.
TagLists(n) == UNION {[1..k -> 0..n] : k \in 1..n+1}
Derivations(n) == {e \in [form : Form, tags : {t \in TagLists(n) : WellTagged(t)}] : Derived(e)}
================================================================================
