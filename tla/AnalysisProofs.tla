------------------------------ MODULE AnalysisProofs ------------------------------
(***************************************************************************)
(* Proofs about the two ends of the analysis of a verb.                    *)
(*                                                                         *)
(* For every set of forms, every rule list and every surface form: the     *)
(* evaluation of p_verb/2 computes Derivations(NRules), and each of its    *)
(* elements carries tags that explain it.  The invariant behind it says    *)
(* what every list holds while rule `head' runs: In is exactly what the    *)
(* rules before it derive, what the first pass has made plus the image of  *)
(* what it has still to visit is the image of In, and the second pass      *)
(* makes nothing.                                                          *)
(*                                                                         *)
(* For every lexicon and every set of templates: getUniqueParses/2 leaves  *)
(* no two that unify.                                                      *)
(***************************************************************************)
EXTENDS RulePipeline, UniqueParses, FiniteSetTheorems, SequenceTheorems, TLAPS

(***************************************************************************)
(* How the derivations of n+1 rules arise from those of n rules.           *)
(***************************************************************************)
\* A well-tagged list over 0..n has at most n+1 tags: no tag repeats.
LEMMA ShortTags ==
  ASSUME NEW n \in Nat, NEW k \in Nat, NEW t \in [1..k -> 0..n],
         \A i, j \in 1..k : i < j => t[i] < t[j]
  PROVE  k <= n + 1
<1>1. SUFFICES ASSUME k > n + 1 PROVE FALSE
  OBVIOUS
<1>2. IsFiniteSet(1..k) /\ Cardinality(1..k) = k
  BY FS_Interval, <1>1
<1>3. IsFiniteSet(0..n) /\ Cardinality(0..n) = n + 1
  BY FS_Interval
<1>4. PICK i, j \in 1..k : i # j /\ t[i] = t[j]
  BY <1>1, <1>2, <1>3, FS_PigeonHole
<1>5. t[i] \in Nat /\ t[j] \in Nat
  OBVIOUS
<1> QED
  BY <1>4, <1>5

\* No rule derives only the surface form itself.
LEMMA NoRuleDerivation == Derivations(0) = {InitialElement}
<1>1. ASSUME NEW e \in Derivations(0) PROVE e = InitialElement
  <2>1. /\ e \in [form : Form, tags : {t \in TagLists(0) : WellTagged(t)}]
        /\ Derived(e)
    BY <1>1 DEF Derivations
  <2>2. e.tags \in [1..1 -> 0..0]
    BY <2>1 DEF TagLists
  <2>3. e.tags = <<0>>
    BY <2>2
  <2>4. e.form = Surface
    BY <2>1, <2>3 DEF Derived, Chain
  <2> QED
    BY <2>1, <2>3, <2>4 DEF InitialElement
<1>2. InitialElement \in Derivations(0)
  <2>1. <<0>> \in TagLists(0) /\ WellTagged(<<0>>)
    BY DEF TagLists, WellTagged
  <2>2. Chain([i \in 1..1 |-> Surface], InitialElement)
    BY DEF Chain, InitialElement
  <2>3. [i \in 1..1 |-> Surface] \in [1..Len(InitialElement.tags) -> Form]
    BY PipelineAssumption DEF InitialElement
  <2>4. Derived(InitialElement)
    BY <2>1, <2>2, <2>3 DEF Derived, InitialElement
  <2> QED
    BY <2>1, <2>4, PipelineAssumption DEF Derivations, InitialElement
<1> QED
  BY <1>1, <1>2

\* What a member of Derivations(n) is, its tag list taken apart.
LEMMA DerivationShape ==
  ASSUME NEW n \in Nat, NEW e \in Derivations(n)
  PROVE  /\ e = [form |-> e.form, tags |-> e.tags]
         /\ e.form \in Form
         /\ Len(e.tags) \in 1..n+1
         /\ e.tags \in [1..Len(e.tags) -> 0..n]
         /\ e.tags \in Seq(0..n)
         /\ e.tags[Len(e.tags)] \in 0..n
         /\ Derived(e)
<1>1. PICK k \in 1..n+1 : e.tags \in [1..k -> 0..n]
  BY DEF Derivations, TagLists
<1>2. Len(e.tags) = k /\ e.tags \in Seq(0..n)
  BY <1>1
<1> QED
  BY <1>1, <1>2 DEF Derivations

\* A rule more loses no derivation.
LEMMA DerivationsGrow ==
  ASSUME NEW n \in 0..NRules-1
  PROVE  Derivations(n) \subseteq Derivations(n + 1)
<1> USE PipelineAssumption
<1>1. TagLists(n) \subseteq TagLists(n + 1)
  <2> SUFFICES ASSUME NEW k \in 1..n+1, NEW t \in [1..k -> 0..n]
               PROVE  t \in TagLists(n + 1)
    BY DEF TagLists
  <2>1. k \in 1..(n + 1)+1 /\ t \in [1..k -> 0..n+1]
    OBVIOUS
  <2> QED
    BY <2>1 DEF TagLists
<1> QED
  BY <1>1 DEF Derivations

\* A derivation by rules 1..n, extended by rule n+1, is one by rules 1..n+1.
LEMMA DerivationsExtend ==
  ASSUME NEW n \in 0..NRules-1, NEW e \in Derivations(n),
         NEW g \in Rewrites[n + 1][e.form]
  PROVE  [form |-> g, tags |-> Append(e.tags, n + 1)] \in Derivations(n + 1)
<1> USE PipelineAssumption
<1> DEFINE k == Len(e.tags)
           t == Append(e.tags, n + 1)
           d == [form |-> g, tags |-> t]
<1>1. /\ e.form \in Form /\ k \in 1..n+1
      /\ e.tags \in [1..k -> 0..n] /\ e.tags \in Seq(0..n) /\ Derived(e)
  BY DerivationShape
<1>2. g \in Form
  BY <1>1
<1>3. /\ Len(t) = k + 1 /\ t[k+1] = n + 1
      /\ \A i \in 1..k : t[i] = e.tags[i]
  BY <1>1
<1>4. t \in [1..k+1 -> 0..n+1]
  <2>1. \A i \in 1..k+1 : t[i] \in 0..n+1
    BY <1>1, <1>3
  <2>2. t = [i \in 1..k+1 |-> t[i]]
    BY <1>1
  <2> HIDE DEF t
  <2> QED
    BY <2>1, <2>2
<1>5. t \in TagLists(n + 1)
  <2>1. k + 1 \in 1..(n + 1)+1
    BY <1>1
  <2> QED
    BY <1>4, <2>1 DEF TagLists
<1>6. WellTagged(t)
  <2>1. WellTagged(e.tags)
    BY <1>1 DEF Derived
  <2>2. t[1] = 0
    BY <1>1, <1>3, <2>1 DEF WellTagged
  <2>3. ASSUME NEW i \in 1..k+1, NEW j \in 1..k+1, i < j PROVE t[i] < t[j]
    <3>1. CASE j = k + 1
      BY <1>1, <1>3, <2>3, <3>1
    <3>2. CASE j # k + 1
      BY <1>1, <1>3, <2>1, <2>3, <3>2 DEF WellTagged
    <3> QED
      BY <3>1, <3>2
  <2>4. k + 1 > 0 /\ Len(t) = k + 1
    BY <1>1, <1>3
  <2> HIDE DEF t
  <2> QED
    BY <2>2, <2>3, <2>4 DEF WellTagged
<1>7. Derived(d)
  <2>1. PICK forms \in [1..k -> Form] : Chain(forms, e)
    BY <1>1 DEF Derived
  <2> DEFINE longer == [i \in 1..k+1 |-> IF i = k + 1 THEN g ELSE forms[i]]
  <2>2. longer \in [1..k+1 -> Form]
    BY <1>2, <2>1
  <2>3. longer[1] = Surface /\ longer[k+1] = g
    BY <1>1, <2>1 DEF Chain
  <2>4. ASSUME NEW i \in 2..k+1 PROVE longer[i] \in Rewrites[t[i]][longer[i-1]]
    <3>1. CASE i = k + 1
      <4>1. longer[k] = e.form
        BY <1>1, <2>1 DEF Chain
      <4> QED
        BY <1>1, <1>3, <3>1, <4>1, <2>3
    <3>2. CASE i # k + 1
      <4>1. k \in Nat
        BY <1>1
      <4>2. i \in 2..k /\ i - 1 \in 1..k
        <5> HIDE DEF k, t, longer
        <5> QED
          BY <2>4, <3>2, <4>1
      <4>3. longer[i] = forms[i] /\ longer[i-1] = forms[i-1]
        <5>1. i \in 1..k+1 /\ i - 1 \in 1..k+1 /\ i # k + 1 /\ i - 1 # k + 1
          <6> HIDE DEF k, t, longer
          <6> QED
            BY <4>1, <4>2
        <5> HIDE DEF k, t
        <5> QED
          BY <5>1
      <4>4. t[i] = e.tags[i]
        BY <1>3, <4>2
      <4> QED
        BY <2>1, <4>2, <4>3, <4>4 DEF Chain
    <3> QED
      BY <3>1, <3>2
  <2>5. Chain(longer, d)
    BY <1>3, <2>3, <2>4 DEF Chain
  <2> QED
    BY <1>3, <1>6, <2>2, <2>5 DEF Derived
<1> QED
  BY <1>2, <1>5, <1>6, <1>7 DEF Derivations

\* A derivation by rules 1..n+1 whose last tag is not n+1 does without rule n+1.
LEMMA DerivationsShrink ==
  ASSUME NEW n \in 0..NRules-1, NEW e \in Derivations(n + 1),
         e.tags[Len(e.tags)] # n + 1
  PROVE  e \in Derivations(n)
<1> USE PipelineAssumption
<1> DEFINE k == Len(e.tags)
<1>1. /\ e = [form |-> e.form, tags |-> e.tags] /\ e.form \in Form
      /\ k \in 1..(n + 1)+1 /\ e.tags \in [1..k -> 0..n+1] /\ Derived(e)
  BY DerivationShape
<1>2. WellTagged(e.tags)
  BY <1>1 DEF Derived
<1>3. ASSUME NEW i \in 1..k PROVE e.tags[i] \in 0..n
  <2>1. e.tags[i] \in 0..n+1 /\ e.tags[k] \in 0..n+1 /\ k \in 1..k
    BY <1>1
  <2>2. \A l, j \in 1..k : l < j => e.tags[l] < e.tags[j]
    BY <1>2 DEF WellTagged
  <2>3. i < k => e.tags[i] < e.tags[k]
    BY <2>1, <2>2
  <2> QED
    BY <2>1, <2>3, <1>1
<1>4. e.tags \in [1..k -> 0..n]
  BY <1>1, <1>3
<1>5. k <= n + 1
  <2>1. \A i, j \in 1..k : i < j => e.tags[i] < e.tags[j]
    BY <1>2 DEF WellTagged
  <2> QED
    BY <1>1, <1>4, <2>1, ShortTags
<1>6. e.tags \in TagLists(n)
  BY <1>1, <1>4, <1>5 DEF TagLists
<1> QED
  BY <1>1, <1>2, <1>6 DEF Derivations

\* A derivation by rules 1..n+1 that ends in rule n+1 extends one by rules 1..n.
LEMMA DerivationsLastStep ==
  ASSUME NEW n \in 0..NRules-1, NEW e \in Derivations(n + 1),
         e.tags[Len(e.tags)] = n + 1
  PROVE  \E p \in Derivations(n) :
           e.form \in Rewrites[n + 1][p.form] /\ e.tags = Append(p.tags, n + 1)
<1> USE PipelineAssumption
<1> DEFINE k == Len(e.tags)
           s == SubSeq(e.tags, 1, k - 1)
<1>1. /\ e.form \in Form /\ k \in 1..(n + 1)+1 /\ e.tags \in [1..k -> 0..n+1]
      /\ e.tags \in Seq(0..n+1) /\ Derived(e)
  BY DerivationShape
<1>2. WellTagged(e.tags)
  BY <1>1 DEF Derived
<1>3. k >= 2
  BY <1>1, <1>2 DEF WellTagged
<1>4. /\ s \in Seq(0..n+1) /\ Len(s) = k - 1
      /\ \A i \in 1..k-1 : s[i] = e.tags[i]
  <2>1. k \in Nat /\ k - 1 \in Int /\ 1 \in Int
    BY <1>1
  <2>2. \A i \in 1..k-1 : e.tags[i] \in 0..n+1
    BY <1>1
  <2>3. /\ s \in Seq(0..n+1)
        /\ Len(s) = IF 1 <= k - 1 THEN (k - 1) - 1 + 1 ELSE 0
        /\ \A i \in 1..(k - 1)-1+1 : s[i] = e.tags[1+i-1]
    BY <2>1, <2>2, SubSeqProperties
  <2>4. (k - 1) - 1 + 1 = k - 1 /\ \A i \in 1..k-1 : 1 + i - 1 = i
    BY <2>1
  <2> HIDE DEF s, k
  <2> QED
    BY <1>3, <2>1, <2>3, <2>4
<1>5. \A i, j \in 1..k : i < j => e.tags[i] < e.tags[j]
  BY <1>2 DEF WellTagged
<1>6. s \in [1..k-1 -> 0..n]
  <2>1. ASSUME NEW i \in 1..k-1 PROVE s[i] \in 0..n
    <3>1. i \in 1..k /\ k \in 1..k /\ i < k
      BY <1>1, <1>3
    <3>2. e.tags[i] < e.tags[k] /\ e.tags[i] \in 0..n+1
      BY <1>1, <1>5, <3>1
    <3> QED
      BY <3>2, <1>4
  <2>2. s = [i \in 1..k-1 |-> s[i]]
    BY <1>1, <1>3
  <2> HIDE DEF s
  <2> QED
    BY <2>1, <2>2
<1>7. WellTagged(s)
  <2>1. s[1] = 0
    BY <1>2, <1>3, <1>4, <1>1 DEF WellTagged
  <2>2. ASSUME NEW i \in 1..k-1, NEW j \in 1..k-1, i < j PROVE s[i] < s[j]
    <3>1. i \in 1..k /\ j \in 1..k
      BY <1>1, <1>3
    <3> QED
      BY <1>4, <1>5, <2>2, <3>1
  <2>3. k - 1 > 0 /\ Len(s) = k - 1
    BY <1>1, <1>3, <1>4
  <2> HIDE DEF s
  <2> QED
    BY <2>1, <2>2, <2>3 DEF WellTagged
<1>8. s \in TagLists(n)
  <2>1. k - 1 \in 1..n+1
    BY <1>1, <1>3
  <2> QED
    BY <1>6, <2>1 DEF TagLists
<1>9. PICK forms \in [1..k -> Form] : Chain(forms, e)
  BY <1>1 DEF Derived
<1> DEFINE p == [form |-> forms[k-1], tags |-> s]
           shorter == [i \in 1..k-1 |-> forms[i]]
<1>10. Derived(p)
  <2>1. shorter \in [1..Len(s) -> Form]
    BY <1>4, <1>9
  <2>2. Chain(shorter, p)
    <3>1. shorter[1] = Surface /\ shorter[Len(s)] = forms[k-1]
      BY <1>3, <1>4, <1>9, <1>1 DEF Chain
    <3>2. ASSUME NEW i \in 2..k-1 PROVE shorter[i] \in Rewrites[s[i]][shorter[i-1]]
      <4>1. k \in Nat
        BY <1>1
      <4>2. i \in 1..k-1 /\ i - 1 \in 1..k-1 /\ i \in 2..k
        <5> HIDE DEF k, s, shorter
        <5> QED
          BY <3>2, <4>1
      <4>3. shorter[i] = forms[i] /\ shorter[i-1] = forms[i-1]
        <5> HIDE DEF k
        <5> QED
          BY <4>2
      <4>4. s[i] = e.tags[i]
        BY <1>4, <4>2
      <4> QED
        BY <1>9, <4>2, <4>3, <4>4 DEF Chain
    <3> QED
      BY <1>4, <3>1, <3>2 DEF Chain
  <2> QED
    BY <1>7, <2>1, <2>2 DEF Derived
<1>11. p \in Derivations(n)
  <2>1. forms[k-1] \in Form
    <3>1. k - 1 \in 1..k
      BY <1>1, <1>3
    <3> HIDE DEF k
    <3> QED
      BY <1>9, <3>1
  <2> QED
    BY <1>7, <1>8, <1>10, <2>1 DEF Derivations
<1>12. e.form \in Rewrites[n + 1][p.form]
  <2>1. k \in 2..k
    BY <1>1, <1>3
  <2>2. forms[k] \in Rewrites[e.tags[k]][forms[k-1]]
    BY <1>9, <2>1 DEF Chain
  <2> QED
    BY <1>9, <2>2 DEF Chain
<1>13. e.tags = Append(s, n + 1)
  BY <1>1, <1>3, <1>4
<1> QED
  BY <1>11, <1>12, <1>13

\* One rule more: the derivations of before, and their images under the new rule.
THEOREM DerivationsStep ==
  ASSUME NEW n \in 0..NRules-1
  PROVE  Derivations(n + 1) = Derivations(n) \cup Image(n + 1, Derivations(n))
<1>1. Derivations(n) \subseteq Derivations(n + 1)
  BY DerivationsGrow
<1>2. Image(n + 1, Derivations(n)) \subseteq Derivations(n + 1)
  BY DerivationsExtend DEF Image, Outputs
<1>3. ASSUME NEW e \in Derivations(n + 1), e \notin Derivations(n)
      PROVE  e \in Image(n + 1, Derivations(n))
  <2>1. PICK p \in Derivations(n) :
          e.form \in Rewrites[n + 1][p.form] /\ e.tags = Append(p.tags, n + 1)
    BY <1>3, DerivationsShrink, DerivationsLastStep
  <2>2. e = [form |-> e.form, tags |-> e.tags]
    BY DEF Derivations
  <2>3. e \in Outputs(n + 1, p)
    BY <2>1, <2>2 DEF Outputs
  <2> QED
    BY <2>3 DEF Image
<1> QED
  BY <1>1, <1>2, <1>3

(***************************************************************************)
(* What every list of p_verb/2 holds while rule `head' runs.               *)
(***************************************************************************)

\* In of the innermost call is what the rules before its own derive.
InputExact ==
  /\ head \in 1..NRules+1
  /\ pass \in {"first", "second", "return", "done"}
  /\ input = Derivations(head - 1)

\* One call waits per rule already applied; the L3 it holds is below In.
CallsPending ==
  /\ pending \in Seq(SUBSET input)
  /\ pass \in {"first", "second"} =>
       /\ Len(pending) = head - 1
       /\ head > 1 => pending[head - 1] = input
       /\ answer = {}

FirstPassProgress ==
  pass = "first" =>
    /\ todo \subseteq input /\ once = {}
    /\ head <= NRules => made \cup Image(head, todo) = Image(head, input)
    /\ head = NRules + 1 => made = {}

\* Every element of L1 ends in the rule itself, so the second pass skips it.
SecondPassIdle ==
  pass = "second" =>
    /\ head <= NRules
    /\ once = Image(head, input) /\ todo \subseteq once /\ made = {}

Returning ==
  /\ pass \in {"return", "done"} =>
       head = NRules + 1 /\ todo \subseteq input /\ made = {} /\ once = {}
  /\ pass = "return" =>
       /\ Len(pending) \in 1..NRules
       /\ IF Len(pending) = NRules THEN answer = {} /\ pending[NRules] = input
                                   ELSE answer = input
  /\ pass = "done" => answer = input

IInv == InputExact /\ CallsPending /\ FirstPassProgress /\ SecondPassIdle /\ Returning

--------------------------------------------------------------------------------
LEMMA ImageUnion ==
  ASSUME NEW r, NEW S, NEW T
  PROVE  Image(r, S \cup T) = Image(r, S) \cup Image(r, T)
BY DEF Image

\* The last tag of what rules 1..n derive is at most n; that of an image is the rule.
LEMMA LastTagOfDerivation ==
  ASSUME NEW n \in Nat, NEW x \in Derivations(n)
  PROVE  LastTag(x) \in 0..n
BY DerivationShape DEF LastTag

LEMMA LastTagOfImage ==
  ASSUME NEW n \in 0..NRules-1, NEW x \in Image(n + 1, Derivations(n))
  PROVE  LastTag(x) = n + 1
<1>1. PICK p \in Derivations(n) : x \in Outputs(n + 1, p)
  BY DEF Image
<1>2. n \in Nat /\ p.tags \in Seq(0..n)
  BY PipelineAssumption, DerivationShape
<1>3. x.tags = Append(p.tags, n + 1)
  BY <1>1 DEF Outputs
<1> QED
  BY <1>2, <1>3 DEF LastTag

\* A skipped element of In has no image: only an empty setof/3 skips it.
LEMMA SkippedHasNoImage ==
  ASSUME NEW r \in Rule, NEW x \in Derivations(r - 1), ~Applicable(r, x)
  PROVE  Image(r, {x}) = {}
<1>1. LastTag(x) # r
  BY LastTagOfDerivation, PipelineAssumption DEF Rule
<1>2. Rewrites[r][x.form] = {}
  BY <1>1 DEF Applicable
<1>3. Outputs(r, x) = {}
  BY <1>2 DEF Outputs
<1> QED
  BY <1>3 DEF Image

LEMMA DerivationsAreElements ==
  ASSUME NEW n \in 0..NRules
  PROVE  Derivations(n) \subseteq Element /\ \A x \in Derivations(n) : Len(x.tags) > 0
<1> SUFFICES ASSUME NEW x \in Derivations(n)
             PROVE  x \in Element /\ Len(x.tags) > 0
  OBVIOUS
<1>1. /\ x = [form |-> x.form, tags |-> x.tags] /\ x.form \in Form
      /\ x.tags \in Seq(0..n) /\ Len(x.tags) \in 1..n+1
  BY DerivationShape, PipelineAssumption
<1>2. 0..n \subseteq Tag
  BY PipelineAssumption DEF Tag
<1>3. x.tags \in Seq(Tag)
  BY <1>1, <1>2
<1> QED
  BY <1>1, <1>3 DEF Element

\* Everything the evaluation holds is derived by the rules up to its own.
LEMMA ElementsDerived ==
  ASSUME IInv
  PROVE  Elements \subseteq Derivations(head - 1) \/
         (head <= NRules /\ Elements \subseteq Derivations(head))
<1>1. CASE head = NRules + 1
  <2>1. pass # "second"
    BY <1>1, PipelineAssumption DEF IInv, SecondPassIdle
  <2>2. todo \subseteq input /\ made = {} /\ once = {}
    BY <1>1, <2>1 DEF IInv, InputExact, FirstPassProgress, Returning
  <2>3. answer \subseteq input
    BY <2>1 DEF IInv, InputExact, CallsPending, Returning
  <2> QED
    BY <2>2, <2>3 DEF IInv, InputExact, Elements
<1>2. CASE head \in 1..NRules
  <2>1. Derivations(head) = input \cup Image(head, input)
    <3>1. head - 1 \in 0..NRules-1 /\ (head - 1) + 1 = head
      BY <1>2, PipelineAssumption
    <3> QED
      BY <3>1, DerivationsStep DEF IInv, InputExact
  <2>2. pass \in {"first", "second"}
    BY <1>2, PipelineAssumption DEF IInv, InputExact, Returning
  <2>3. /\ todo \cup made \cup once \subseteq input \cup Image(head, input)
        /\ answer = {}
    BY <1>2, <2>2 DEF IInv, CallsPending, FirstPassProgress, SecondPassIdle
  <2> QED
    BY <1>2, <2>1, <2>3 DEF Elements
<1> QED
  BY <1>1, <1>2, PipelineAssumption DEF IInv, InputExact

--------------------------------------------------------------------------------
LEMMA InitIInv == Init => IInv
<1> SUFFICES ASSUME Init PROVE IInv
  OBVIOUS
<1> USE PipelineAssumption DEF Init
<1>1. InputExact
  BY NoRuleDerivation DEF InputExact
<1>2. CallsPending
  BY DEF CallsPending
<1>3. FirstPassProgress
  BY DEF FirstPassProgress
<1>4. SecondPassIdle /\ Returning
  BY DEF SecondPassIdle, Returning
<1> QED
  BY <1>1, <1>2, <1>3, <1>4 DEF IInv

LEMMA RewriteIInv == IInv /\ Rewrite => IInv'
<1> SUFFICES ASSUME IInv, Rewrite PROVE IInv'
  OBVIOUS
<1> USE DEF IInv
<1>1. PICK x \in todo : /\ Applicable(head, x)
                        /\ made' = made \cup Outputs(head, x)
                        /\ todo' = todo \ {x}
  BY DEF Rewrite
<1>2. UNCHANGED <<head, pass, input, once, pending, answer>> /\ InPass
  BY DEF Rewrite
<1>3. head \in Rule
  BY <1>2, PipelineAssumption DEF InPass, InputExact, Rule
<1>4. pass = "first"
  <2>1. SUFFICES ASSUME pass = "second" PROVE FALSE
    BY <1>2 DEF InPass
  <2>2. x \in Image(head, Derivations(head - 1))
    BY <1>1, <2>1 DEF SecondPassIdle, InputExact
  <2>3. head - 1 \in 0..NRules-1 /\ (head - 1) + 1 = head
    BY <1>3, PipelineAssumption DEF Rule
  <2>4. LastTag(x) = head
    BY <2>2, <2>3, LastTagOfImage
  <2> QED
    BY <1>1, <2>4 DEF Applicable
<1>5. InputExact' /\ CallsPending'
  BY <1>2 DEF InputExact, CallsPending
<1>6. FirstPassProgress'
  <2>1. made' \cup Image(head, todo') = made \cup Image(head, todo)
    <3>1. todo = todo' \cup {x}
      BY <1>1
    <3>2. Image(head, todo) = Image(head, todo') \cup Image(head, {x})
      BY <3>1, ImageUnion
    <3>3. Image(head, {x}) = Outputs(head, x)
      BY DEF Image
    <3> QED
      BY <1>1, <3>2, <3>3
  <2>2. head # NRules + 1
    BY <1>3, PipelineAssumption DEF Rule
  <2> QED
    BY <1>1, <1>2, <1>4, <2>1, <2>2 DEF FirstPassProgress
<1>7. SecondPassIdle' /\ Returning'
  BY <1>2, <1>4 DEF SecondPassIdle, Returning
<1> QED
  BY <1>5, <1>6, <1>7

LEMMA SkipIInv == IInv /\ Skip => IInv'
<1> SUFFICES ASSUME IInv, Skip PROVE IInv'
  OBVIOUS
<1> USE DEF IInv
<1>1. PICK x \in todo : ~Applicable(head, x) /\ todo' = todo \ {x}
  BY DEF Skip
<1>2. UNCHANGED <<head, pass, input, made, once, pending, answer>> /\ InPass
  BY DEF Skip
<1>3. head \in Rule
  BY <1>2, PipelineAssumption DEF InPass, InputExact, Rule
<1>4. InputExact' /\ CallsPending'
  BY <1>2 DEF InputExact, CallsPending
<1>5. FirstPassProgress'
  <2>1. SUFFICES ASSUME pass = "first" PROVE FirstPassProgress'
    BY <1>2 DEF FirstPassProgress
  <2>2. Image(head, {x}) = {}
    <3>1. x \in Derivations(head - 1)
      BY <1>1, <2>1 DEF FirstPassProgress, InputExact
    <3> QED
      BY <1>1, <1>3, <3>1, SkippedHasNoImage
  <2>3. Image(head, todo) = Image(head, todo')
    <3>1. todo = todo' \cup {x}
      BY <1>1
    <3> QED
      BY <2>2, <3>1, ImageUnion
  <2> QED
    BY <1>1, <1>2, <1>3, <2>1, <2>3, PipelineAssumption DEF FirstPassProgress, Rule
<1>6. SecondPassIdle' /\ Returning'
  BY <1>1, <1>2 DEF SecondPassIdle, Returning, InPass
<1> QED
  BY <1>4, <1>5, <1>6

LEMMA SecondPassIInv == IInv /\ SecondPass => IInv'
<1> SUFFICES ASSUME IInv, SecondPass PROVE IInv'
  OBVIOUS
<1> USE DEF IInv, SecondPass, InPass
<1>1. InputExact' /\ CallsPending'
  BY DEF InputExact, CallsPending
<1>2. SecondPassIdle'
  <2>1. Image(head, todo) = {}
    BY DEF Image
  <2> QED
    BY <2>1 DEF SecondPassIdle, FirstPassProgress
<1>3. FirstPassProgress' /\ Returning'
  BY DEF FirstPassProgress, Returning
<1> QED
  BY <1>1, <1>2, <1>3

\* What the merge of the three lists holds.
LEMMA MergedIsDerivations ==
  ASSUME IInv, pass = "second"
  PROVE  /\ head \in Rule
         /\ Merged = input \cup Image(head, input)
         /\ Merged = Derivations(head)
<1>1. head \in Rule
  BY PipelineAssumption DEF IInv, InputExact, SecondPassIdle, Rule
<1>2. Merged = input \cup Image(head, input)
  BY DEF IInv, SecondPassIdle, Merged
<1>3. head - 1 \in 0..NRules-1 /\ (head - 1) + 1 = head
  BY <1>1, PipelineAssumption DEF Rule
<1> QED
  BY <1>1, <1>2, <1>3, DerivationsStep DEF IInv, InputExact

LEMMA NextRuleIInv == IInv /\ NextRule => IInv'
<1> SUFFICES ASSUME IInv, NextRule PROVE IInv'
  OBVIOUS
<1> USE PipelineAssumption
<1>1. /\ pass = "second" /\ todo = {}
      /\ head' = head + 1 /\ pass' = "first"
      /\ input' = Merged /\ todo' = Merged
      /\ pending' = Append(pending, Merged)
      /\ made' = {} /\ once' = {} /\ answer' = answer
  BY DEF NextRule
<1>2. head \in Rule /\ Merged = Derivations(head) /\ input \subseteq Merged
  BY <1>1, MergedIsDerivations
<1>3. InputExact'
  BY <1>1, <1>2 DEF InputExact, Rule
<1>4. CallsPending'
  <2>1. pending \in Seq(SUBSET Merged)
    <3>1. pending \in Seq(SUBSET input) /\ SUBSET input \subseteq SUBSET Merged
      BY <1>2 DEF IInv, CallsPending
    <3> QED
      BY <3>1
  <2>2. Len(pending) = head - 1 /\ answer = {}
    BY <1>1 DEF IInv, CallsPending
  <2>3. /\ pending' \in Seq(SUBSET Merged)
        /\ Len(pending') = head /\ pending'[head] = Merged
    BY <1>1, <1>2, <2>1, <2>2 DEF Rule
  <2>4. head' - 1 = head
    BY <1>1, <1>2 DEF Rule
  <2> QED
    BY <1>1, <2>2, <2>3, <2>4 DEF CallsPending
<1>5. FirstPassProgress'
  BY <1>1 DEF FirstPassProgress
<1>6. SecondPassIdle' /\ Returning'
  BY <1>1 DEF SecondPassIdle, Returning
<1> QED
  BY <1>3, <1>4, <1>5, <1>6 DEF IInv

LEMMA NoRuleLeftIInv == IInv /\ NoRuleLeft => IInv'
<1> SUFFICES ASSUME IInv, NoRuleLeft PROVE IInv'
  OBVIOUS
<1> USE PipelineAssumption DEF IInv, NoRuleLeft
<1>1. InputExact' /\ CallsPending'
  BY DEF InputExact, CallsPending
<1>2. FirstPassProgress' /\ SecondPassIdle'
  BY DEF FirstPassProgress, SecondPassIdle
<1>3. Returning'
  BY DEF Returning, CallsPending, FirstPassProgress
<1> QED
  BY <1>1, <1>2, <1>3

LEMMA ReturnIInv == IInv /\ Return => IInv'
<1> SUFFICES ASSUME IInv, Return PROVE IInv'
  OBVIOUS
<1> USE PipelineAssumption
<1> DEFINE n == Len(pending)
<1>1. /\ pass = "return" /\ answer' = pending[n] \cup answer
      /\ pending' = SubSeq(pending, 1, n - 1)
      /\ pass' = IF n = 1 THEN "done" ELSE "return"
      /\ UNCHANGED <<head, input, todo, made, once>>
  BY DEF Return
<1>2. /\ n \in 1..NRules /\ pending \in Seq(SUBSET input)
      /\ IF n = NRules THEN answer = {} /\ pending[NRules] = input ELSE answer = input
      /\ head = NRules + 1 /\ todo \subseteq input /\ made = {} /\ once = {}
  BY <1>1 DEF IInv, CallsPending, Returning
<1>3. answer' = input
  <2>1. pending[n] \in SUBSET input
    BY <1>2
  <2> QED
    BY <1>1, <1>2, <2>1
<1>4. pending' \in Seq(SUBSET input) /\ Len(pending') = n - 1
  <2>1. pending \in Seq(SUBSET input) /\ n \in Nat \ {0}
    BY <1>2
  <2>2. n - 1 \in Int /\ \A i \in 1..n-1 : pending[i] \in SUBSET input
    BY <2>1
  <2>3. /\ SubSeq(pending, 1, n - 1) \in Seq(SUBSET input)
        /\ Len(SubSeq(pending, 1, n - 1)) =
             IF 1 <= n - 1 THEN (n - 1) - 1 + 1 ELSE 0
    BY <2>2, SubSeqProperties
  <2> QED
    <3>1. pending' = SubSeq(pending, 1, n - 1)
      BY <1>1
    <3>2. n \in Nat \ {0}
      BY <2>1
    <3> HIDE DEF n
    <3> QED
      BY <2>3, <3>1, <3>2
<1>5. InputExact'
  BY <1>1 DEF IInv, InputExact
<1>6. CallsPending'
  BY <1>1, <1>4 DEF CallsPending
<1>7. FirstPassProgress' /\ SecondPassIdle'
  BY <1>1 DEF FirstPassProgress, SecondPassIdle
<1>8. Returning'
  <2>1. pass' = "return" => Len(pending') \in 1..NRules-1
    BY <1>1, <1>2, <1>4
  <2> QED
    BY <1>1, <1>2, <1>3, <2>1 DEF Returning
<1> QED
  BY <1>5, <1>6, <1>7, <1>8 DEF IInv

LEMMA NextIInv == IInv /\ [Next]_vars => IInv'
<1> SUFFICES ASSUME IInv, [Next]_vars PROVE IInv'
  OBVIOUS
<1>1. CASE UNCHANGED vars
  BY <1>1 DEF vars, IInv, InputExact, CallsPending, FirstPassProgress,
              SecondPassIdle, Returning
<1>2. CASE Next
  BY <1>2, RewriteIInv, SkipIInv, SecondPassIInv, NextRuleIInv, NoRuleLeftIInv,
     ReturnIInv DEF Next
<1> QED
  BY <1>1, <1>2

\* The evaluation's invariant.
THEOREM PipelineInvariant == Spec => []IInv
<1> QED
  BY InitIInv, NextIInv, PTL DEF Spec

LEMMA IInvTypeOK == IInv => TypeOK
<1> SUFFICES ASSUME IInv PROVE TypeOK
  OBVIOUS
<1> USE PipelineAssumption
<1>1. Elements \subseteq Element /\ \A x \in Elements : Len(x.tags) > 0
  <2>1. head - 1 \in 0..NRules /\ (head <= NRules => head \in 0..NRules)
    BY DEF IInv, InputExact
  <2> QED
    BY <2>1, ElementsDerived, DerivationsAreElements
<1>2. pending \in Seq(SUBSET Element)
  <2>1. pending \in Seq(SUBSET input) /\ SUBSET input \subseteq SUBSET Element
    BY <1>1 DEF IInv, CallsPending, Elements
  <2> QED
    BY <2>1
<1> QED
  BY <1>1, <1>2 DEF TypeOK, IInv, InputExact, Elements

\* p_verb's lists hold elements, every one with at least the tag `initial'.
THEOREM TypeCorrect == Spec => []TypeOK
<1> QED
  BY PipelineInvariant, IInvTypeOK, PTL

LEMMA IInvTagsExplainForm == IInv => TagsExplainForm
<1> SUFFICES ASSUME IInv, NEW x \in Elements PROVE Derived(x)
  BY DEF TagsExplainForm
<1>1. head - 1 \in Nat /\ head \in Nat
  BY PipelineAssumption DEF IInv, InputExact
<1> QED
  BY <1>1, ElementsDerived, DerivationShape

\* Whatever the rules rewrite, the tags of every element lead to its form.
THEOREM TagsAlwaysExplainForm == Spec => []TagsExplainForm
<1> QED
  BY PipelineInvariant, IInvTagsExplainForm, PTL

\* No rule of the pipeline ever applies twice on the way to an element, or out
\* of turn.
THEOREM RulesAlwaysInOrderOnce == Spec => []RulesInOrderOnce
<1>1. IInv => RulesInOrderOnce
  BY IInvTagsExplainForm DEF TagsExplainForm, RulesInOrderOnce, Derived
<1> QED
  BY <1>1, PipelineInvariant, PTL

\* p_verb/2's answer is the set of all derivations, for every rule list.
THEOREM AnswerExact == Spec => []AnswerIsAllDerivations
<1>1. IInv => AnswerIsAllDerivations
  <2> SUFFICES ASSUME IInv, pass = "done" PROVE answer = Derivations(NRules)
    BY DEF AnswerIsAllDerivations
  <2>1. answer = input /\ head = NRules + 1 /\ input = Derivations(head - 1)
    BY DEF IInv, InputExact, Returning
  <2>2. head - 1 = NRules
    BY <2>1, PipelineAssumption
  <2> QED
    BY <2>1, <2>2
<1> QED
  BY <1>1, PipelineInvariant, PTL

\* The evaluation implements RuleClosure: a step applies the next rule once to
\* everything known, or changes neither.
THEOREM ImplementsClosure == Spec => ClosureSpec
<1> USE PipelineAssumption
<1> USE DEF Closure!ClosureInit, Closure!ApplyRule, Closure!closureVars
<1>1. Init => Closure!ClosureInit
  BY DEF Init, InitialElement, Closure!InitialElement
<1>2. IInv /\ [Next]_vars => [Closure!ApplyRule]_(Closure!closureVars)
  <2> SUFFICES ASSUME IInv, [Next]_vars
               PROVE  [Closure!ApplyRule]_(Closure!closureVars)
    OBVIOUS
  <2>1. CASE NextRule
    <3>1. /\ head \in 1..NRules
          /\ input' = input \cup Image(head, input)
      BY <2>1, MergedIsDerivations DEF NextRule, Rule
    <3>2. head' = head + 1
      BY <2>1 DEF NextRule
    <3>3. Closure!Image(head, input) = Image(head, input)
      BY DEF Closure!Image, Image, Closure!Outputs, Outputs
    <3>4. (head - 1) + 1 = head /\ head' - 1 = head /\ head - 1 < NRules
      BY <3>1, <3>2
    <3> QED
      BY <3>1, <3>3, <3>4
  <2>2. CASE Rewrite \/ Skip \/ SecondPass \/ NoRuleLeft \/ Return \/ UNCHANGED vars
    BY <2>2 DEF Rewrite, Skip, SecondPass, NoRuleLeft, Return, vars
  <2> QED
    BY <2>1, <2>2 DEF Next
<1> QED
  BY <1>1, <1>2, PipelineInvariant, PTL DEF Spec, ClosureSpec, Closure!ClosureSpec

--------------------------------------------------------------------------------
(* Unification of templates, a part at a time. *)

LEMMA TemplateParts ==
  ASSUME NEW t \in AnyTemplate
  PROVE  /\ DOMAIN t = Lists \cup Atoms \cup {"subject", "stem"}
         /\ t = [x \in DOMAIN t |-> t[x]]
         /\ t["subject"] = t.subject /\ t["stem"] = t.stem
  BY DEF AnyTemplate, Lists, Atoms

\* s binds what t binds, the same way, and maybe more.
InstanceOf(s, t) == Unifiable(s, t) /\ Unified(s, t) = s
Says(s, t) ==
  /\ \A x \in Lists : s[x] = t[x] \/ ~ Bound(t[x])
  /\ \A x \in Atoms : s[x] = t[x] \/ ~ BoundAtom(t[x])
  /\ s["subject"] = t["subject"] /\ s["stem"] = t["stem"]

LEMMA UnifiedParts ==
  ASSUME NEW s \in AnyTemplate, NEW t \in AnyTemplate
  PROVE  /\ DOMAIN Unified(s, t) = Lists \cup Atoms \cup {"subject", "stem"}
         /\ \A x \in Lists : Unified(s, t)[x] = IF Bound(t[x]) THEN t[x] ELSE s[x]
         /\ \A x \in Atoms : Unified(s, t)[x] = IF BoundAtom(t[x]) THEN t[x] ELSE s[x]
         /\ Unified(s, t)["subject"] = t["subject"] /\ Unified(s, t)["stem"] = t["stem"]
<1>1. Lists \cap Atoms = {} /\ {"subject", "stem"} \cap (Lists \cup Atoms) = {}
  BY DEF Lists, Atoms
<1> QED
  BY <1>1, TemplateParts DEF Unified

LEMMA InstanceSays ==
  ASSUME NEW s \in AnyTemplate, NEW t \in AnyTemplate
  PROVE  InstanceOf(s, t) <=> Says(s, t)
<1>1. ASSUME InstanceOf(s, t) PROVE Says(s, t)
  <2>1. Unified(s, t) = s /\ Unifiable(s, t)
    BY <1>1 DEF InstanceOf
  <2>2. \A x \in Lists : s[x] = t[x] \/ ~ Bound(t[x])
    BY <2>1, UnifiedParts
  <2>3. \A x \in Atoms : s[x] = t[x] \/ ~ BoundAtom(t[x])
    BY <2>1, UnifiedParts
  <2> QED
    BY <2>1, <2>2, <2>3, UnifiedParts DEF Says
<1>2. ASSUME Says(s, t) PROVE InstanceOf(s, t)
  <2>1. Unifiable(s, t)
    BY <1>2, TemplateParts DEF Says, Unifiable
  <2>2. ASSUME NEW x \in Lists \cup Atoms \cup {"subject", "stem"} PROVE Unified(s, t)[x] = s[x]
    BY <1>2, UnifiedParts DEF Says
  <2>3. Unified(s, t) = [x \in DOMAIN t |-> Unified(s, t)[x]]
    BY DEF Unified
  <2>4. Unified(s, t) = [x \in DOMAIN s |-> s[x]]
    BY <2>2, <2>3, TemplateParts
  <2> QED
    BY <2>1, <2>4, TemplateParts DEF InstanceOf
<1> QED
  BY <1>1, <1>2

\* Unification gives a template, and one that says what both of them say.
LEMMA UnifiedSaysBoth ==
  ASSUME NEW s \in AnyTemplate, NEW t \in AnyTemplate, Unifiable(s, t)
  PROVE  /\ Unified(s, t) \in AnyTemplate
         /\ InstanceOf(Unified(s, t), s) /\ InstanceOf(Unified(s, t), t)
<1> DEFINE u == Unified(s, t)
<1>1. u = [x \in Lists \cup Atoms \cup {"subject", "stem"} |-> u[x]]
  BY TemplateParts DEF Unified
<1>2. /\ \A x \in Lists : u[x] = IF Bound(t[x]) THEN t[x] ELSE s[x]
      /\ \A x \in Atoms : u[x] = IF BoundAtom(t[x]) THEN t[x] ELSE s[x]
      /\ u["subject"] = t["subject"] /\ u["stem"] = t["stem"]
  BY UnifiedParts
<1>3. u \in AnyTemplate
  <2>1. \A x \in Lists : s[x] \in Seq(STRING) /\ t[x] \in Seq(STRING)
    BY DEF AnyTemplate, Lists
  <2>2. \A x \in Atoms : s[x] \in STRING /\ t[x] \in STRING
    BY DEF AnyTemplate, Atoms
  <2>3. \A x \in Lists : u[x] \in Seq(STRING)
    BY <1>2, <2>1
  <2>4. \A x \in Atoms : u[x] \in STRING
    BY <1>2, <2>2
  <2>5. u["subject"] \in STRING /\ u["stem"] \in Lexicon
    BY <1>2 DEF AnyTemplate
  <2>6. u = [outer |-> u["outer"], distpl |-> u["distpl"], inner |-> u["inner"], object |-> u["object"],
             fourth |-> u["fourth"], subject |-> u["subject"], stem |-> u["stem"]]
    BY <1>1 DEF Lists, Atoms
  <2>7. /\ u["outer"] \in Seq(STRING) /\ u["distpl"] \in Seq(STRING) /\ u["inner"] \in Seq(STRING)
        /\ u["object"] \in STRING /\ u["fourth"] \in STRING
    BY <2>3, <2>4 DEF Lists, Atoms
  <2> HIDE DEF u
  <2>8. u \in AnyTemplate
    BY <2>5, <2>6, <2>7 DEF AnyTemplate
  <2> QED
    BY <2>8
<1>4. Says(u, t)
  BY <1>2 DEF Says
<1>5. Says(u, s)
  <2>1. s["subject"] = t["subject"] /\ s["stem"] = t["stem"]
    BY TemplateParts DEF Unifiable
  <2> QED
    BY <1>2, <2>1 DEF Says, Unifiable
<1> QED
  BY <1>3, <1>4, <1>5, InstanceSays

\* What contradicts a template contradicts its instances.
LEMMA InstanceUnifiesWithLess ==
  ASSUME NEW r \in AnyTemplate, NEW s \in AnyTemplate, NEW t \in AnyTemplate,
         InstanceOf(r, t), Unifiable(s, r)
  PROVE  Unifiable(s, t)
<1>1. Says(r, t)
  BY InstanceSays
<1>2. r.subject = t.subject /\ r.stem = t.stem
  BY <1>1, TemplateParts DEF Says
<1> QED
  BY <1>1, <1>2 DEF Says, Unifiable

LEMMA UnifiableBothWays ==
  ASSUME NEW s, NEW t, Unifiable(s, t)
  PROVE  Unifiable(t, s)
  BY DEF Unifiable

--------------------------------------------------------------------------------
(* The comparison of all that were found. *)

ChoiceInv ==
  /\ found \subseteq AnyTemplate /\ shown \subseteq AnyTemplate /\ parses \subseteq AnyTemplate
  /\ NoneShownTwice
  /\ parses = {} => found = {} /\ shown = {}

LEMMA CompareKeepsChoice ==
  ASSUME ChoiceInv, parses = {}, NEW templates \in SUBSET AnyTemplate, Compare(templates)
  PROVE  ChoiceInv'
<1>1. shown = {} /\ shown' = {} /\ found' = templates /\ parses' = templates
  BY DEF ChoiceInv, Compare
<1> QED
  BY <1>1 DEF ChoiceInv, NoneShownTwice

LEMMA DropRepeatedKeepsChoice ==
  ASSUME ChoiceInv, NEW t \in found, DropRepeated(t)
  PROVE  ChoiceInv'
<1>1. PICK u \in found \ {t} : Unifiable(t, u) /\ found' = (found \ {t, u}) \cup {Unified(t, u)}
  BY DEF DropRepeated
<1>2. shown' = shown /\ parses' = parses
  BY DEF DropRepeated
<1> DEFINE r == Unified(t, u)
<1>3. t \in AnyTemplate /\ u \in AnyTemplate
  BY <1>1 DEF ChoiceInv
<1>4. r \in AnyTemplate /\ InstanceOf(r, t) /\ InstanceOf(r, u)
  BY <1>1, <1>3, UnifiedSaysBoth
<1>5. found' \subseteq AnyTemplate /\ r \in found'
  BY <1>1, <1>4 DEF ChoiceInv
<1> HIDE DEF r
<1>6. NoneShownTwice'
  <2> SUFFICES ASSUME NEW s \in shown, NEW q \in (found' \cup shown) \ {s} PROVE ~ Unifiable(s, q)
    BY <1>2 DEF NoneShownTwice
  <2>1. CASE q \in (found \cup shown) \ {s}
    BY <2>1 DEF ChoiceInv, NoneShownTwice
  <2>2. CASE q = r
    <3>1. s \in AnyTemplate
      BY DEF ChoiceInv
    <3>2. PICK v \in {t, u} : v # s
      BY <1>1
    <3>3. ~ Unifiable(s, v)
      BY <1>1, <3>2 DEF ChoiceInv, NoneShownTwice
    <3> QED
      BY <1>3, <1>4, <2>2, <3>1, <3>3, InstanceUnifiesWithLess
  <2> QED
    BY <1>1, <2>1, <2>2 DEF r
<1> QED
  BY <1>2, <1>5, <1>6 DEF ChoiceInv

LEMMA KeepKeepsChoice ==
  ASSUME ChoiceInv, NEW t \in found, Keep(t)
  PROVE  ChoiceInv'
<1>1. /\ \A u \in found \ {t} : ~ Unifiable(t, u)
      /\ found' = found \ {t} /\ shown' = shown \cup {t} /\ parses' = parses
  BY DEF Keep
<1>2. found' \cup shown' = found \cup shown
  BY <1>1
<1>3. NoneShownTwice'
  <2> SUFFICES ASSUME NEW s \in shown', NEW q \in (found \cup shown) \ {s} PROVE ~ Unifiable(s, q)
    BY <1>2 DEF NoneShownTwice
  <2>1. CASE s \in shown
    BY <2>1 DEF ChoiceInv, NoneShownTwice
  <2>2. CASE s = t /\ q \in shown
    BY <2>2, UnifiableBothWays DEF ChoiceInv, NoneShownTwice
  <2>3. CASE s = t /\ q \in found
    BY <1>1, <2>3
  <2> QED
    BY <1>1, <2>1, <2>2, <2>3
<1> QED
  BY <1>1, <1>3 DEF ChoiceInv

LEMMA ChoiceInvariant == ChoiceSpec => []ChoiceInv
<1>1. NothingFound => ChoiceInv
  BY DEF NothingFound, ChoiceInv, NoneShownTwice
<1>2. ChoiceInv /\ [ChoiceNext]_choice => ChoiceInv'
  <2> SUFFICES ASSUME ChoiceInv, [ChoiceNext]_choice PROVE ChoiceInv'
    OBVIOUS
  <2>1. CASE parses = {} /\ \E templates \in SUBSET AnyTemplate : Compare(templates)
    BY <2>1, CompareKeepsChoice
  <2>2. CASE getUniqueParses
    BY <2>2, DropRepeatedKeepsChoice, KeepKeepsChoice DEF getUniqueParses
  <2>3. CASE UNCHANGED choice
    BY <2>3 DEF choice, ChoiceInv, NoneShownTwice
  <2> QED
    BY <2>1, <2>2, <2>3 DEF ChoiceNext
<1> QED
  BY <1>1, <1>2, PTL DEF ChoiceSpec

\* The name of getUniqueParses/2 of run.P promises as much: whatever templates were found
\* for a verb, in whatever order they are compared, no two of those it leaves could be
\* one, whatever later bindings have made of those compared before.
THEOREM ShownAreUnique == ChoiceSpec => []NoneShownTwice
<1>1. ChoiceInv => NoneShownTwice
  BY DEF ChoiceInv
<1> QED
  BY <1>1, ChoiceInvariant, PTL
================================================================================
