------------------------------ MODULE VerbAnalysis ------------------------------
(***************************************************************************)
(* One verb through the whole of the Prolog program: a speaker has a       *)
(* template in mind and forms its verb (VerbFormation); p_verb/2 undoes    *)
(* the rules (PhonologyRules), getParses/2 of run.P reads the underlying   *)
(* forms as templates (Morphology) and strikes out those that repeat one   *)
(* another (UniqueParses).  What is left is shown.                         *)
(*                                                                         *)
(* The verb comes as the segments it was formed of; Segmentizer tells how  *)
(* a spelling becomes segments, and RuleClosure what p_verb/2 computes of  *)
(* the rules, each applied once to every form found so far.                *)
(***************************************************************************)
EXTENDS VerbFormation, Morphology, UniqueParses, TLC

CONSTANT Intended(_, _)  \* which templates of which stem the speaker may have in mind

VARIABLES phase,     \* "forming", "analysing", "parsing", "choosing" or "shown"
          intended,  \* the template in mind
          spoken,    \* the verb as formed so far
          stages,    \* what it sounded like after each change
          changed,   \* the changes that did change it
          forms,     \* the underlying forms found so far
          next       \* the rule whose turn it is

vars == <<phase, intended, spoken, stages, changed, forms, next, choice>>

Segments(l) == \A k \in DOMAIN l : ~ compound(l[k])
Names(l) == [k \in DOMAIN l |-> l[k].name]
Said(table) == {<<Names(t[1]), t[2]>> : t \in {u \in table : Segments(u[1])}}
Pieces(names) == IF names = <<>> THEN <<>> ELSE <<names>>

\* The future has its d, and the base its inner prefix after it; where that is a d too,
\* one may stand for both.
InnerPieces(e) ==
  LET own == Pieces(e.inner)
  IN  IF e.mode # "f" THEN {own}
      ELSE {<<<<"d">>>> \o own} \cup (IF e.inner = <<"d">> THEN {own} ELSE {})

\* The verbs of a stem before anything is changed in them, each with its template.
Underlying(e) ==
  UNION {UNION {
    LET c == [object |-> o[2], fourth |-> p[2], inner |-> e.inner]
    IN  UNION {{<<[peg |-> FALSE, disj |-> d[1], conj |-> Pieces(o[1]) \o Pieces(p[1]) \o i,
                   subj |-> s[1], cls |-> Names(k), stem |-> e.text],
                  Template(d[2], c, ob, s[2], e)>>
                 : i \in InnerPieces(e), k \in {x \in classifier(e) : Segments(x)},
                   ob \in testThreeEmptiness(e, c, s[2])}
               : s \in {t \in subject(d[2], c, e) : testFourPerson(c, t[2])}}
    : o \in Said(object(e)), p \in Said(fourthperson)} : d \in Said(disjunct(e))}

Init ==
  /\ phase = "forming"
  /\ \E e \in Lexicon : \E u \in Underlying(e) :
       /\ Intended(e, u[2])
       /\ spoken = u[1] /\ intended = u[2] /\ stages = <<Spoken(u[1])>>
  /\ changed = {} /\ forms = {} /\ next = 1 /\ NothingFound

\* The next change of the language.
Form ==
  /\ phase = "forming" /\ Len(stages) <= Len(Changes)
  /\ LET rule == Changes[Len(stages)]
     IN  /\ spoken' = change(rule, spoken)
         /\ changed' = IF spoken' # spoken THEN changed \cup {rule} ELSE changed
  /\ stages' = Append(stages, Spoken(spoken'))
  /\ UNCHANGED <<phase, intended, forms, next, choice>>

\* The verb is typed; do_parse.P hands its segments to getUnderlying/2.
getUnderlying ==
  /\ phase = "forming" /\ Len(stages) > Len(Changes)
  /\ phase' = "analysing" /\ forms' = {Plain(Last(stages))}
  /\ UNCHANGED <<intended, spoken, stages, changed, next, choice>>

ApplyRule ==
  /\ phase = "analysing" /\ next <= Len(RuleNames)
  /\ forms' = forms \cup UNION {apply(RuleNames[next], f) : f \in forms}
  /\ next' = next + 1
  /\ UNCHANGED <<phase, intended, spoken, stages, changed, choice>>

\* getSingleParse/2 on every form.
findAllParses ==
  /\ phase = "analysing" /\ next > Len(RuleNames)
  /\ phase' = "choosing"
  /\ Compare(UNION {verb(f) : f \in forms})
  /\ UNCHANGED <<intended, spoken, stages, changed, forms, next>>

\* getUniqueParses/2, one template at a time.
Choose ==
  /\ phase = "choosing" /\ getUniqueParses
  /\ UNCHANGED <<phase, intended, spoken, stages, changed, forms, next>>

printParses ==
  /\ phase = "choosing" /\ found = {}
  /\ phase' = "shown"
  /\ UNCHANGED <<intended, spoken, stages, changed, forms, next, choice>>

Next ==
  Form \/ getUnderlying \/ ApplyRule \/ findAllParses \/ Choose \/ printParses

Spec == Init /\ [][Next]_vars

--------------------------------------------------------------------------------
\* Every part of the state is of its kind; a form is made of what nonterminals take for items.
TypeOK ==
  /\ phase \in {"forming", "analysing", "choosing", "shown"}
  /\ Len(stages) \in 1..Len(Changes) + 1 /\ next \in 1..Len(RuleNames) + 1
  /\ changed \subseteq {Changes[k] : k \in DOMAIN Changes}
  /\ \A f \in forms : \A k \in DOMAIN f : IsItem(f[k])
  /\ found \cup shown \cup parses \subseteq AnyTemplate

\* The segments of a form, in its slots or not; a peg is none.
RECURSIVE Flat(_)
Flat(f) == FlattenSeq([k \in DOMAIN f |-> IF compound(f[k]) THEN Flat(f[k].list)
                                          ELSE IF f[k] = Segment("peg") THEN <<>> ELSE <<f[k].name>>])

\* Rules whose changes of one verb the analysis does not undo together.  The rule undone
\* first puts segments in a slot: the other looks for them bare, or for a prefix with the
\* vowel the slot has left alone.  Before a peg no rule but those of prefixes//1 applies.
Competing ==
  {{"Subj2", "Subj6"}, {"Subj1", "Subj6"}, {"Conj1", "Conj4"}, {"Conj1", "Conj5"},
   {"Subj1", "Disj4"}, {"Disj2", "Subj7"}, {"Str2", "Subj8"}}
NothingCompetes == \A pair \in Competing : ~ pair \subseteq changed

\* The list of p_verb/2 undoes the changes in reverse: once a rule has had its turn, one
\* of the forms has the sound the verb had before that rule's change, whatever slots and
\* further forms the rules have made ("Order matters big time").
NotUndone == Cardinality({k \in DOMAIN Changes : \A j \in 1..next - 1 : RuleNames[j] # Changes[k]})
TheWayBackIsKept ==
  phase = "analysing" /\ NothingCompetes => \E f \in forms : Flat(f) = stages[NotUndone + 1]

\* verb//1 reads one of the underlying forms as the very template the verb was formed of.
EveryVerbIsFound == phase \in {"choosing", "shown"} /\ NothingCompetes => intended \in parses

\* The comment on p_ruleSubj2: the l classifiers disappear after any subject prefix that
\* ends in sh or s.  A verb in which one has is found.
LostClassifierIsFound ==
  phase \in {"choosing", "shown"} /\ "Subj2" \in changed /\ NothingCompetes => intended \in parses
================================================================================
