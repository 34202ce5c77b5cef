------------------------------- MODULE Morphology -------------------------------
(***************************************************************************)
(* The morphology rules of rules.P: which templates verb//1 reads a form   *)
(* as, given the stems of stems.P.                                         *)
(*                                                                         *)
(* A part of a template is a set of pairs: a text that spells the part,    *)
(* and what the template then says of it.                                  *)
(***************************************************************************)
EXTENDS Forms, Templates

Omitted == {<<<<>>, Unbound>>}

\* In its segments, or in the slot a phonology rule has made of them.
Spelt(slot, names) == {Plain(names), SlotOf(slot, names)}
\* A prefix of the verb base: consonants, or these and vowels and perhaps consonants.
pref(slot, names) ==
  LET l == Plain(names)
  IN  IF names = <<>> THEN {} ELSE
      {SlotOf(slot, names)} \cup
      (IF consonants(l) \/ consonantsVowels(l) \/ consonantsVowelsConsonants(l) THEN {l} ELSE {})

is_intrans(e) == e.transitivity = "intrans" /\ e.object = <<>>

outer(e) == pref("disjunct", e.outer) \X {e.outer}
distpl == Spelt("disjunct", <<"d", "a">>) \X {<<"d", "a">>}
disjunct(e) ==
  {<<o[1] \o d[1], [outer |-> o[2], distpl |-> d[2]]>> :
     o \in outer(e) \cup (IF e.outer = <<>> THEN Omitted ELSE {}), d \in distpl \cup Omitted}

Objects == {<<<<"sh">>, "oneSG">>, <<<<"n", "i", "h">>, "oneDPL">>, <<<<"n">>, "twoSG">>,
            <<<<"n", "i", "h">>, "twoDPL">>, <<<<"y">>, "three">>, <<<<"b">>, "three">>,
            <<<<"h", "w">>, "four">>, <<<<"xG">>, "unspec">>}
object(e) ==
  IF is_intrans(e) THEN {<<<<>>, "_">>}
  ELSE pref("conjunct", e.object) \X {"unspec"} \cup
       (IF e.transitivity = "trans"
          THEN {<<<<>>, "threeEmpty">>} \cup UNION {Spelt("conjunct", o[1]) \X {o[2]} : o \in Objects}
          ELSE {})
fourthperson == Spelt("conjunct", <<"j">>) \X {"subj4p"} \cup {<<<<>>, "_">>}

\* The d of the future, yd in the FLV conjugation, before the inner prefix.
future(e) == IF e.mode # "f" THEN {} ELSE
  Spelt("conjunct", <<"d">>) \cup (IF e.conjugation = "flv" THEN Spelt("conjunct", <<"y", "d">>) ELSE {})
inner(e) ==
  LET own == pref("conjunct", e.inner)
  IN  own \X {e.inner} \cup {<<d \o i, e.inner>> : d \in future(e), i \in own}
      \cup future(e) \X {Unbound} \cup (IF e.inner = <<>> THEN Omitted ELSE {})
conjunct(e) ==
  {<<o[1] \o p[1] \o i[1], [object |-> o[2], fourth |-> p[2], inner |-> i[2]]>> :
     o \in object(e), p \in fourthperson, i \in inner(e)}

classifier(e) ==
  CASE e.classifier = "zero" -> {<<>>}
    [] e.classifier = "d" -> Spelt("classifier", <<"d">>)
    [] e.classifier = "barredl" -> Spelt("classifier", <<"lB">>)
    [] e.classifier = "plainl" -> Spelt("classifier", <<"l">>)

--------------------------------------------------------------------------------
(* Subject prefixes: which text is which person, after this disjunct d and *)
(* this conjunct c.                                                        *)

Persons(oneSG, twoSG, oneDPL, twoDPL, three) ==
  oneSG \X {"oneSG"} \cup twoSG \X {"twoSG"} \cup oneDPL \X {"oneDPL"}
  \cup twoDPL \X {"twoDPL"} \cup three \X {"three"}

highLongVowel == {<<"aHaH">>, <<"iHiH">>, <<"oHoH">>, <<"eHeH">>}
highShortVowel == {<<"aH">>, <<"iH">>, <<"oH">>, <<"eH">>}
lowLongVowel == {<<"aa">>, <<"ii">>, <<"oo">>, <<"ee">>}
Before(vowels_, rest) == {v \o rest : v \in vowels_}
iid == {<<"ii", "d">>}
ooh == {<<"oo", "h">>}

AnyDisjunct(d) == Bound(d.outer) \/ Bound(d.distpl)
\* Objects count even when they are empty.
AnyConjunct(c) == BoundAtom(c.object) \/ BoundAtom(c.fourth) \/ Bound(c.inner)
zeroOrBarred(e) == e.classifier \in {"zero", "barredl"}

subjectImodeLongVowel(d, c) ==
  IF ~ AnyConjunct(c) /\ AnyDisjunct(d)
    THEN Persons({<<"i", "sh">>}, {<<"i">>}, iid, ooh, IF Bound(d.distpl) THEN {<<"y", "ii">>} ELSE {<<"ii">>})
    ELSE Persons({<<"ii", "sh">>}, {<<"ii">>}, iid, ooh, {<<"ii">>})

\* The third person of the N conjugation, by what stands before it.
subjectN3(d, c) ==
  {<<"y", "iH">>}
  \cup (IF ~ AnyConjunct(c) /\ Bound(d.outer) /\ ~ Bound(d.distpl) THEN {<<>>} ELSE {})
  \cup (IF ~ AnyConjunct(c) /\ Bound(d.distpl) THEN {<<>>, <<"iH">>} ELSE {})
  \cup (IF (BoundAtom(c.object) \/ BoundAtom(c.fourth)) /\ ~ Bound(c.inner) THEN {<<"iH">>} ELSE {})
  \cup (IF Bound(c.inner) THEN {<<"ee">>} ELSE {})

subjectPmodeSSLVDS(e) ==
  IF zeroOrBarred(e)
    THEN Persons({<<"s", "eH">>}, {<<"s", "iH", "n", "iH">>}, {<<"s", "ii", "d">>}, {<<"s", "oo">>},
                 {<<"z">>, <<"s">>, <<"s", "i">>})
    ELSE Persons({<<"s", "i", "s">>}, {<<"s", "iH", "n", "iH">>}, {<<"s", "ii", "d">>}, {<<"s", "oo", "h">>},
                 {<<"s">>, <<"s", "i">>})

subjectPmodeSimpleYLV(d, c, e) ==
  LET afterConjunct == \/ BoundAtom(c.object) /\ c.object # "threeEmpty"
                       \/ BoundAtom(c.fourth) \/ Bound(c.inner)
      twoSG == Before(highShortVowel, <<"iH", "n", "iH">>)
  IN  IF zeroOrBarred(e) THEN
        IF afterConjunct
          THEN Persons({<<"iHiH">>}, {<<"iHiH", "n", "iH">>}, iid, {<<"oo">>}, {<<"iHiH">>})
        ELSE IF AnyDisjunct(d)
          THEN Persons(highLongVowel, twoSG, iid, {<<"oo">>}, highLongVowel)
        ELSE Persons({<<"y", "iH">>}, {<<"y", "iH", "n", "iH">>}, {<<"y", "ii", "d">>}, {<<"w", "oo">>},
                     {<<"y", "iH">>})
      ELSE
        IF afterConjunct
          THEN Persons({<<"ee", "sh">>}, {<<"iHiH", "n", "iH">>}, iid, ooh, {<<"oo">>})
        ELSE IF AnyDisjunct(d)
          THEN Persons(Before(lowLongVowel, <<"sh">>), twoSG, iid, ooh, lowLongVowel)
        ELSE Persons({<<"y", "i", "sh">>}, {<<"y", "iH", "n", "iH">>}, {<<"y", "ii", "d">>},
                     {<<"w", "oo", "h">>}, {<<"y", "i">>})

\* The prefixes of the d and l classifiers are taken for any classifier.
subjectPmodeN(e) ==
  LET twoSG == Before(highShortVowel, <<"iH", "n", "i">>) \cup {<<"iHiH", "n", "iH">>, <<"y", "iH", "n", "iH">>}
  IN  Persons({<<"n", "i", "sh">>}, twoSG, {<<"n", "ii", "d">>}, {<<"n", "oo", "h">>}, {})
      \cup (IF zeroOrBarred(e)
              THEN Persons({<<"n", "iH">>}, twoSG, {<<"n", "ii", "d">>}, {<<"n", "oo">>}, {<<"n", "iH">>})
              ELSE {})

\* What is read after nothing or a conjunct prefix is read after a disjunct prefix as well.
subjectPmodeLVFLV(d, c, e) ==
  LET sh == IF zeroOrBarred(e) THEN <<>> ELSE <<"sh">>
      oo == IF zeroOrBarred(e) THEN {<<"oo">>} ELSE ooh
  IN  Persons({<<"ii">> \o sh}, {<<"i", "n", "i">>}, iid, oo, {<<"ii">>})
      \cup (IF BoundAtom(c.object) THEN {<<<<"ii", "n", "i">>, "twoSG">>} ELSE {})
      \cup (IF ~ AnyConjunct(c) /\ AnyDisjunct(d)
              THEN Persons({<<"i">> \o sh}, {}, {}, {}, {<<"i">>}) ELSE {})

subject(d, c, e) ==
  CASE e.mode = "i" /\ e.conjugation \in {"lv", "flv", "slv", "ylv"} -> subjectImodeLongVowel(d, c)
    [] e.mode = "i" /\ e.conjugation = "n" ->
         Persons({<<"n", "i", "sh">>}, {<<"n", "iH">>}, {<<"n", "ii", "d">>}, {<<"n", "o", "h">>}, subjectN3(d, c))
    [] e.mode = "i" /\ e.conjugation = "ds" ->
         Persons({<<"sh", "i", "sh">>}, {<<"s", "iH">>}, {<<"s", "ii", "d">>}, {<<"s", "o", "h">>}, {<<>>})
    [] e.mode = "i" /\ e.conjugation \in {"s", "simple"} ->
         Persons({<<"sh">>}, {<<"n", "i">>}, iid, {<<"o", "h">>}, {<<>>})
    [] e.mode = "p" /\ e.conjugation \in {"s", "slv", "ds"} -> subjectPmodeSSLVDS(e)
    [] e.mode = "p" /\ e.conjugation \in {"simple", "ylv"} -> subjectPmodeSimpleYLV(d, c, e)
    [] e.mode = "p" /\ e.conjugation = "n" -> subjectPmodeN(e) \cup subjectN3(d, c) \X {"three"}
    [] e.mode = "p" /\ e.conjugation \in {"lv", "flv"} -> subjectPmodeLVFLV(d, c, e)
    [] e.mode = "f" -> Persons({<<"ee", "sh">>}, {<<"iHiH">>}, iid, ooh, {<<"oo">>})
    [] OTHER -> {}

\* A slot holds a subject, or again a slot of one.
RECURSIVE Unslotted(_)
Unslotted(l) ==
  IF Len(l) = 1 /\ compound(l[1]) /\ l[1].name = "subject" THEN Unslotted(l[1].list) ELSE l

--------------------------------------------------------------------------------
\* Only the third person takes the fourth person's prefix.
testFourPerson(c, person) == BoundAtom(c.fourth) => person = "three"

\* What the template says the object is; no value when object and subject exclude each other.
testThreeEmptiness(e, c, person) ==
  IF is_intrans(e) \/ c.object \notin {"three", "threeEmpty"} THEN {c.object}
  ELSE IF (c.object = "three") = (person = "three" /\ ~ BoundAtom(c.fourth)) THEN {"three"} ELSE {}

\* What is left of the list after each text of the table that begins it.
After(l, table) == {<<From(l, Len(t[1]) + 1), t[2]>> : t \in {u \in table : IsPrefix(u[1], l)}}

Template(d, c, object_, person, e) ==
  [outer |-> d.outer, distpl |-> d.distpl, object |-> object_, fourth |-> c.fourth,
   inner |-> c.inner, subject |-> person, stem |-> e]

restcapture(e, l) ==
  UNION {UNION {
    UNION {LET subj == {s \in subject(d[2], c[2], e) : Plain(s[1]) = Unslotted(Upto(c[1], Len(c[1]) - Len(k)))}
           IN  UNION {{Template(d[2], c[2], o, s[2], e) : o \in testThreeEmptiness(e, c[2], s[2])} :
                        s \in {t \in subj : testFourPerson(c[2], t[2])}}
           : k \in {x \in classifier(e) : IsSuffix(x, c[1])}}
    : c \in After(d[1], conjunct(e))} : d \in After(l, disjunct(e))}

\* Everything before the stem is read as prefixes; a peg before them is passed over.
MutPegIsNoPrefix(f) ==
  UNION {LET l == Upto(f, Len(f) - Len(e.text))
         IN  IF any(l) THEN restcapture(e, l) ELSE {}
         : e \in {x \in Lexicon : IsSuffix(Plain(x.text), f)}}
verb(f) ==
  UNION {UNION {
    LET l == Upto(g, Len(g) - Len(e.text))
    IN  IF any(l) THEN restcapture(e, l) ELSE {}
    : e \in {x \in Lexicon : IsSuffix(Plain(x.text), g)}}
    : g \in {f} \cup (IF f # <<>> /\ f[1] = Segment("peg") THEN {Tail(f)} ELSE {})}
================================================================================
