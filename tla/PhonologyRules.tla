----------------------------- MODULE PhonologyRules -----------------------------
(***************************************************************************)
(* The rules of rules.P, each the set of forms it makes of a form: all     *)
(* results of the DCG predicate p_rule... over the whole form.  Names are  *)
(* the source's.  A rule undoes a change that Navajo makes in forming a    *)
(* verb, so the right side of an entry is what is seen and the left what   *)
(* may have been there.                                                    *)
(* Names beginning with Mut are mistakes no specification uses.            *)
(***************************************************************************)
EXTENDS Forms

\* An entry of a rule's table; the first form is for segments only.
to ::= from == <<Plain(to), Plain(from)>>
to := from == <<to, from>>
By(table, l) == {e[1] : e \in {d \in table : d[2] = l}}

\* What First makes of some beginning of the list and Second of the rest.
InTurn(l, First(_), Second(_)) ==
  UNION {UNION {{a \o b : b \in Second(From(l, k + 1))} : a \in First(Upto(l, k))} : k \in 0..Len(l)}
Kept(l, P(_)) == IF P(l) THEN {l} ELSE {}

\* Some stretch of the form with the right surroundings is changed.
Rewrites(f, Before(_), Change(_), After(_)) ==
  UNION {LET i == s[1] j == s[2]
         IN  IF Before(Upto(f, i)) /\ After(From(f, j + 1))
               THEN {Upto(f, i) \o new \o From(f, j + 1) : new \in Change(SubSeq(f, i + 1, j))}
               ELSE {}
         : s \in {t \in (0..Len(f)) \X (0..Len(f)) :
                    t[1] <= t[2] /\ Change(SubSeq(f, t[1] + 1, t[2])) # {}}}

\* The first item is right, and anything goes after it.
AnyFrom(l, First(_)) == l # <<>> /\ First(l[1]) /\ any(Tail(l))
AnyTo(l, End(_)) == l # <<>> /\ End(Last(l)) /\ any(Front(l))
p_consonantAny(l) == AnyFrom(l, p_consonant)
anyEndVowel(l) == AnyTo(l, p_end_vowel)
anyEndConsonant(l) == AnyTo(l, p_end_consonant)
start(l) == l = <<>>

--------------------------------------------------------------------------------
(* Vowel break up: some long vowels of the form, at least one. *)

Halves == [aa |-> "a", ee |-> "e", ii |-> "i", aHaH |-> "aH", eHeH |-> "eH", iHiH |-> "iH",
           oHoH |-> "oH", aHNaHN |-> "aHN", eHNeHN |-> "eHN", iHNiHN |-> "iHN"]

BrokenUp(f, where) ==
  FlattenSeq([k \in DOMAIN f |-> IF k \in where THEN Plain(<<Halves[f[k].name], Halves[f[k].name]>>)
                                                ELSE <<f[k]>>])
p_longVowelBreakup(f) ==
  LET long == {k \in DOMAIN f : ~ compound(f[k]) /\ f[k].name \in DOMAIN Halves}
  IN  IF any(f) THEN {BrokenUp(f, where) : where \in SUBSET long \ {{}}} ELSE {}

--------------------------------------------------------------------------------
(* Structural rules. *)

p_ruleStr1(f) ==
  Rewrites(f, any, LAMBDA l : By({SlotOf("conjunct", <<"y">>) := Plain(<<"y", "y">>)}, l), any)

p_ruleStr2(f) == Rewrites(f, start, LAMBDA l : By({<<"peg">> ::= <<"y", "i">>}, l), any)

Stranded == {<<"i">> ::= <<"y", "i">>, <<"ii">> ::= <<"y", "ii">>,
             <<"o">> ::= <<"w", "o">>, <<"oo">> ::= <<"w", "oo">>}
p_ruleStr3(f) == Rewrites(f, start, LAMBDA l : By(Stranded, l), any)

Interchanged == {SlotOf("conjunct", <<"j">>) \o Plain(<<"y">>) := Plain(<<"y", "j">>),
                 SlotOf("conjunct", <<"y">>) \o Plain(<<"y">>) := Plain(<<"y">>)}
p_ruleStr5(f) == Rewrites(f, any, LAMBDA l : By(Interchanged, l), any)

p_ruleStr7(f) ==
  Rewrites(f, start, LAMBDA l : By({<<"n", "aHaH", "n", "aH">> ::= <<"n", "aHaH">>}, l), any)

--------------------------------------------------------------------------------
(* Disjunct rules. *)

VowelCluster == {<<"a">> ::= <<"aa">>, <<"iH">> ::= <<"eH">>, <<"i">> ::= <<"ee">>}
\* C vc becomes disjunct(C vc').
Disj1Change(l) ==
  IF Len(l) >= 2 /\ consonants(Front(l))
    THEN {<<Slot("disjunct", Front(l) \o vc)>> : vc \in By(VowelCluster, <<Last(l)>>)} ELSE {}
p_ruleDisj1(f) ==
  Rewrites(f, prefixes, Disj1Change, LAMBDA l : syllable(l) /\ p_consonant(l[1]))

TwoVowels == {<<"a", "i">> ::= <<"e", "i">>, <<"a", "ii">> ::= <<"e", "ii">>,
              <<"aH", "i">> ::= <<"eH", "i">>, <<"aH", "ii">> ::= <<"eH", "ii">>,
              <<"iH", "ii">> ::= <<"iH", "i">>, <<"iH", "o">> ::= <<"iH", "o">>}
Disj2Change(l) ==
  LET n == Len(l) - 2
  IN  IF n >= 1 /\ consonants(Upto(l, n))
        THEN {<<Slot("disjunct", Upto(l, n) \o <<vv[1]>>), vv[2]>> : vv \in By(TwoVowels, From(l, n + 1))}
        ELSE {}
p_ruleDisj2(f) == Rewrites(f, prefixOrEmpty, Disj2Change, prefixesStem)

\* ni and niH; before naH any number of them.
Back == {<<"n", "a">> ::= <<"n", "i">>, <<"n", "aH">> ::= <<"n", "iH">>}
RECURSIVE Disj3Repeat(_)
Disj3Repeat(l) == By(Back, l) \cup InTurn(l, LAMBDA c : By(Back, c), Disj3Repeat)
\* What is seen as segments or in its slot already.
OrSlot(slot, names) == {SlotOf(slot, names) := Plain(names), SlotOf(slot, names) := SlotOf(slot, names)}
Same(names) == names ::= names
Disj3Following ==
  OrSlot("conjunct", <<"j">>) \cup OrSlot("disjunct", <<"d", "a">>) \cup OrSlot("conjunct", <<"d">>)
  \cup UNION {OrSlot("subject", s) :
                s \in {<<"s", "eH">>, <<"s", "ii", "d">>, <<"s", "iH", "n", "iH">>, <<"s", "oo">>,
                       <<"s", "i", "s">>, <<"s", "oo", "h">>}}
  \cup {Same(s) : s \in {<<"zh", "d">>, <<"xG", "d">>, <<"zhxG", "d">>, <<"n", "aHaH">>,
                         <<"n", "aHaH", "n", "aH">>, <<"n", "aH">>, <<"sh", "i", "sh">>,
                         <<"s", "iH">>, <<"s", "ii", "d">>, <<"s", "o", "h">>}}
Disj3Change(l) ==
  {<<Slot("disjunct", r)>> : r \in By(Back, l)
     \cup InTurn(l, Disj3Repeat, LAMBDA last : By({Same(<<"n", "aH">>)}, last))}
p_ruleDisj3(f) ==
  Rewrites(f, any, LAMBDA l : InTurn(l, Disj3Change, LAMBDA following : By(Disj3Following, following)),
           prefixesStem)

\* The short vowel each long one is read as; of a slot its first vowel counts.
Short == [aHaH |-> "a", aHNaHN |-> "a", aa |-> "a", a |-> "a",
          eHeH |-> "e", eHNeHN |-> "e", ee |-> "e", e |-> "e",
          iHiH |-> "i", iHNiHN |-> "i", ii |-> "i", i |-> "i",
          oHoH |-> "o", oHNoHN |-> "o", oo |-> "o", o |-> "o"]
ShortOf(v, x) ==
  LET name == IF compound(x) THEN x.list[1].name ELSE x.name
  IN  p_vowel(x) /\ name \in DOMAIN Short /\ v = Segment(Short[name])

xGa == SlotOf("disjunct", <<"xG", "a">>)
Disj4Table ==
  {xGa \o Plain(<<v>>) := Plain(<<"xG", v>>) : v \in {"ii", "o", "oo"}}
  \cup {<<"xG", "a", "iHiH">> ::= <<"xG", "iHiH">>,
        <<"xG", "a", "iHiH", "n", "iH">> ::= <<"xG", "iHiH", "n", "iH">>,
        <<"xG", "a", "ee">> ::= <<"xG", "ee">>,
        <<"xG", "a", "xG", "a">> ::= <<"xG", "e", "xG", "e">>,
        <<"xG", "a", "xG", "iH">> ::= <<"xG", "i", "xG", "iH">>}
\* The entries that end before a consonant.
Disj4BeforeConsonant ==
  {xGa := Plain(<<"xG", "ii">>),
   xGa \o SlotOf("conjunct", <<"y">>) := Plain(<<"xG", "ii">>),
   <<"xG", "a", "xG">> ::= <<"xG", "i", "xG">>,
   <<"xG", "a", "zh", "xG">> ::= <<"xG", "i", "zh", "xG">>}
Disj4Vowel(l) ==
  IF Len(l) = 4 /\ l[1] = Segment("xG") /\ l[3] = Segment("xG") /\ ShortOf(l[2], l[4])
    THEN {<<l[1], Segment("a"), l[3], l[4]>>} ELSE {}
p_ruleDisj4(f) ==
  Rewrites(f, any, LAMBDA l : By(Disj4Table, l) \cup Disj4Vowel(l), any)
  \cup Rewrites(f, any, LAMBDA l : By(Disj4BeforeConsonant, l), p_consonantAny)

--------------------------------------------------------------------------------
(* Subject rules. *)

\* Entries whose right side is one segment, any of several.
Each(pairs) == {<<p[1]>> ::= <<p[2]>> : p \in pairs}

DEffect == Each({<<"z", "dz">>, <<"zh", "j">>, <<"gh", "g">>, <<"w", "g">>, <<"y", "g">>,
                 <<"l", "dl">>, <<"xG", "txG">>})
           \cup {<<c>> ::= <<"xG", c>> : c \in {"w", "y", "m", "n"}}
p_deffect_initials(l) ==
  By(DEffect, l) \cup Kept(l, LAMBDA c : Len(c) = 1 /\ p_consonant(c[1]))
Subj1_1dpl(l) ==
  By({SlotOf("subject", <<"ii", "d">>) := Plain(<<"ii">>), <<"ee", "d">> ::= <<"ee">>}, l)
  \cup (IF Len(l) = 2 /\ consonant(l[1]) /\ l[2] = Segment("ii")
          THEN {<<Slot("subject", <<l[1]>> \o Plain(<<"ii", "d">>))>>} ELSE {})
p_ruleSubj1(f) ==
  Rewrites(f, prefixes, LAMBDA l : InTurn(l, Subj1_1dpl, p_deffect_initials), stemAfterInitial)

\* subject(V C) of optional vowels and what Change makes of the consonant after them.
SubjectOf(l, Change(_)) ==
  {<<Slot("subject", s)>> :
     s \in Change(l) \cup InTurn(l, LAMBDA v : Kept(v, vowels), Change)}
MutClassifier(c) == SlotOf("class", <<c>>)
Classifier(c) == SlotOf("classifier", <<c>>)

p_ruleSubj2(f) ==
  LET subject(l) == SubjectOf(l, LAMBDA c : Kept(c, LAMBDA d : d \in {Plain(<<"s">>), Plain(<<"sh">>)}))
  IN  Rewrites(f, prefixes, LAMBDA l : {s \o Classifier(c) : s \in subject(l), c \in {"l", "lB"}}, p_stem)

Subj3_1dpl == {SlotOf("subject", <<"ii", "d">>) := d :
                 d \in {Plain(<<"ii">>), Plain(<<"ii", "d">>), SlotOf("subject", <<"ii", "d">>)}}
              \cup {SlotOf("subject", <<"ee", "d">>) := Plain(<<"ee">>)}
MutSubj3_llB == {Classifier("l") := <<>>, Classifier("l") := Plain(<<"l">>)}
Subj3_llB == {Classifier("l") := <<>>, Classifier("lB") := Plain(<<"l">>)}
p_ruleSubj3(f) ==
  Rewrites(f, prefixes,
           LAMBDA l : InTurn(l, LAMBDA s : By(Subj3_1dpl, s), LAMBDA c : By(Subj3_llB, c)), p_stem)

Subj4_2dpl == {SlotOf("subject", <<o, "h">>) := Plain(<<o>>) : o \in {"oo", "o", "oH"}}
Subj4_llB == {Classifier("lB") := Plain(<<"lB">>), Classifier("lB") := Classifier("lB"),
              Classifier("l") := Plain(<<"lB">>), Classifier("l") := Classifier("l")}
p_ruleSubj4(f) ==
  Rewrites(f, prefixes,
           LAMBDA l : InTurn(l, LAMBDA s : By(Subj4_2dpl, s), LAMBDA c : By(Subj4_llB, c)), p_stem)

High == {"aH", "iH", "eH", "oH", "aHaH", "iHiH", "eHeH", "oHoH", "aHN", "iHN", "eHN", "oHN",
         "aHNaHN", "iHNiHN", "eHNeHN", "oHNoHN"}
LowOfHigh == Each({<<"a", "aH">>, <<"i", "iH">>, <<"e", "eH">>, <<"o", "oH">>,
                   <<"aa", "aHaH">>, <<"ii", "iHiH">>, <<"oo", "oHoH">>, <<"ee", "eHeH">>,
                   <<"aN", "aHN">>, <<"iN", "iHN">>, <<"eN", "eHN">>, <<"oN", "oHN">>,
                   <<"aNaN", "aHNaHN">>, <<"iNiN", "iHNiHN">>, <<"oNoN", "oHNoHN">>,
                   <<"eNeN", "eHNeHN">>})
p_ruleSubj5(f) ==
  LET highConsonants(l) == /\ l # <<>> /\ l[1] \in {Segment(v) : v \in High}
                           /\ consonants(Tail(l))
      consonantsStem(l) == Then(l, consonants, p_stem)
  IN  Rewrites(f, LAMBDA l : Then(l, any, highConsonants), LAMBDA l : By(LowOfHigh, l), consonantsStem)

Assimilated == Each({<<"sh", "s">>, <<"zh", "z">>, <<"s", "sh">>, <<"z", "zh">>})
p_ruleSubj6(f) ==
  Rewrites(f, any, LAMBDA l : SubjectOf(l, LAMBDA c : By(Assimilated, c)), anyStem)

VoicedFricatives == {<<"l", "lB">>, <<"y", "h">>, <<"w", "h">>, <<"gh", "h">>}
Sibilants == {<<"z", "s">>, <<"zh", "sh">>}
p_ruleSubj7(f) ==
  Rewrites(f, LAMBDA l : Then(l, prefixes, LAMBDA s : s \in {Plain(<<c>>) : c \in {"s", "z", "sh"}}),
           LAMBDA l : By(Each(VoicedFricatives \cup Sibilants), l), stemAfterInitial)

BarredL == {Classifier("lB") := Plain(<<"lB">>), Classifier("lB") := Classifier("lB")}
p_ruleSubj8(f) ==
  Rewrites(f, any, LAMBDA l : {Classifier("lB") \o s : s \in By(Each(Sibilants), l)}, stemAfterInitial)
  \cup Rewrites(f, any, LAMBDA l : InTurn(l, LAMBDA c : By(BarredL, c),
                                          LAMBDA v : By(Each(VoicedFricatives), v)), stemAfterInitial)

--------------------------------------------------------------------------------
(* Conjunct rules. *)

\* A slot of that name already is not wrapped again.
create_predicate(pred, l) ==
  IF Len(l) = 1 /\ compound(l[1]) /\ l[1].name = pred THEN l ELSE <<Slot(pred, l)>>

\* Conjunct prefixes, each with the i inserted after it.
Conj1Conjunct(l) ==
  /\ Last(l) = Segment("i")
  /\ \/ consonants(Front(l))
     \/ /\ Len(l) >= 2 /\ p_consonant(Last(Front(l)))
        /\ consonantsVowels(Front(Front(l)))
RECURSIVE Conj1Condition(_)
Conj1Condition(l) ==
  LET one(c) == IF c # <<>> /\ Conj1Conjunct(c) THEN {create_predicate("conjunct", Front(c))} ELSE {}
  IN  one(l) \cup InTurn(l, one, Conj1Condition)
p_ruleConj1(f) == Rewrites(f, any, Conj1Condition, p_consonantAny)

p_ruleConj2(f) ==
  Rewrites(f, anyEndVowel, LAMBDA l : By({SlotOf("conjunct", <<"y">>) := Plain(<<"i">>)}, l), p_consonantAny)
  \cup Rewrites(f, anyEndConsonant,
                LAMBDA l : By({SlotOf("conjunct", <<"y">>) := Plain(<<"ii">>)}, l), p_consonantAny)

p_ruleConj3(f) ==
  Rewrites(f, LAMBDA l : AnyTo(l, p_consonant), LAMBDA l : By({<<"n", "i">> ::= <<"iH">>}, l), any)

Conj4Change == Each({<<"sh", "s">>, <<"zh", "z">>, <<"j", "dz">>,
                     <<"s", "sh">>, <<"z", "zh">>, <<"dz", "j">>})
p_ruleConj4(f) == Rewrites(f, any, LAMBDA l : By(Conj4Change, l), any)

Conj5Table == {<<"xG", "y">> ::= <<"xG", "i", "y">>, <<"xG", "j">> ::= <<"zh", "xG">>}
p_ruleConj5(f) ==
  Rewrites(f, any, LAMBDA l : By(Conj5Table, l), any)
  \cup Rewrites(f, any, LAMBDA l : By({<<"xG">> ::= <<"xG", "a">>}, l), p_consonantAny)
  \cup Rewrites(f, LAMBDA l : AnyTo(l, p_vowel),
                LAMBDA l : IF Len(l) = 2 /\ p_consonant(l[1]) /\ l[2] = Segment("xG")
                             THEN {<<l[2], l[1]>>} ELSE {}, p_consonantAny)

Conj6Table ==
  {<<"h", "oo", "z">> ::= <<"h", "a", "z">>, <<"h", "oo", "s">> ::= <<"h", "a", "s">>,
   <<"h", "w", "n", "i">> ::= <<"h", "oH">>, <<"h", "w", "iHiH">> ::= <<"h", "w", "oHoH">>,
   <<"h", "w", "ee", "sh">> ::= <<"h", "oo", "sh">>, <<"h", "w", "iH">> ::= <<"h", "oH">>,
   <<"h", "w", "ii", "sh">> ::= <<"h", "oo", "sh">>, <<"h", "w", "ii">> ::= <<"h", "oo">>}
  \cup {<<"h", "w", v>> ::= <<"h", v>> : v \in {"a", "aa", "o", "oo"}}
p_ruleConj6(f) ==
  Rewrites(f, any, LAMBDA l : By(Conj6Table, l), any)
  \cup Rewrites(f, any, LAMBDA l : By({<<"h", "w">> ::= <<"h", v>> : v \in {"a", "o"}}, l), p_consonantAny)

Conj7Table == {<<"j", "i">> ::= <<"zh">>, <<"xG", "j">> ::= <<"zh", "xG">>,
               <<"j", "d", "d">> ::= <<"d", "j", "d">>}
p_ruleConj7(f) ==
  Rewrites(f, any, LAMBDA l : By(Conj7Table, l), any)
  \cup Rewrites(f, anyEndVowel, LAMBDA l : By({<<"j">> ::= <<"zh">>}, l), p_consonantAny)

HighTone == {<<"aa">> ::= <<"aH", "a">>, <<"ii">> ::= <<"iH", "i">>, <<"ee">> ::= <<"eH", "e">>,
             <<"oo">> ::= <<"oH", "o">>, <<"a">> ::= <<"aH">>, <<"i">> ::= <<"iH">>,
             <<"e">> ::= <<"eH">>, <<"o">> ::= <<"oH">>}
p_ruleConj8(f) ==
  LET conjunct(l, End(_)) ==
        IF l # <<>> /\ prefix(l) /\ End(Last(l)) THEN {create_predicate("conjunct", l)} ELSE {}
      change(l) == By(HighTone, l)
      keptConsonants(l) == Kept(l, LAMBDA c : c = <<>> \/ consonants(c))
      \* The consonants after the vowel stay, and so does the rest.
      syllableVowel(l) == InTurn(l, keptConsonants, change)
      consonantSyllable(l) ==
        IF l # <<>> /\ p_consonant(l[1]) THEN {<<l[1]>> \o r : r \in syllableVowel(Tail(l))} ELSE {}
      vowelSyllable(l) == InTurn(l, LAMBDA v : IF v = <<>> THEN {v} ELSE change(v), consonantSyllable)
  IN  Rewrites(f, any, LAMBDA l : InTurn(l, LAMBDA c : conjunct(c, p_end_consonant), vowelSyllable), any)
      \cup Rewrites(f, any, LAMBDA l : InTurn(l, LAMBDA c : conjunct(c, consonant), change), any)

--------------------------------------------------------------------------------
(* Contracted prefixes and P-mode subjects. *)

\* The ways n, d before the subject z, s of the third person is seen.
Contracted(n, z) ==
  {Plain(<<n, z>>) := l :
     l \in {Plain(<<n, "ee", z>>), Plain(<<n>>) \o SlotOf("subject", <<"ee", z>>),
            Plain(<<n, "ee">>) \o SlotOf("subject", <<z>>),
            SlotOf("conjunct", <<n>>) \o Plain(<<"ee">>) \o SlotOf("subject", <<z>>),
            SlotOf("conjunct", <<n>>) \o Plain(<<"ee", z>>)}}
ContractedTable ==
  UNION {Contracted(n, "z") \cup Contracted(n, "s")
         \cup {<<n, "s", "eH">> ::= <<n, "eH">>,
               <<n, "s", "iH", "n", "iH">> ::= <<n, "iH", "n", "iH">>,
               <<n, "s", "ii", "d">> ::= <<n, "ee", "d">>,
               Plain(<<n, "s", "ii", "d">>) := Plain(<<n>>) \o SlotOf("subject", <<"ee", "d">>),
               <<n, "s", "i", "s">> ::= <<n, "eH", "sh">>} : n \in {"n", "d"}}
  \cup {<<"n", "s", "oo">> ::= <<"n", "oo">>, <<"n", "s", "oo">> ::= <<"s", "i", "n", "oo">>,
        <<"n", "s", "oo", "h">> ::= <<"n", "oo", "h">>,
        <<"n", "s", "oo", "h">> ::= <<"s", "i", "n", "oo">>,
        <<"d", "s", "ii", "d">> ::= <<"d", "i", "s", "ii", "d">>,
        <<"d", "s", "oo">> ::= <<"d", "i", "s", "oo">>,
        <<"d", "s", "oo", "h">> ::= <<"d", "i", "s", "oo", "h">>}
p_contractedPrefixes(f) == Rewrites(f, any, LAMBDA l : By(ContractedTable, l), any)

\* Before the subject stands the vowel it has merged with.
Merged(v, subject, seen) == Plain(<<v>>) \o SlotOf("subject", subject) := Plain(seen)
PmodeTable ==
  {Merged("a", <<"aHaH">>, <<"aHaH">>), Merged("e", <<"eHeH">>, <<"eHeH">>),
   Merged("i", <<"iHiH">>, <<"iHiH">>), Merged("o", <<"oHoH">>, <<"oHoH">>),
   Merged("i", <<"iH", "iH", "n", "iH">>, <<"iHiH", "n", "iH">>),
   Merged("a", <<"aa", "sh">>, <<"aa", "sh">>), Merged("e", <<"ee", "sh">>, <<"ee", "sh">>),
   Merged("i", <<"ii", "sh">>, <<"ii", "sh">>), Merged("o", <<"oo", "sh">>, <<"oo", "sh">>)}
  \cup {LET s == <<v[2], "iH", "n", "iH">> IN Merged(v[1], s, s) :
          v \in {<<"a", "aH">>, <<"e", "eH">>, <<"i", "iH">>, <<"o", "oH">>}}
\* The cut after aa,sh keeps these from being tried before sh.
PmodeLong == {Merged("a", <<"aa">>, <<"aa">>), Merged("e", <<"ee">>, <<"ee">>),
              Merged("i", <<"ii">>, <<"ii">>), Merged("o", <<"oo">>, <<"oo">>)}
notBeforeSh(l) == any(l) /\ (l # <<>> => l[1] # Segment("sh"))
p_specialPmodeSubject(f) ==
  Rewrites(f, any, LAMBDA l : By(PmodeTable, l), any)
  \cup Rewrites(f, any, LAMBDA l : By(PmodeLong, l), notBeforeSh)

--------------------------------------------------------------------------------
\* The rules in the order p_verb/2 lists them.
RuleNames ==
  <<"longVowelBreakup", "Str1", "Str2", "Str3", "Str5", "Str7", "Disj2", "Conj8", "Subj5", "Subj1",
    "Subj2", "Subj4", "Subj3", "Subj6", "Subj8", "Subj7", "Conj1", "Disj4", "Conj5", "Conj2",
    "Conj4", "Disj1", "Disj3", "Conj3", "Conj6", "Conj7", "contractedPrefixes", "specialPmodeSubject">>

apply(rule, f) ==
  CASE rule = "longVowelBreakup" -> p_longVowelBreakup(f)
    [] rule = "Str1" -> p_ruleStr1(f) [] rule = "Str2" -> p_ruleStr2(f)
    [] rule = "Str3" -> p_ruleStr3(f) [] rule = "Str5" -> p_ruleStr5(f)
    [] rule = "Str7" -> p_ruleStr7(f)
    [] rule = "Disj1" -> p_ruleDisj1(f) [] rule = "Disj2" -> p_ruleDisj2(f)
    [] rule = "Disj3" -> p_ruleDisj3(f) [] rule = "Disj4" -> p_ruleDisj4(f)
    [] rule = "Subj1" -> p_ruleSubj1(f) [] rule = "Subj2" -> p_ruleSubj2(f)
    [] rule = "Subj3" -> p_ruleSubj3(f) [] rule = "Subj4" -> p_ruleSubj4(f)
    [] rule = "Subj5" -> p_ruleSubj5(f) [] rule = "Subj6" -> p_ruleSubj6(f)
    [] rule = "Subj7" -> p_ruleSubj7(f) [] rule = "Subj8" -> p_ruleSubj8(f)
    [] rule = "Conj1" -> p_ruleConj1(f) [] rule = "Conj2" -> p_ruleConj2(f)
    [] rule = "Conj3" -> p_ruleConj3(f) [] rule = "Conj4" -> p_ruleConj4(f)
    [] rule = "Conj5" -> p_ruleConj5(f) [] rule = "Conj6" -> p_ruleConj6(f)
    [] rule = "Conj7" -> p_ruleConj7(f) [] rule = "Conj8" -> p_ruleConj8(f)
    [] rule = "contractedPrefixes" -> p_contractedPrefixes(f)
    [] rule = "specialPmodeSubject" -> p_specialPmodeSubject(f)
================================================================================
