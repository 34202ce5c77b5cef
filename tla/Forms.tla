--------------------------------- MODULE Forms ---------------------------------
(***************************************************************************)
(* The forms of rules.P and the nonterminals its rules are written with.   *)
(*                                                                         *)
(* A form is a list of items.  An item is a segment, the atom peg, or a    *)
(* slot: a compound term such as subject([ee,s]), with a list of items     *)
(* that is never empty.  A nonterminal is the set of the lists it spans;   *)
(* all of these return the very items they span.                           *)
(***************************************************************************)
EXTENDS Naturals, Sequences, SequencesExt

Consonants == {"ch", "dl", "dz", "ts", "zh", "sh", "gh", "tlB", "chxG", "kxG", "txG", "tlBxG",
               "tsxG", "xG", "lB", "b", "d", "g", "h", "j", "k", "l", "w", "x", "y", "z", "m",
               "n", "s", "t"}
Vowels == {"aHNaHN", "eHNeHN", "iHNiHN", "oHNoHN", "aHaH", "eHeH", "iHiH", "oHoH", "aNaN",
           "eNeN", "iNiN", "oNoN", "aa", "ee", "ii", "oo", "aHN", "eHN", "iHN", "oHN", "aH",
           "eH", "iH", "oH", "aN", "eN", "iN", "oN", "a", "e", "i", "o", "eiH", "aiH", "eiHiH",
           "aiHiH", "ei", "eii", "ai", "aii"}

Segment(s) == [name |-> s, list |-> <<>>]
Slot(f, l) == [name |-> f, list |-> l]
\* The list of the segments of that name, [n,ee,s] for <<"n","ee","s">>.
Plain(names) == [k \in DOMAIN names |-> Segment(names[k])]
\* [subject([ee,s])]
SlotOf(f, names) == <<Slot(f, Plain(names))>>

compound(x) == x.list # <<>>
consonant(x) == ~ compound(x) /\ x.name \in Consonants
vowel(x) == ~ compound(x) /\ x.name \in Vowels

Upto(l, k) == SubSeq(l, 1, k)
From(l, k) == SubSeq(l, k, Len(l))

\* A segment, or a slot with nothing but such items in its list.
RECURSIVE Consonantal(_), Vocalic(_)
Consonantal(x) == consonant(x) \/ (compound(x) /\ \A k \in DOMAIN x.list : Consonantal(x.list[k]))
Vocalic(x) == vowel(x) \/ (compound(x) /\ \A k \in DOMAIN x.list : Vocalic(x.list[k]))

p_consonant(x) == consonant(x) \/ (compound(x) /\ consonant(x.list[1]))
p_end_consonant(x) == consonant(x) \/ (compound(x) /\ consonant(Last(x.list)))
p_vowel(x) == vowel(x) \/ (compound(x) /\ vowel(x.list[1]))
p_end_vowel(x) == vowel(x) \/ (compound(x) /\ vowel(Last(x.list)))

consonants(l) == l # <<>> /\ \A k \in DOMAIN l : Consonantal(l[k])
vowels(l) == l # <<>> /\ \A k \in DOMAIN l : Vocalic(l[k])
\* Anything but the atom peg.
any(l) == \A k \in DOMAIN l : compound(l[k]) \/ consonant(l[k]) \/ vowel(l[k])

\* First and Second one after the other.
Then(l, First(_), Second(_)) ==
  \E k \in 0..Len(l) : First(SubSeq(l, 1, k)) /\ Second(SubSeq(l, k + 1, Len(l)))

consonantsVowels(l) == Then(l, consonants, vowels)
vowelsConsonants(l) == Then(l, vowels, consonants)
consonantsVowelsConsonants(l) == Then(l, consonants, vowelsConsonants)

prefix(l) ==
  \/ Len(l) = 1 /\ (compound(l[1]) \/ l[1] = Segment("peg"))
  \/ consonants(l) \/ consonantsVowels(l) \/ vowelsConsonants(l)

prefixOrEmpty(l) == l = <<>> \/ prefix(l)

\* Any number of prefixes: some end of a prefix is reached at every place passed.
prefixes(l) ==
  LET reached[k \in 0..Len(l)] ==
        k = 0 \/ \E j \in 0..k - 1 : reached[j] /\ prefix(SubSeq(l, j + 1, k))
  IN  reached[Len(l)]

syllable(l) == consonantsVowels(l) \/ vowelsConsonants(l) \/ consonantsVowelsConsonants(l)
p_stem(l) == consonantsVowels(l) \/ consonantsVowelsConsonants(l)
p_stemrest(l) == l = <<>> \/ consonants(l)
\* What is left of a stem when its first consonants are looked at by the rule.
stemAfterInitial(l) == Then(l, vowels, p_stemrest)
prefixesStem(l) == Then(l, prefixes, p_stem)
anyStem(l) == Then(l, any, p_stem)

\* What any nonterminal but prefix and verb//1 takes for an item of a form.
RECURSIVE IsItem(_)
IsItem(x) ==
  IF compound(x)
    THEN x.name \in {"disjunct", "conjunct", "subject", "classifier"}
         /\ \A k \in DOMAIN x.list : IsItem(x.list[k])
    ELSE x.name \in Consonants \cup Vowels \cup {"peg"}
================================================================================
