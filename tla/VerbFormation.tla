----------------------------- MODULE VerbFormation -----------------------------
(***************************************************************************)
(* How a verb comes to sound as it does, the process the analysis runs     *)
(* backwards: each operator is the change of the language that the comment *)
(* above the rule of its name in rules.P describes.  The speaker is no     *)
(* part of the program.                                                    *)
(*                                                                         *)
(* A verb is formed as a record of its prefixes: disj the disjunct ones    *)
(* together, conj the list of the conjunct ones, the subject, classifier   *)
(* and stem, each a list of names; peg once the peg yi stands before it.   *)
(***************************************************************************)
EXTENDS PhonologyRules

Spoken(v) == (IF v.peg THEN <<"y", "i">> ELSE <<>>)
             \o v.disj \o FlattenSeq(v.conj) \o v.subj \o v.cls \o v.stem

Con(l) == l # <<>> /\ Head(l) \in Consonants
Vow(l) == l # <<>> /\ Head(l) \in Vowels
EndCon(l) == l # <<>> /\ Last(l) \in Consonants
EndVow(l) == l # <<>> /\ Last(l) \in Vowels
Has(l, names) == \E k \in DOMAIN l : l[k] \in names
\* What stands before and after the conjunct prefix at place k.
Preceding(v, k) == v.disj \o FlattenSeq(Upto(v.conj, k - 1))
Following(v, k) == FlattenSeq(From(v.conj, k + 1)) \o v.subj \o v.cls \o v.stem
\* Nothing that has or will get a vowel between the disjunct prefix and the stem.
PreStem(v) == v.conj = <<>> /\ ~ Has(v.subj \o v.cls, Vowels)
Respelt(table, name) == IF \E p \in table : p[1] = name THEN (CHOOSE p \in table : p[1] = name)[2] ELSE name
\* The last of its list, the first of its list, in other words.
Relast(l, names) == Front(l) \o names
Refirst(l, names) == names \o Tail(l)

\* A P-mode subject takes the place of the vowel it doubles.
Doubling == {<<"a", "aH">>, <<"i", "iH">>, <<"e", "eH">>, <<"o", "oH">>}
            \cup {<<Short[v], v>> : v \in DOMAIN Short \ {"a", "e", "i", "o"}}
specialPmodeSubject(v) ==
  IF v.conj = <<>> /\ EndVow(v.disj) /\ v.subj # <<>> /\ <<Last(v.disj), Head(v.subj)>> \in Doubling
    THEN [v EXCEPT !.disj = Front(@)] ELSE v

\* hw before the vowels it swallows its w in.
Conj6(v) ==
  IF v.conj # <<>> /\ Last(v.conj) = <<"h", "w">>
    THEN IF Con(Following(v, Len(v.conj)))
           THEN IF v.subj = <<"n", "i">>
                  THEN [v EXCEPT !.conj[Len(v.conj)] = <<"h">>, !.subj = <<"oH">>]
                  ELSE [v EXCEPT !.conj[Len(v.conj)] = <<"h", IF Has(v.subj, Vowels) THEN "o" ELSE "a">>]
           ELSE IF v.subj = <<"iHiH">> THEN [v EXCEPT !.subj = <<"oHoH">>]
           ELSE IF v.subj = <<"ee", "sh">> THEN [v EXCEPT !.conj[Len(v.conj)] = <<"h">>, !.subj = <<"oo", "sh">>]
           ELSE IF Vow(v.subj) /\ Head(v.subj) \in {"a", "aa", "o", "oo"}
                  THEN [v EXCEPT !.conj[Len(v.conj)] = <<"h">>]
           ELSE v
    ELSE v

Conj7(v) ==
  LET k == CHOOSE j \in DOMAIN v.conj : v.conj[j] = <<"j">>
  IN  IF \E j \in DOMAIN v.conj : v.conj[j] = <<"j">>
        THEN IF EndVow(Preceding(v, k)) /\ Con(Following(v, k)) /\ Vow(Tail(Following(v, k))) THEN [v EXCEPT !.conj[k] = <<"zh">>]
             ELSE v
        ELSE v

Conj3(v) ==
  IF v.conj # <<>> /\ EndCon(Last(v.conj)) /\ v.subj = <<"n", "i">>
    THEN [v EXCEPT !.subj = <<"iH">>] ELSE v

sPSubjects == {<<"s", "eH">>, <<"s", "ii", "d">>, <<"s", "iH", "n", "iH">>, <<"s", "oo">>, <<"s", "i", "s">>,
               <<"s", "oo", "h">>}
Disj3(v) ==
  LET raised(l) == Relast(l, <<Respelt({<<"a", "i">>, <<"aH", "iH">>}, Last(l))>>)
      n(l) == Len(l) >= 2 /\ l[Len(l) - 1] = "n"
      da == Len(v.disj) > 2 /\ From(v.disj, Len(v.disj) - 1) = <<"d", "a">>
  IN  IF da /\ n(Front(Front(v.disj)))
        THEN [v EXCEPT !.disj = raised(Front(Front(v.disj))) \o <<"d", "a">>]
      ELSE IF n(v.disj) /\ \/ v.conj # <<>> /\ Head(Head(v.conj)) \in {"j", "d"}
                           \/ v.conj # <<>> /\ Head(v.conj) = <<"zh">> /\ Len(v.conj) > 1 /\ v.conj[2] = <<"d">>
                           \/ v.conj = <<>> /\ v.subj \in sPSubjects
        THEN [v EXCEPT !.disj = raised(v.disj)]
      ELSE v

Disj1(v) ==
  IF EndVow(v.disj) /\ PreStem(v) /\ ~ Has(<<Last(v.disj)>>, {"aH"})
    THEN [v EXCEPT !.disj = Relast(@, <<Respelt({<<"a", "aa">>, <<"iH", "eH">>, <<"i", "ee">>}, Last(@))>>)]
    ELSE v

Hissing == {"s", "z", "dz", "ts", "tsxG"}
Hushing == {"sh", "zh", "j", "ch", "chxG"}
Hushed == {<<"s", "sh">>, <<"z", "zh">>, <<"dz", "j">>}
Hissed == {<<p[2], p[1]>> : p \in Hushed}
\* Toward the sibilants of what follows.
Harmonised(l, following) ==
  LET table == IF Has(following, Hissing) THEN Hissed ELSE IF Has(following, Hushing) THEN Hushed ELSE {}
  IN  [k \in DOMAIN l |-> Respelt(table, l[k])]
Conj4(v) == [v EXCEPT !.conj = [k \in DOMAIN v.conj |-> Harmonised(v.conj[k], v.stem)]]
Subj6(v) == [v EXCEPT !.subj = Harmonised(@, v.stem)]

Conj2(v) ==
  LET y(k) == /\ v.conj[k] = <<"y">> /\ Con(Following(v, k)) /\ Preceding(v, k) # <<>>
              /\ ~ (k < Len(v.conj) /\ v.conj[k + 1] = <<"y">>)
  IN  [v EXCEPT !.conj = [k \in DOMAIN v.conj |->
         IF ~ y(k) THEN v.conj[k] ELSE IF EndVow(Preceding(v, k)) THEN <<"i">> ELSE <<"ii">>]]

Disj4(v) ==
  IF Len(v.disj) < 2 \/ From(v.disj, Len(v.disj) - 1) # <<"xG", "a">> THEN v
  ELSE IF v.conj = <<>> /\ PreStem(v) THEN [v EXCEPT !.disj = Relast(@, <<"ii">>)]
  ELSE IF v.conj = <<>> /\ Vow(v.subj) /\ Head(v.subj) \in {"ii", "o", "oo"} THEN [v EXCEPT !.disj = Front(@)]
  ELSE IF v.conj # <<>> /\ Head(v.conj) = <<"i">> THEN [v EXCEPT !.disj = Relast(@, <<"ii">>), !.conj = Tail(@)]
  ELSE v

Conj5(v) ==
  LET k == CHOOSE j \in DOMAIN v.conj : v.conj[j] = <<"xG">>
  IN  IF \E j \in DOMAIN v.conj : v.conj[j] = <<"xG">>
        THEN IF k < Len(v.conj) /\ v.conj[k + 1] = <<"y">> THEN [v EXCEPT !.conj[k] = <<"xG", "i">>]
             ELSE IF k < Len(v.conj) /\ v.conj[k + 1] = <<"j">>
               THEN [v EXCEPT !.conj[k] = <<"zh">>, !.conj[k + 1] = <<"xG">>]
             ELSE IF Con(Following(v, k)) THEN [v EXCEPT !.conj[k] = <<"xG", "a">>]
             ELSE v
        ELSE v

Conj1(v) ==
  [v EXCEPT !.conj = [k \in DOMAIN v.conj |->
     IF EndCon(v.conj[k]) /\ Con(Following(v, k)) /\ v.conj[k] # <<"zh">> THEN Append(v.conj[k], "i") ELSE v.conj[k]]]

\* The consonant it is devoiced to.
Devoiced == {<<p[1], p[2]>> : p \in VoicedFricatives \cup Sibilants}
Subj8(v) ==
  LET initial == Head(v.stem)
      sibilant == initial \in {"z", "zh"}
      voiced == \E p \in Devoiced : p[1] = initial
  IN  IF v.cls = <<"lB">> /\ voiced /\ ~ (Len(v.subj) > 0 /\ Last(v.subj) = "d")
        THEN [v EXCEPT !.stem = Refirst(@, <<Respelt(Devoiced, initial)>>), !.cls = IF sibilant THEN <<>> ELSE @]
        ELSE v
Subj7(v) ==
  IF v.cls = <<>> /\ Len(v.subj) > 0 /\ Last(v.subj) \in {"s", "z", "sh"}
    THEN [v EXCEPT !.stem = Refirst(@, <<Respelt(Devoiced, Head(@))>>)] ELSE v

EndsIn(l, name) == Len(l) > 0 /\ Last(l) = name
Subj3(v) ==
  IF EndsIn(v.subj, "d") /\ v.cls \in {<<"l">>, <<"lB">>}
    THEN [v EXCEPT !.subj = Front(@), !.cls = IF @ = <<"lB">> THEN <<"l">> ELSE <<>>] ELSE v
Subj4(v) ==
  IF EndsIn(v.subj, "h") /\ v.cls \in {<<"l">>, <<"lB">>}
    THEN [v EXCEPT !.subj = Front(@), !.cls = <<"lB">>] ELSE v
Subj2(v) ==
  IF (EndsIn(v.subj, "s") \/ EndsIn(v.subj, "sh")) /\ v.cls \in {<<"l">>, <<"lB">>}
    THEN [v EXCEPT !.cls = <<>>] ELSE v

\* What a d before it makes of a stem's first consonant.
DEffected == {<<"z", <<"dz">>>>, <<"zh", <<"j">>>>, <<"gh", <<"g">>>>, <<"w", <<"xG", "w">>>>, <<"y", <<"xG", "y">>>>,
              <<"m", <<"xG", "m">>>>, <<"n", <<"xG", "n">>>>, <<"l", <<"dl">>>>, <<"xG", <<"txG">>>>}
Subj1(v) ==
  IF EndsIn(v.subj, "d") /\ v.cls = <<>>
    THEN [v EXCEPT !.subj = Front(@),
                   !.stem = Refirst(@, Respelt(DEffected \cup {<<c, <<c>>>> : c \in Consonants \ {p[1] : p \in DEffected}}, Head(@)))]
    ELSE v

HighTo == {<<"a", "aH">>, <<"i", "iH">>, <<"e", "eH">>, <<"o", "oH">>,
           <<"aa", "aHaH">>, <<"ii", "iHiH">>, <<"oo", "oHoH">>, <<"ee", "eHeH">>}
\* The vowel of the pre-stem syllable after a syllable that ends with a high tone.
Subj5(v) ==
  LET l == v.disj \o FlattenSeq(v.conj) \o v.subj \o v.cls
      vs == {k \in DOMAIN l : l[k] \in Vowels}
      last == CHOOSE k \in vs : \A j \in vs : j <= k
      before == CHOOSE k \in vs \ {last} : \A j \in vs \ {last} : j <= k
  IN  IF vs # {} /\ vs \ {last} # {} /\ l[before] \in High /\ before + 1 < last
        THEN [v EXCEPT !.disj = <<>>, !.conj = <<>>, !.cls = <<>>,
                       !.subj = [l EXCEPT ![last] = Respelt(HighTo, l[last])]]
        ELSE v

Disj2(v) ==
  LET rest == FlattenSeq(v.conj) \o v.subj \o v.cls \o v.stem
      backed == v.disj[Len(v.disj) - 1] \in {"g", "gh", "h", "k", "kxG"}
      x == Last(v.disj)
  IN  IF Len(v.disj) < 2 \/ ~ Vow(rest) THEN v
      ELSE IF x \in {"a", "aH"} /\ Head(rest) \in {"i", "ii"} /\ ~ (x = "a" /\ backed)
        THEN [v EXCEPT !.disj = Relast(@, <<Respelt({<<"a", "e">>, <<"aH", "eH">>}, x)>>)]
      ELSE IF x = "iH" /\ Vow(v.subj) /\ Head(v.subj) = "ii" /\ v.conj = <<>> THEN [v EXCEPT !.subj[1] = "i"]
      ELSE IF x = "iH" /\ Vow(v.subj) /\ Head(v.subj) = "o" /\ v.conj = <<>>
        THEN [v EXCEPT !.disj = Relast(@, <<"oH">>), !.subj = Tail(@)]
      ELSE v

\* A stranded vowel at the beginning.
Str3(v) ==
  LET all == Spoken(v)
  IN  IF Vow(all) /\ Head(all) \in {"i", "ii", "o", "oo"} /\ v.disj = <<>> /\ v.conj = <<>>
        THEN [v EXCEPT !.disj = <<IF Head(all) \in {"i", "ii"} THEN "y" ELSE "w">>] ELSE v
Str2(v) ==
  IF ~ Has(v.disj \o FlattenSeq(v.conj) \o v.subj \o v.cls, Vowels) THEN [v EXCEPT !.peg = TRUE] ELSE v

\* The order of p_verb/2 backwards.
Changes == <<"specialPmodeSubject", "Conj7", "Conj6", "Conj3", "Disj3", "Disj1", "Conj4", "Conj2", "Conj5", "Disj4",
             "Conj1", "Subj7", "Subj8", "Subj6", "Subj3", "Subj4", "Subj2", "Subj1", "Subj5", "Disj2", "Str3", "Str2">>
change(rule, v) ==
  CASE rule = "specialPmodeSubject" -> specialPmodeSubject(v)
    [] rule = "Conj1" -> Conj1(v) [] rule = "Conj2" -> Conj2(v) [] rule = "Conj3" -> Conj3(v)
    [] rule = "Conj4" -> Conj4(v) [] rule = "Conj5" -> Conj5(v) [] rule = "Conj6" -> Conj6(v)
    [] rule = "Conj7" -> Conj7(v) [] rule = "Disj1" -> Disj1(v) [] rule = "Disj2" -> Disj2(v)
    [] rule = "Disj3" -> Disj3(v) [] rule = "Disj4" -> Disj4(v) [] rule = "Str2" -> Str2(v)
    [] rule = "Str3" -> Str3(v) [] rule = "Subj1" -> Subj1(v) [] rule = "Subj2" -> Subj2(v)
    [] rule = "Subj3" -> Subj3(v) [] rule = "Subj4" -> Subj4(v) [] rule = "Subj5" -> Subj5(v)
    [] rule = "Subj6" -> Subj6(v) [] rule = "Subj7" -> Subj7(v) [] rule = "Subj8" -> Subj8(v)
================================================================================
