----------------------------- MODULE MCVerbAnalysis -----------------------------
(***************************************************************************)
(* Eleven of the stems of stems.P: the intransitive ones with all their      *)
(* verbs, the transitive ones with three of their objects.                 *)
(***************************************************************************)
EXTENDS VerbAnalysis

Stem(trans, out, in, ob, m, conj, cls, text, asp, gloss) ==
  [transitivity |-> trans, outer |-> out, inner |-> in, object |-> ob, mode |-> m, conjugation |-> conj,
   classifier |-> cls, text |-> text, aspect |-> asp, english |-> gloss]

MCLexicon ==
  {Stem("intrans", <<>>, <<>>, <<>>, "i", "simple", "zero", <<"ch", "a">>, "durative", "cry"),
   Stem("intrans", <<>>, <<>>, <<"xG">>, "i", "simple", "plainl", <<"zh", "i", "sh">>, "repetitive", "dance"),
   Stem("intrans", <<>>, <<>>, <<"h", "w">>, "i", "simple", "zero", <<"t", "aa", "lB">>, "durative", "sing"),
   Stem("intrans", <<>>, <<>>, <<>>, "p", "simple", "d", <<"dz", "iHiH", "xG">>, "momentaneous", "remain, survive"),
   Stem("intrans", <<>>, <<"d">>, <<>>, "i", "simple", "plainl", <<"xG", "eHeH", "s">>, "momentaneous", "step"),
   Stem("intrans", <<>>, <<"d">>, <<>>, "f", "simple", "plainl", <<"xG", "i", "s">>, "momentaneous", "step"),
   Stem("intrans", <<"n", "a">>, <<>>, <<>>, "i", "s", "plainl", <<"n", "i", "sh">>, "continuative", "work"),
   Stem("intrans", <<"n", "a">>, <<>>, <<>>, "p", "s", "zero", <<"xG", "aHaH", "zh">>, "continuative", "go (dual)"),
   Stem("intrans", <<"xG", "a">>, <<>>, <<>>, "p", "simple", "zero", <<"xG", "aHaH", "zh">>, "momentaneous", "go off (dual)"),
   Stem("trans", <<>>, <<>>, <<>>, "i", "simple", "barredl", <<"zh", "oHoH", "h">>, "durative", "brush/comb/shell"),
   Stem("trans", <<"n", "a">>, <<>>, <<>>, "p", "s", "zero", <<"l", "aH">>, "continuative", "carry around")}

MCIntended(e, t) ==
  e.transitivity = "trans" =>
    t.outer = e.outer /\ t.distpl = <<>> /\ t.fourth = "_" /\ t.object \in {"three", "threeEmpty", "oneDPL", "unspec"}

\* One verb, of which the analysis does not find the classifier again.
MCCarryOut ==
  {Stem("trans", <<"ch", "xG", "iH">>, <<>>, <<>>, "p", "n", "barredl", <<"t", "iHN">>, "momentaneous", "carry out")}
MCICarryThemOut(e, t) ==
  /\ t.outer = e.outer /\ t.distpl = <<"d", "a">> /\ t.object = "three" /\ t.fourth = "_" /\ t.subject = "oneSG"
================================================================================
