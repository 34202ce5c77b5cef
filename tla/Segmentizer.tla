------------------------------ MODULE Segmentizer ------------------------------
(***************************************************************************)
(* perl/Segmentizer.pm and the conversions of perl/Util.pm: how a text of  *)
(* characters is cut into the segments of xml/Segments.xml.                *)
(*                                                                         *)
(* A character is a string: an ASCII character stands for itself, "acute"  *)
(* is U+0301, "hook" U+0345, "barred-l" U+026B, and "junk" is a byte of a  *)
(* UTF-8 sequence that nothing decoded.                                    *)
(***************************************************************************)
EXTENDS Naturals, Sequences, SequencesExt

Vowels == <<"a", "e", "i", "o">>

\* The vowels of one row of Segments.xml, each followed by the marks ms, n times.
Row(ms, n) == [i \in 1..4 |-> FlattenSeq([k \in 1..n |-> <<Vowels[i]>> \o ms])]

VowelSegments ==
  Row(<<"H", "N">>, 2) \o Row(<<"H">>, 2) \o Row(<<"N">>, 2) \o Row(<<>>, 2) \o
  Row(<<"H", "N">>, 1) \o Row(<<"H">>, 1) \o Row(<<"N">>, 1) \o Row(<<>>, 1) \o
  << <<"e", "i", "H">>, <<"a", "i", "H">>,
     <<"e", "i", "H", "i", "H">>, <<"a", "i", "H", "i", "H">>,
     <<"e", "i">>, <<"e", "i", "i">>, <<"a", "i">>, <<"a", "i", "i">> >>

ConsonantSegments ==
  << <<"c", "h">>, <<"d", "l">>, <<"d", "z">>, <<"t", "s">>, <<"z", "h">>, <<"s", "h">>,
     <<"g", "h">>, <<"t", "l", "B">>, <<"c", "h", "x", "G">>, <<"k", "x", "G">>,
     <<"t", "x", "G">>, <<"t", "l", "B", "x", "G">>, <<"t", "s", "x", "G">>, <<"x", "G">>,
     <<"l", "B">> >>
  \o LET single == <<"b", "d", "g", "h", "j", "k", "l", "w", "x", "y", "z", "m", "n", "s", "t">>
     IN  [i \in DOMAIN single |-> <<single[i]>>]

\* parseSegments: the vowels of the file, then its consonants, in file order.
MutSegmentsWithEmptyName == << <<>> >> \o VowelSegments \o ConsonantSegments
MutConsonantsReversed == VowelSegments \o Reverse(ConsonantSegments)
Segments == VowelSegments \o ConsonantSegments

--------------------------------------------------------------------------------
NonAscii == {"acute", "hook", "barred-l"}

\* The body of the request carries some non-ASCII characters as character
\* references (the positions in refs) and the others as UTF-8 bytes.
\* deescapify turns a reference into its character, which makes the string a
\* character string, and convertFromUnicode decodes bytes only when it is none.
Decoded(text, refs) ==
  [i \in DOMAIN text |-> IF text[i] \in NonAscii /\ i \notin refs /\ refs # {}
                           THEN "junk" ELSE text[i]]

\* convertFromUnicode's substitutions.
Ascii(c) == CASE c = "acute"    -> <<"H">>
              [] c = "hook"     -> <<"N">>
              [] c = "barred-l" -> <<"l", "B">>
              [] c = "'"        -> <<"x", "G">>
              [] OTHER          -> <<c>>
Converted(text) == FlattenSeq([i \in DOMAIN text |-> Ascii(text[i])])

--------------------------------------------------------------------------------
\* The segment the for loop of segmentize stops at: the first of the list that
\* the rest of the text begins with; 0 when there is none.
FirstMatch(list, src) ==
  LET matching == {i \in 1..Len(list) : IsPrefix(list[i], src)}
  IN  IF matching = {} THEN 0 ELSE CHOOSE i \in matching : \A j \in matching : i <= j
================================================================================
