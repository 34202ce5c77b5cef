------------------------------- MODULE InputField -------------------------------
(***************************************************************************)
(* charHandle.js: the text field of the query form.  The user types and    *)
(* deletes characters anywhere; Alt-1, Alt-2 and Alt-3 add a barred l, an  *)
(* accent or a nasal hook at the end.  Characters are those of module      *)
(* Segmentizer.                                                            *)
(***************************************************************************)
EXTENDS Naturals, Sequences, FiniteSets, SequencesExt

CONSTANTS Keys,      \* the characters the keyboard types
          MaxText    \* bound: how many characters the field takes

ASSUME InputAssumption == MaxText \in Nat

VARIABLE field

FieldInit == field = <<>>

IsVowel(c) == c \in {"a", "e", "i", "o", "A", "E", "I", "O"}
IsDiacritic(c) == c \in {"acute", "hook"}

\* The diacritics at the end of the text, and the character they stand on.
TrailingMarks(text) == {i \in DOMAIN text : \A k \in i..Len(text) : IsDiacritic(text[k])}
BaseOf(text) == Len(text) - Cardinality(TrailingMarks(text))

\* addChar's okToPlace for a diacritic.
MutOkToPlace(text, mark) ==
  /\ \A i \in TrailingMarks(text) : text[i] # mark
  /\ BaseOf(text) > 0 /\ IsVowel(text[BaseOf(text)])
OkToPlace(text, mark) ==
  /\ \A i \in TrailingMarks(text) : text[i] # mark
  /\ BaseOf(text) > 0 /\ IsVowel(text[BaseOf(text)])
  /\ ~ (mark = "acute" /\ Last(text) = "hook")

AddMark ==
  \E mark \in {"acute", "hook"} :
    /\ Len(field) < MaxText
    /\ OkToPlace(field, mark)
    /\ field' = Append(field, mark)

AddBarredL == Len(field) < MaxText /\ field' = Append(field, "barred-l")

\* The browser's own editing, at any place of the field.
Type ==
  /\ Len(field) < MaxText
  /\ \E c \in Keys, p \in 1..Len(field)+1 : field' = InsertAt(field, p, c)
Delete == \E p \in DOMAIN field : field' = RemoveAt(field, p)

Edit == AddMark \/ AddBarredL \/ Type \/ Delete

--------------------------------------------------------------------------------
\* Every diacritic belongs to a vowel, which carries an accent, a hook, or an
\* accent and then a hook (help.html:65-67, paper.html:318-320).
WellMarked(text) ==
  \A i \in DOMAIN text : IsDiacritic(text[i]) =>
    /\ i > 1
    /\ \/ IsVowel(text[i-1])
       \/ text[i] = "hook" /\ text[i-1] = "acute"

\* However the field came to be as it is, the diacritic keys never spoil a
\* well-marked text.
MarksStayInOrder == [][AddMark /\ WellMarked(field) => WellMarked(field')]_field
================================================================================
