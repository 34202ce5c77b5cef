------------------------------- MODULE ParsePage -------------------------------
(***************************************************************************)
(* A visit to parse.s: the user edits the field and submits it; the CGI    *)
(* script decodes the text and runs segmentize on it, one segment at a     *)
(* time, and answers with the list of segments or with a warning.  The     *)
(* answer's form keeps the text, and the user edits on.                    *)
(***************************************************************************)
EXTENDS InputField, Segmentizer

VARIABLES phase,     \* "edit", "segmentize", "listed" or "refused"
          src,       \* what segmentize has still to cut
          output,    \* the segments found
          refs       \* the positions the browser sent as character references

vars == <<field, phase, src, output, refs>>

Phase == {"edit", "segmentize", "listed", "refused"}

TypeOK ==
  /\ Len(field) <= MaxText
  /\ phase \in Phase
  /\ \A i \in DOMAIN output : output[i] \in Range(Segments)
  /\ refs \subseteq 1..MaxText

Init == FieldInit /\ phase = "edit" /\ src = <<>> /\ output = <<>> /\ refs = {}

EditField == phase = "edit" /\ Edit /\ UNCHANGED <<phase, src, output, refs>>

\* The field is submitted, each non-ASCII character as UTF-8 or as a reference.
Submit ==
  /\ phase = "edit"
  /\ \E r \in SUBSET {i \in DOMAIN field : field[i] \in NonAscii} :
       refs' = r /\ src' = Converted(Decoded(field, r))
  /\ phase' = "segmentize" /\ output' = <<>>
  /\ UNCHANGED field

MutTakeTooMuch(n) == SubSeq(src, n + 2, Len(src))
\* substr($src, 0, length($seg)) = ''
Without(n) == SubSeq(src, n + 1, Len(src))

MutTakeFirstCharacter ==
  /\ phase = "segmentize" /\ src # <<>>
  /\ FirstMatch(Segments, src) # 0
  /\ output' = Append(output, <<Head(src)>>) /\ src' = Without(1)
  /\ UNCHANGED <<field, phase, refs>>

\* One round of the while loop finds a segment.
Take ==
  /\ phase = "segmentize" /\ src # <<>>
  /\ FirstMatch(Segments, src) # 0
  /\ LET seg == Segments[FirstMatch(Segments, src)]
     IN  output' = Append(output, seg) /\ src' = Without(Len(seg))
  /\ UNCHANGED <<field, phase, refs>>

\* A round finds none: croak, which the script turns into a warning.
Croak ==
  /\ phase = "segmentize" /\ src # <<>>
  /\ FirstMatch(Segments, src) = 0
  /\ phase' = "refused"
  /\ UNCHANGED <<field, src, output, refs>>

Finish ==
  /\ phase = "segmentize" /\ src = <<>>
  /\ phase' = "listed"
  /\ UNCHANGED <<field, src, output, refs>>

\* The user goes back to the form of the answered page.
EditAgain ==
  /\ phase \in {"listed", "refused"}
  /\ phase' = "edit" /\ src' = <<>> /\ output' = <<>> /\ refs' = {}
  /\ UNCHANGED field

Next == EditField \/ Submit \/ Take \/ Croak \/ Finish \/ EditAgain

Spec == Init /\ [][Next]_vars

--------------------------------------------------------------------------------
\* convertToUnicode, which prologListToHTML applies to each segment of a list.
Pair(text, i, c, d) == i \in DOMAIN text /\ i + 1 \in DOMAIN text /\ text[i] = c /\ text[i + 1] = d
ShownAt(text, i) ==
  CASE text[i] = "H"                                        -> <<"acute">>
    [] text[i] = "N"                                        -> <<"hook">>
    [] Pair(text, i, "l", "B")                              -> <<"barred-l">>
    [] Pair(text, i, "x", "G")                              -> <<"'">>
    [] Pair(text, i-1, "l", "B") \/ Pair(text, i-1, "x", "G") -> <<>>
    [] OTHER                                                -> <<text[i]>>
Shown(text) == FlattenSeq([i \in DOMAIN text |-> ShownAt(text, i)])

\* The segments listed are the converted field, cut up: nothing is lost, doubled or
\* moved, and a text whose characters arrived in two encodings is refused, never
\* misread.  Shown segment by segment they read as the text of the field: no cut
\* parts the two letters of a barred l or an apostrophe.  What the user spelled in
\* ASCII himself is shown as what it spells; a field without such spellings is its
\* own Shown(field).
ListedIsEntered ==
  phase = "listed" =>
    /\ FlattenSeq(output) = Converted(field)
    /\ FlattenSeq([i \in DOMAIN output |-> Shown(output[i])]) = Shown(field)

\* A text the diacritic keys could spell, of letters that are segments each, with
\* no vowel twice in a row, which is read as a long one, and no barred l after a d,
\* which is read as a dl and a rest.
Plain(text) ==
  LET letters == {i \in DOMAIN text : ~IsDiacritic(text[i])}
      NextLetter(i) == {j \in letters : j > i /\ \A k \in letters : k > i => j <= k}
  IN  /\ WellMarked(text)
      /\ \A i \in letters : Ascii(text[i]) \in Range(Segments)
      /\ \A i \in letters : \A j \in NextLetter(i) :
           /\ IsVowel(text[i]) => text[i] # text[j]
           /\ ~ (text[i] = "d" /\ text[j] = "barred-l")

OneEncoding == refs \in {{}, {i \in DOMAIN field : field[i] \in NonAscii}}

\* segmentize refuses no such text: whatever the order of the list makes it take
\* first, what is left never starts with a mark or half a letter.
PlainTextIsListed == phase = "refused" => ~ (Plain(field) /\ OneEncoding)

\* Every round of the loop that goes on shortens the text, so segmentize returns:
\* parseSegments keeps empty names out of the list.
LoopShortensText ==
  [][phase = "segmentize" /\ phase' = "segmentize" => Len(src') < Len(src)]_vars

--------------------------------------------------------------------------------
(***************************************************************************)
(* What the documentation says of segmentize, and the code does not do.    *)
(***************************************************************************)

\* The text can be cut into segments of the list.
Segmentable(text) ==
  \E cuts \in SUBSET (0..Len(text)) :
    /\ {0, Len(text)} \subseteq cuts
    /\ \A i, j \in cuts : i < j /\ (\A k \in cuts : ~ (i < k /\ k < j)) =>
         SubSeq(text, i + 1, j) \in Range(Segments)

\* paper.html:357-360: when the list is exhausted without a match, the input
\* holds characters that do not belong in Navajo spelling; so what the segments
\* of the list do spell is not refused.
RefusedIsNoSpelling == phase = "refused" /\ refs = {} => ~ Segmentable(Converted(field))
================================================================================
