------------------------------ MODULE UniqueParses ------------------------------
(***************************************************************************)
(* getUniqueParses/2 of run.P: of the templates found for a verb, those    *)
(* that unify with a later one are struck out.  The lists of the code are  *)
(* sets here, taken in any order.                                          *)
(***************************************************************************)
EXTENDS Templates

VARIABLES found,   \* the templates not compared yet
          shown,   \* the templates that stay
          parses   \* all that findAllParses/2 found

choice == <<found, shown, parses>>

NothingFound == found = {} /\ shown = {} /\ parses = {}

\* The call, with what findAllParses/2 has found.
Compare(templates) == parses' = templates /\ found' = templates /\ UNCHANGED shown

\* MutDropsFirstOfAStem takes any later template of the stem for a repetition.
MutDropsFirstOfAStem(t) ==
  /\ \E u \in found \ {t} : u.stem = t.stem
  /\ found' = found \ {t}
  /\ UNCHANGED <<shown, parses>>
\* A template that unifies with a later one goes, and the later one takes its bindings.
DropRepeated(t) ==
  /\ \E u \in found \ {t} : /\ Unifiable(t, u)
                            /\ found' = (found \ {t, u}) \cup {Unified(t, u)}
  /\ UNCHANGED <<shown, parses>>
Keep(t) ==
  /\ \A u \in found \ {t} : ~ Unifiable(t, u)
  /\ found' = found \ {t} /\ shown' = shown \cup {t}
  /\ UNCHANGED parses

getUniqueParses == \E t \in found : DropRepeated(t) \/ Keep(t)

\* The templates of one verb, whichever these are, are found and compared.
ChoiceNext ==
  \/ parses = {} /\ \E templates \in SUBSET AnyTemplate : Compare(templates)
  \/ getUniqueParses

ChoiceSpec == NothingFound /\ [][ChoiceNext]_choice

--------------------------------------------------------------------------------
\* A part the template leaves unbound is one the verb has not, so unification can make one
\* of two readings that differ, and the reading without the part is gone.  For the verbs
\* of the instance that is no other part than the inner prefix: every reading found is
\* there as it was, or one is that has its outer prefix, plurality, object, fourth
\* person, subject and stem, all that printEnglish/1 tells, bound and unbound alike.
NoMeaningIsLost ==
  \A t \in parses : \E s \in found \cup shown : [s EXCEPT !.inner = t.inner] = t

\* Of two templates that stay, each says something the other contradicts.
NoneShownTwice == \A s \in shown : \A t \in (found \cup shown) \ {s} : ~ Unifiable(s, t)
================================================================================
