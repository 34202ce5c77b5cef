-------------------------------- MODULE Templates --------------------------------
(***************************************************************************)
(* The templates that verb//1 makes of a form, and their unification, by   *)
(* which getUniqueParses/2 of run.P compares them.  A list the template    *)
(* leaves unbound is Unbound, an atom "_".                                 *)
(***************************************************************************)
EXTENDS Sequences

CONSTANT Lexicon  \* the clauses of stem//2: records of steminfo/7, the gloss and the stem's text

Unbound == <<>>
Bound(list) == list # Unbound
BoundAtom(atom) == atom # "_"

Lists == {"outer", "distpl", "inner"}
Atoms == {"object", "fourth"}
\* The subject and the stem are always known.
AnyTemplate == [outer : Seq(STRING), distpl : Seq(STRING), inner : Seq(STRING),
                object : STRING, fourth : STRING, subject : STRING, stem : Lexicon]

Unifiable(s, t) ==
  /\ \A x \in Lists : s[x] = t[x] \/ ~ Bound(s[x]) \/ ~ Bound(t[x])
  /\ \A x \in Atoms : s[x] = t[x] \/ ~ BoundAtom(s[x]) \/ ~ BoundAtom(t[x])
  /\ s.subject = t.subject /\ s.stem = t.stem
\* t with the bindings that s has and t has not.
Unified(s, t) ==
  [x \in DOMAIN t |-> IF (x \in Lists /\ ~ Bound(t[x])) \/ (x \in Atoms /\ ~ BoundAtom(t[x]))
                        THEN s[x] ELSE t[x]]
================================================================================
