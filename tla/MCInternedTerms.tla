--------------------------- MODULE MCInternedTerms ---------------------------
(***************************************************************************)
(* An instance of InternedTerms: two programs, with short chains and small *)
(* tables so that few terms reach every case of the code.                  *)
(***************************************************************************)
EXTENDS InternedTerms

A == Con("a")
B == Con("b")
F(t) == Str("f", <<t>>)
G(s, t) == Str("g", <<s, t>>)
X == Var(1)
U == Var(2)
V == Var(3)

\* Five symbols at the first level make a table with three of them in a bucket, two of which
\* come and go, and expand it; three terms under one symbol make a table at the second level
\* and fill a garbage list of two leaves.
Five == {A, B, X, F(A), G(X, X)}
Three == {F(A), F(B), F(X)}
MCPrograms ==
  {[terms |-> Five, removed |-> {A, X}, garbage |-> 1, changes |-> 1],
   [terms |-> Three, removed |-> Three, garbage |-> 2, changes |-> 2]}
MCLeaves == {Path(t) : t \in UNION {pr.terms : pr \in MCPrograms}}
MCQueries == {U, F(B), G(A, U)}

\* a and b share a bucket, which is that of the variables in a small table.
MCHashKey(s) ==
  CASE s.name = "a" -> 0
    [] s.name = "b" -> 4
    [] s.name = "f" -> 1
    [] s.name = "g" -> 5
===============================================================================
