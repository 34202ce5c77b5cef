------------------------------ MODULE TrieTerms ------------------------------
(***************************************************************************)
(* The terms a trie of the engine holds and is asked for, the symbols a    *)
(* term is stored as, and the bindings of the variables of a query.        *)
(*                                                                         *)
(* A symbol is a record [is, name, n]: a constant, a functor with its      *)
(* arity, the first occurrence of a variable ("var") or a later one        *)
(* ("val"), numbered in the order they are met.  A term adds the field     *)
(* args; a variable of a term is named by its number n.  Lists are         *)
(* functors like the others; attributed variables are left out.            *)
(***************************************************************************)
EXTENDS Naturals, SequencesExt

Con(a) == [is |-> "con", name |-> a, n |-> 0, args |-> <<>>]
Str(f, args) == [is |-> "str", name |-> f, n |-> Len(args), args |-> args]
Var(i) == [is |-> "var", name |-> "", n |-> i, args |-> <<>>]

Symbol(is, name, n) == [is |-> is, name |-> name, n |-> n]

\* The symbols of the terms on the stack pdl, the variables numbered from the
\* ones already met.
RECURSIVE SymbolsOfAll(_, _)
SymbolsOfAll(pdl, met) ==
  IF pdl = <<>> THEN <<>>
  ELSE LET t == Head(pdl)
           rest == Tail(pdl)
       IN  CASE t.is # "var" ->
                  <<Symbol(t.is, t.name, t.n)>> \o SymbolsOfAll(t.args \o rest, met)
             [] t.is = "var" /\ Contains(met, t.n) ->
                  <<Symbol("val", "", SelectInSeq(met, LAMBDA i : i = t.n) - 1)>>
                    \o SymbolsOfAll(rest, met)
             [] OTHER ->
                  <<Symbol("var", "", Len(met))>>
                    \o SymbolsOfAll(rest, Append(met, t.n))

\* The path of t: terms that differ in the names of their variables have one.
Path(t) == SymbolsOfAll(<<t>>, <<>>)

------------------------------------------------------------------------------
\* sub maps the numbers of the bound variables to terms.
Bind(sub, i, t) == [j \in DOMAIN sub \union {i} |-> IF j = i THEN t ELSE sub[j]]

RECURSIVE Deref(_, _)
Deref(t, sub) ==
  IF t.is = "var" /\ t.n \in DOMAIN sub THEN Deref(sub[t.n], sub) ELSE t

RECURSIVE Resolve(_, _)
Resolve(t, sub) ==
  LET d == Deref(t, sub)
  IN  [d EXCEPT !.args = [i \in DOMAIN @ |-> Resolve(@[i], sub)]]

\* unify/2, without an occurs check: the set of the resulting bindings, which
\* is empty when the terms do not unify.
RECURSIVE Unify(_, _, _)
Unify(s, t, sub) ==
  LET a == Deref(s, sub)
      b == Deref(t, sub)
      SameFunctor == a.is = b.is /\ a.name = b.name /\ a.n = b.n
      Arg(subs, i) == UNION {Unify(a.args[i], b.args[i], u) : u \in subs}
  IN  CASE a = b -> {sub}
        [] a # b /\ a.is = "var" -> {Bind(sub, a.n, b)}
        [] a.is # "var" /\ b.is = "var" -> {Bind(sub, b.n, a)}
        [] a # b /\ a.is # "var" /\ b.is # "var" ->
             IF SameFunctor
             THEN FoldLeft(Arg, {sub}, [i \in DOMAIN a.args |-> i]) ELSE {}
===============================================================================
