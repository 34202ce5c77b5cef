------------------------------ MODULE TermStore ------------------------------
(***************************************************************************)
(* What a trie of interned terms promises its user: a set of terms, and    *)
(* one query at a time that goes through the terms that match it while the *)
(* set changes under it.                                                   *)
(*                                                                         *)
(* A term that is in the store during the whole of a query is an answer of *)
(* it once; one that comes or goes may be; one removed before it is        *)
(* reached is not.  A term may have been spoilt by removing it when it was *)
(* already removed: then it need not be found again until the store has    *)
(* forgotten it.  A term that comes may break the query off: what is       *)
(* answered after that is not promised.                                    *)
(***************************************************************************)
EXTENDS Naturals, Sequences

CONSTANTS
  Terms,         \* the terms, each up to the names of its variables
  Queries,       \* the terms that are asked for
  Matches(_, _), \* whether t is an answer of q
  Answer(_, _)   \* the instance of q that it gives

VARIABLES store, spoilt, query, flag

vars == <<store, spoilt, query, flag>>

Closed == [open |-> FALSE]
Unasked == 2

Init == store = {} /\ spoilt = {} /\ query = Closed /\ flag = Unasked

\* The answer says whether the term was there.
Intern(t) ==
  /\ flag' \in {0, 1} /\ (flag' = 1 <=> t \in store)
  /\ store' = store \union {t}
  /\ query' \in {query, Closed}
  /\ UNCHANGED spoilt

\* Terms go; some that were spoilt and are not in the store are forgotten.
Remove ==
  /\ flag' = Unasked
  /\ store' \subseteq store
  /\ spoilt' \subseteq spoilt
  /\ (spoilt \ spoilt') \intersect store' = {}
  /\ query' = IF query.open THEN [query EXCEPT !.owed = @ \ (store \ store')] ELSE query
  /\ flag' = Unasked

RemoveAgain(t) ==
  /\ t \notin store
  /\ spoilt' = spoilt \union {t}
  /\ flag' = Unasked
  /\ UNCHANGED <<store, query>>

Restore(t) ==
  /\ store' = store \union {t}
  /\ flag' = Unasked
  /\ UNCHANGED <<spoilt, query>>

\* The next answer of q, of which owed are owed, after those given, or its
\* end.
Reply(q, owed, given) ==
  \/ /\ owed = {}
     /\ query' = Closed
  \/ \E t \in store :
       /\ Matches(q, t)
       /\ \A i \in DOMAIN given : given[i] # t
       /\ query' = [open |-> TRUE, q |-> q, owed |-> owed \ {t},
                    given |-> Append(given, t), answer |-> Answer(q, t)]

Ask(q) ==
  /\ ~query.open
  /\ Reply(q, {t \in store \ spoilt : Matches(q, t)}, <<>>)
  /\ flag' = Unasked
  /\ UNCHANGED <<store, spoilt>>
Again ==
  /\ query.open
  /\ flag' = Unasked
  /\ Reply(query.q, query.owed, query.given)
  /\ UNCHANGED <<store, spoilt>>
Cut ==
  /\ query' = Closed
  /\ flag' = Unasked
  /\ UNCHANGED <<store, spoilt>>

Next ==
  \/ Again
  \/ Cut
  \/ \E q \in Queries : Ask(q)
  \/ Remove
  \/ \E t \in Terms : Intern(t) \/ RemoveAgain(t) \/ Restore(t)

Spec == Init /\ [][Next]_vars
===============================================================================
