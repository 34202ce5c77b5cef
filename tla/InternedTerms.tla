---------------------------- MODULE InternedTerms ----------------------------
(***************************************************************************)
(* A trie of interned terms (intern.P) and its garbage list, used by a     *)
(* program that may be in the middle of one retrieval from it.             *)
(***************************************************************************)
EXTENDS TrieCode, InternTrie

CONSTANTS
  Programs,   \* the programs: for each, the terms it interns, those it removes, a
              \* bound on the length of the garbage list, and one on the changes
              \* it makes to the trie within one retrieval
  Queries     \* the terms retrieved by, in variables that no program interns

VARIABLES
  program,
  walk,      \* the retrieval that may still be backtracked into
  flag,      \* what the last step said of a term interned: 1, it was there
  spoilt     \* history: the leaves removed again when they were removed already

vars == <<program, trieVars, walk, flag, spoilt>>

Terms == UNION {pr.terms : pr \in Programs}
Paths == {Path(t) : t \in Terms}
ASSUME LeavesArePaths == Leaves = Paths

PathOf == [t \in Terms |-> Path(t)]
Own == {PathOf[t] : t \in program.terms}
Removed == {PathOf[t] : t \in program.removed}
Interned == {p \in Paths \intersect Allocated : ~IsDeletedNode(trie, p)}

NoWalk == [open |-> FALSE]
Unasked == 2

\* The bindings under which a query is the term of a leaf.
Unifier == [q \in Queries, p \in Paths |-> Unify(q, CHOOSE t \in Terms : Path(t) = p, <<>>)]
Matches(q, p) == Unifier[q, p] # {}
Answer(q, p) == Path(Resolve(q, CHOOSE u \in Unifier[q, p] : TRUE))

Init ==
  /\ program \in Programs
  /\ newtrie
  /\ walk = NoWalk
  /\ flag = Unasked
  /\ spoilt = {}

\* The retrieval, when the trie is changed within it and no longer holds the
\* leaves in gone: it does not owe them.
Within(gone) ==
  IF walk.open THEN [walk EXCEPT !.owed = @ \ gone, !.changes = @ + 1] ELSE walk
MayChange == walk.open => walk.changes < program.changes

\* A table made or expanded moves the siblings that a walk's choice points
\* name.
MovesNodes(new) ==
  \E p \in DOMAIN trie.kids : new.kids[p].size # trie.kids[p].size

Intern(p) ==
  /\ MayChange
  /\ trie_intern(p)
  /\ flag' = InternFlag(trie, p)
  /\ walk' = IF walk.open THEN [Within({}) EXCEPT !.moved = @ \/ MovesNodes(trie')] ELSE walk
  /\ UNCHANGED <<program, spoilt>>

\* intern.P asks that the trie is not being accessed.
Dispose(p) ==
  /\ ~walk.open
  /\ trie_dispose(p)
  /\ flag' = Unasked
  /\ spoilt' = spoilt \ {p}
  /\ UNCHANGED <<program, walk>>

DisposeLater(p) ==
  /\ MayChange
  /\ Len(insertLeaf(p)) <= program.garbage
  /\ trie_dispose_nr(p)
  /\ walk' = Within({p})
  /\ spoilt' = IF IsDeletedNode(trie, p) THEN spoilt \union {p} ELSE spoilt
  /\ flag' = Unasked
  /\ UNCHANGED program

Undispose(p) ==
  /\ MayChange
  /\ trie_undispose(p)
  /\ walk' = Within({})
  /\ flag' = Unasked
  /\ UNCHANGED <<program, spoilt>>

Reclaim ==
  /\ ~walk.open
  /\ reclaim_uninterned_nr
  /\ spoilt' = spoilt \intersect DOMAIN trie'.node
  /\ flag' = Unasked
  /\ UNCHANGED <<program, walk>>

\* The engine is lost; moved tells whether nodes were moved under the retrieval.
Lost(moved) == [open |-> FALSE, moved |-> moved]

\* Where the retrieval stands when its instructions have run: on a leaf, with the
\* query bound to its answer, at its end, or nowhere.  owed, given, changes and
\* moved are history.
Standing(q, m, owed, given, changes, moved) ==
  CASE m.pc.op = "answer" ->
         [open |-> TRUE, q |-> q, machine |-> m, answer |-> InstanceOf(m, q),
          owed |-> owed \ {m.pc.path}, given |-> Append(given, m.pc.path),
          changes |-> changes, moved |-> moved]
    [] m.pc.op = "done" -> NoWalk
    [] m.pc.op = "crash" -> Lost(moved)

Retrieve(q) ==
  /\ ~walk.open
  /\ walk' = Standing(q, trie_interned(trie, q),
                      {p \in Interned \ spoilt : Matches(q, p)}, <<>>, 0, FALSE)
  /\ flag' = Unasked
  /\ UNCHANGED <<program, trieVars, spoilt>>

Backtrack ==
  /\ walk.open
  /\ walk' = Standing(walk.q, Backtracked(trie, walk.machine),
                      walk.owed, walk.given, walk.changes, walk.moved)
  /\ flag' = Unasked
  /\ UNCHANGED <<program, trieVars, spoilt>>

Cut ==
  /\ walk.open
  /\ walk' = NoWalk
  /\ flag' = Unasked
  /\ UNCHANGED <<program, trieVars, spoilt>>

\* What a lost engine does is not modelled.
Next ==
  /\ ~corrupt /\ walk # Lost(TRUE) /\ walk # Lost(FALSE)
  /\ \/ \E p \in Own : Intern(p)
     \/ \E p \in Removed : Dispose(p)
     \/ \E p \in Removed : DisposeLater(p)
     \/ \E p \in Removed : Undispose(p)
     \/ Reclaim
     \/ \E q \in Queries : Retrieve(q)
     \/ Backtrack
     \/ Cut

Spec == Init /\ [][Next]_vars

------------------------------------------------------------------------------
\* The types of the trie and the rest, and no retrieval is lost but one under which nodes
\* were moved.
TypeOK ==
  /\ TrieTypeOK
  /\ flag \in {0, 1, Unasked}
  /\ spoilt \subseteq Leaves
  /\ walk.open \/ walk \in {NoWalk, Lost(TRUE)}

\* Whatever is interned or removed while a retrieval is suspended, but for an insertion that
\* makes or expands a table, each of its choice points names a node or a table that is
\* still there, and a node that resumes the choice point (a RETRY or the TRUST) and does not
\* make another.  A table made or expanded moves nodes to other chains, and the retrieval
\* may then fail into one that does not restore its registers.
SuspendedWalkCanResume ==
  walk.open /\ ~walk.moved =>
    \A i \in DOMAIN walk.machine.cps :
      LET alt == walk.machine.cps[i].alt
      IN  \/ /\ alt.op = "sibling"
             /\ alt.path \in Allocated
             /\ trie.node[alt.path].cp \in {Retry, Trust}
          \/ /\ alt.op = "hash_handle"
             /\ alt.path \in DOMAIN trie.kids
             /\ trie.kids[alt.path].size > 0

Store == INSTANCE TermStore WITH
  Terms <- Paths,
  store <- Interned,
  query <- IF walk.open /\ ~walk.moved
           THEN [open |-> TRUE, q |-> walk.q, owed |-> walk.owed, given |-> walk.given,
                 answer |-> walk.answer]
           ELSE NoWalk

\* The trie keeps the promise of the store: trie_intern says rightly whether
\* the term was there, and a retrieval gives every term that is there while it
\* lasts, once, with the right bindings, and none that has been removed.  Two
\* things end the promise: a term removed again when it was removed (spoilt)
\* need not be found once it is interned again (InternedTermCanBeFound below),
\* and a retrieval is off the record once a table was made or expanded under it.
KeepsTheTerms == Store!Spec

\* insertLeaf says that to remove a leaf that is removed "should have no effect".  So a term
\* that is interned again after that, or taken back, should be found: its leaf should not
\* have the instruction that fails.
InternedTermCanBeFound == \A p \in Interned : trie.node[p].type # "fail"
===============================================================================
