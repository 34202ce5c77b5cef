------------------------------ MODULE InternTrie ------------------------------
(***************************************************************************)
(* The trie of interned terms and its garbage list, as the operations of   *)
(* tr_utils.c change them.  A leaf is the handle of the term interned      *)
(* there.  When each may be called is up to the caller (intern.P).         *)
(*                                                                         *)
(* The list holds addresses.  trie_dispose frees a leaf without looking    *)
(* whether it waits on the list; what is listed then is a freed node, Gone *)
(* here, until the allocator gives its address to a new node of this trie. *)
(* Reclaiming that meets such an entry takes a byte of the allocator's     *)
(* free list, or of a node of another trie, for its status.                *)
(***************************************************************************)
EXTENDS Tries, FiniteSets

CONSTANT Leaves  \* the paths of the terms that are interned

\* No term is a part of another.
ASSUME LeavesAssumption ==
  /\ Leaves \subseteq Seq(AnySymbol) \ {<<>>}
  /\ \A p, q \in Leaves : IsPrefix(p, q) => p = q
  /\ \A p \in Leaves : \A i \in DOMAIN p : p[i].is \in {"con", "str"} => HashKey(p[i]) \in Nat

VARIABLES
  trie,
  garbage,  \* the leaves to reclaim, the last one removed first
  stale,    \* history: a leaf on the list was freed since the list was made
  corrupt   \* a freed node was taken for one to delete: what follows is undefined

trieVars == <<trie, garbage, stale, corrupt>>

Allocated == DOMAIN trie.node

\* An entry of the list that is no node of the trie.
Gone == <<[is |-> "freed", name |-> "", n |-> 0]>>

newtrie == trie = EmptyTrie /\ garbage = <<>> /\ stale = FALSE /\ corrupt = FALSE

\* What the list may become when nodes are allocated: any of them may have the
\* address of one that was freed.
Reused(new) ==
  {g \in [DOMAIN garbage -> new \union Range(garbage)] :
     \A i \in DOMAIN garbage :
       /\ g[i] = garbage[i] \/ (garbage[i] = Gone /\ g[i] \in new)
       /\ \A j \in DOMAIN garbage \ {i} : g[i] # g[j] \/ g[i] = Gone}

trie_intern(p) ==
  /\ trie' = whole_term_chk_ins(trie, p)
  /\ garbage' \in Reused(DOMAIN trie'.node \ Allocated)
  /\ UNCHANGED <<stale, corrupt>>

\* trie_unintern.  It may free more than the leaf: also nodes above it.
trie_dispose(p) ==
  /\ p \in Allocated
  /\ trie' = delete_branch(trie, p)
  /\ garbage' = [i \in DOMAIN garbage |->
                   IF garbage[i] \in DOMAIN trie'.node THEN garbage[i] ELSE Gone]
  /\ stale' = (stale \/ Contains(garbage, p))
  /\ UNCHANGED corrupt

\* Mutant: a leaf that is removed again is listed again.
MutListedAgain(p) == <<p>> \o garbage

insertLeaf(p) == IF Contains(garbage, p) THEN garbage ELSE <<p>> \o garbage

trie_dispose_nr(p) ==
  /\ p \in Allocated
  /\ garbage' = insertLeaf(p)
  /\ trie' = safe_delete_branch(trie, p)
  /\ UNCHANGED <<stale, corrupt>>

\* Mutant: the first leaf of the list is taken off, whichever was asked for.
MutTakesAnyLeafOff(p) ==
  /\ p \in Allocated
  /\ garbage # <<>>
  /\ garbage' = Tail(garbage)
  /\ trie' = undelete_branch(trie, p)
  /\ UNCHANGED <<stale, corrupt>>

\* unmark_uninterned_nr takes the leaf off the list only when it is the first.
trie_undispose(p) ==
  /\ p \in Allocated
  /\ garbage # <<>>
  /\ garbage' = IF Head(garbage) = p THEN Tail(garbage) ELSE garbage
  /\ trie' = undelete_branch(trie, p)
  /\ UNCHANGED <<stale, corrupt>>

\* A leaf on the list that was interned again is kept.  The status read of an
\* entry that is gone may say valid or not; if not, delete_branch goes astray.
reclaim_uninterned_nr ==
  LET reclaimed[n \in 0..Len(garbage)] ==
        IF n = 0 THEN trie
        ELSE IF /\ garbage[n] \in DOMAIN reclaimed[n - 1].node
                /\ IsDeletedNode(reclaimed[n - 1], garbage[n])
             THEN delete_branch(reclaimed[n - 1], garbage[n]) ELSE reclaimed[n - 1]
  IN  /\ garbage # <<>>
      /\ \/ /\ trie' = reclaimed[Len(garbage)]
            /\ garbage' = <<>>
            /\ stale' = FALSE
            /\ UNCHANGED corrupt
         \/ /\ \E n \in DOMAIN garbage : garbage[n] \notin DOMAIN reclaimed[n - 1].node
            /\ corrupt' = TRUE
            /\ UNCHANGED <<trie, garbage, stale>>

TrieNext ==
  /\ ~corrupt
  /\ \/ \E p \in Leaves : \/ trie_intern(p) \/ trie_dispose(p)
                          \/ trie_dispose_nr(p) \/ trie_undispose(p)
     \/ reclaim_uninterned_nr

TrieSpec == newtrie /\ [][TrieNext]_trieVars

------------------------------------------------------------------------------
\* The instructions and statuses are ones the code has; the garbage list holds nodes, once
\* each, and freed ones.
Types == {"root", "con", "con_succ", "str", "var", "val", "fail"}
TrieTypeOK ==
  /\ \A p \in Allocated :
       /\ trie.node[p].cp \in {NoCP, Trust, Try, Retry}
       /\ trie.node[p].type \in Types
       /\ trie.node[p].status \in Types \union {"valid"}
  /\ \A i \in DOMAIN garbage : garbage[i] \in Allocated \union {Gone}
  /\ \A i, j \in DOMAIN garbage : garbage[i] = garbage[j] /\ garbage[i] # Gone => i = j
  /\ stale \in BOOLEAN /\ corrupt \in BOOLEAN

\* What the choice point part of the ith node of a chain of n must be.
Due(i, n) == CASE n = 1 -> NoCP
               [] n > 1 /\ i = 1 -> Try
               [] n > 1 /\ i = n -> Trust
               [] OTHER -> Retry

\* The choice point part of every instruction is the one of its place in its
\* chain, whatever insertions, removals, hashing and expansion went before
\* (TN_ResetInstrCPs, TrieHT_InsertNode, delete_branch): a chain is run with
\* one choice point, made at its head and taken off at its end.
ChoicesMatchPlaces ==
  \A parent \in DOMAIN trie.kids :
    \A b \in DOMAIN trie.kids[parent].bucket :
      LET chain == trie.kids[parent].bucket[b]
      IN  \A i \in DOMAIN chain : trie.node[Append(parent, chain[i])].cp = Due(i, Len(chain))

Children(parent) == {p \in Allocated \ {<<>>} : Front(p) = parent}

\* Every allocated node is on the path of a leaf and linked under its parent, once,
\* in its bucket if they are hashed, and a table's count is right: no removal
\* leaks a node, drops a sibling or leaves a table that holds nothing
\* (delete_branch, get_prev_sibl).
NothingLeaksOrDangles ==
  LET Ends == {p \in Allocated : trie.node[p].leaf}
  IN  /\ Ends \subseteq Leaves
      /\ Allocated = UNION {Branch(p, 0) : p \in Ends}
      /\ DOMAIN trie.kids = Allocated \ Ends
      /\ \A p \in Allocated \ {<<>>} : Contains(ChainOf(trie, p), Last(p))
      /\ \A parent \in DOMAIN trie.kids :
           LET k == trie.kids[parent]
           IN  /\ \A b \in DOMAIN k.bucket :
                    /\ IsInjective(k.bucket[b])
                    /\ \A i \in DOMAIN k.bucket[b] :
                         LET p == Append(parent, k.bucket[b][i])
                         IN  p \in Allocated /\ ChainOf(trie, p) = k.bucket[b]
               /\ k.size > 0 => k.count = Cardinality(Children(parent))

\* A leaf that is removed but not freed is always on the garbage list, so that reclaiming
\* frees it, whatever else became of the list.  And unless a leaf was freed while it waited
\* there (stale), everything listed is a leaf that is still allocated, although the branches
\* of other leaves are freed one by one, and reclaiming reads no freed node (insertLeaf,
\* trie_undispose, delete_branch, reclaim_uninterned_nr).
RemovedLeavesAreReclaimable ==
  /\ \A p \in Allocated : IsDeletedNode(trie, p) => Contains(garbage, p)
  /\ stale \/ \A i \in DOMAIN garbage : garbage[i] \in Leaves \intersect Allocated
  /\ corrupt => stale

\* intern.P says when a term may be uninterned at once: "only when the trie [...] is not being
\* actively accessed".  So reclaiming should then read nodes of the trie only.
ReclaimReadsOnlyNodes == ~corrupt
===============================================================================
