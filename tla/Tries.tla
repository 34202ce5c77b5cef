-------------------------------- MODULE Tries --------------------------------
(***************************************************************************)
(* The tries of the engine as a data structure: insertion of a term,       *)
(* symbol by symbol, the chains of siblings and the hash tables that       *)
(* replace long chains, removal of a branch, and the soft removal that     *)
(* only disables a leaf.                                                   *)
(*                                                                         *)
(* A node is named by its path, the symbols from the root to it; the root  *)
(* is <<>>.  A trie is a record:                                           *)
(*   node  what each allocated node holds: the two parts of its            *)
(*         instruction, the choice point part cp and the type; its status, *)
(*         "valid" or the type it had when it was removed; its leaf mark   *)
(*   kids  for each parent its children, as symbols: a chain (size 0), or  *)
(*         a hash table of size buckets with its count                     *)
(* Sibling and child pointers are the order of a chain; a pointer kept     *)
(* elsewhere is a path.                                                    *)
(***************************************************************************)
EXTENDS Integers, SequencesExt

CONSTANTS
  MaxSibling,   \* MAX_SIBLING_LEN, 8 in the code
  InitSize,     \* TrieHT_INIT_SIZE, 64 in the code
  HashKey(_)    \* the bits of a symbol that the hash function reads

ASSUME SizesAssumption ==
  /\ MaxSibling \in Nat \ {0}
  /\ InitSize \in Nat /\ InitSize > MaxSibling

\* A constant, a functor with its arity, a variable or a later occurrence of one.
AnySymbol == [is : {"con", "str", "var", "val"}, name : STRING, n : Nat]

\* The choice point part of an instruction: what running it does to the
\* choice point of its chain.  The code adds and subtracts these numbers.
NoCP == 0
Trust == 1
Try == 2
Retry == 3

EmptyTrie == [node |-> <<>>, kids |-> <<>>]

\* The nodes of p from the one after its nth symbol to p itself.
Branch(p, n) == {SubSeq(p, 1, m) : m \in n..Len(p)}

TrieHash(s, size) ==
  IF size = 0 \/ s.is \in {"var", "val"} THEN 1 ELSE (HashKey(s) % size) + 1
ChainOf(trie, p) ==
  LET k == trie.kids[Front(p)] IN k.bucket[TrieHash(Last(p), k.size)]
Position(trie, p) == SelectInSeq(ChainOf(trie, p), LAMBDA s : s = Last(p))

\* A new node, by TN_Init; its choice point part is set by AtHead.
NewNode(p) ==
  [cp |-> NoCP, type |-> IF p = <<>> THEN "root" ELSE Last(p).is, status |-> "valid", leaf |-> FALSE]
OnlyChild(s) == [size |-> 0, count |-> 0, bucket |-> <<<<s>>>>]

\* Node p, already allocated, becomes the head of its chain: it is the TRY of
\* the chain, the old head a RETRY or the TRUST; alone, it needs no choice point.
AtHead(trie, p) ==
  LET parent == Front(p)
      chain == ChainOf(trie, p)
      old == Append(parent, Head(chain))
      b == TrieHash(Last(p), trie.kids[parent].size)
  IN  [node |-> IF chain = <<>>
                THEN [trie.node EXCEPT ![p].cp = NoCP]
                ELSE [trie.node EXCEPT ![p].cp = Try, ![old].cp = @ + 1],
       kids |-> [trie.kids EXCEPT ![parent].bucket[b] = <<Last(p)>> \o chain]]

\* The children of parent in a table of the given size.  Both a chain that is
\* hashed and a table that is expanded are emptied from the front of each
\* chain, each node going to the head of its bucket.
Rehash(trie, parent, size, count) ==
  LET symbols == FlattenSeq(trie.kids[parent].bucket)
      empty == [size |-> size, count |-> count, bucket |-> [b \in 1..size |-> <<>>]]
      moved[i \in 0..Len(symbols)] ==
        IF i = 0 THEN [trie EXCEPT !.kids[parent] = empty]
        ELSE AtHead(moved[i - 1], Append(parent, symbols[i]))
  IN  moved[Len(symbols)]

hashify_children(trie, parent) == Rehash(trie, parent, InitSize, MaxSibling + 1)
expand_trie_ht(trie, parent) ==
  Rehash(trie, parent, 2 * trie.kids[parent].size, trie.kids[parent].count)

\* The new node p comes under its parent, which has children: into their chain, which may
\* have to become a table, or into its bucket of their table, which may have to grow.
one_node_chk_ins(trie, p) ==
  LET parent == Front(p)
      table == trie.kids[parent].size > 0
      t == AtHead(IF table THEN [trie EXCEPT !.kids[parent].count = @ + 1] ELSE trie, p)
      k == t.kids[parent]
      long == Len(ChainOf(t, p))
  IN  CASE ~ table /\ long > MaxSibling -> hashify_children(t, parent)
        [] table /\ long > MaxSibling \div 2 /\ k.count > k.size -> expand_trie_ht(t, parent)
        [] OTHER -> t

\* The leaf of a new path: a constant there has an instruction of its own.
MakeLeaf(trie, p) ==
  [trie EXCEPT !.node[p].leaf = TRUE,
               !.node[p].type = IF @ = "con" THEN "con_succ" ELSE @]

IsDeletedNode(trie, p) == trie.node[p].status # "valid"

\* Mutant: the choice point part is not kept.
MutDisabledWithoutChoice(trie, p) ==
  [trie EXCEPT !.node[p] = [@ EXCEPT !.status = trie.node[p].type, !.type = "fail", !.cp = NoCP]]

\* The choice point part stays: the leaf keeps its place in its chain.
safe_delete_branch(trie, p) ==
  [trie EXCEPT !.node[p] = [@ EXCEPT !.status = trie.node[p].type, !.type = "fail"]]
undelete_branch(trie, p) ==
  IF IsDeletedNode(trie, p)
  THEN [trie EXCEPT !.node[p].type = trie.node[p].status, !.node[p].status = "valid"]
  ELSE trie

\* As much of p as is there is followed; the rest are new nodes, each but the first the only
\* child of the one before.
whole_term_chk_ins(trie, p) ==
  LET first == Min({n \in 0..Len(p) : SubSeq(p, 1, n) \notin DOMAIN trie.node})
      new == Branch(p, first)
      grown == [node |-> [q \in DOMAIN trie.node \union new |->
                            IF q \in new THEN NewNode(q) ELSE trie.node[q]],
                kids |-> [q \in DOMAIN trie.kids \union (new \ {p}) |->
                            IF q \in new THEN OnlyChild(p[Len(q) + 1]) ELSE trie.kids[q]]]
  IN  CASE p \in DOMAIN trie.node -> undelete_branch(trie, p)
        [] p \notin DOMAIN trie.node /\ first = 0 -> MakeLeaf(grown, p)
        [] OTHER -> MakeLeaf(one_node_chk_ins(grown, SubSeq(p, 1, first)), p)

\* What the caller is told of the insertion: 1 when the term was there.
InternFlag(trie, p) ==
  IF p \in DOMAIN trie.node /\ ~IsDeletedNode(trie, p) THEN 1 ELSE 0

\* Mutant: a table keeps its count.
MutNotCounted(k) == k

Counted(k) == IF k.size > 0 THEN [k EXCEPT !.count = @ - 1] ELSE k

\* A node that has siblings in its chain is taken out of it.
UnlinkFirst(trie, p) ==
  LET parent == Front(p)
      rest == SubSeq(ChainOf(trie, p), Position(trie, p) + 1, Len(ChainOf(trie, p)))
      b == TrieHash(Last(p), trie.kids[parent].size)
  IN  [node |-> [trie.node EXCEPT ![Append(parent, Head(rest))].cp = @ - 1],
       kids |-> [trie.kids EXCEPT ![parent] = Counted([@ EXCEPT !.bucket[b] = rest])]]
\* Mutant: the node before the last one stays a RETRY, or a TRY.
MutLastKeepsRetry(trie, p) ==
  LET parent == Front(p)
      b == TrieHash(Last(p), trie.kids[parent].size)
  IN  [trie EXCEPT !.kids[parent] =
         Counted([@ EXCEPT !.bucket[b] = RemoveAt(@, Position(trie, p))])]

UnlinkLater(trie, p) ==
  LET parent == Front(p)
      chain == ChainOf(trie, p)
      at == Position(trie, p)
      prev == Append(parent, chain[at - 1])
      b == TrieHash(Last(p), trie.kids[parent].size)
  IN  [node |-> IF trie.node[p].cp = Trust
                THEN [trie.node EXCEPT ![prev].cp = @ - 2] ELSE trie.node,
       kids |-> [trie.kids EXCEPT ![parent] =
                   Counted([@ EXCEPT !.bucket[b] = RemoveAt(chain, at)])]]

\* A node alone in its bucket, in a table that holds other nodes.
UnlinkBucket(trie, p) ==
  LET b == TrieHash(Last(p), trie.kids[Front(p)].size)
  IN  [trie EXCEPT !.kids[Front(p)] = Counted([@ EXCEPT !.bucket[b] = <<>>])]

Unlink(trie, p) ==
  CASE trie.node[p].cp = NoCP -> UnlinkBucket(trie, p)
    [] trie.node[p].cp = Try -> UnlinkFirst(trie, p)
    [] OTHER -> UnlinkLater(trie, p)

HasSibling(trie, p) ==
  LET k == trie.kids[Front(p)] IN trie.node[p].cp # NoCP \/ (k.size > 0 /\ k.count > 1)

\* The branch is removed from p up to the first node that has a sibling; with
\* none, the root goes too.
delete_branch(trie, p) ==
  LET top == Max({n \in 0..Len(p) : n = 0 \/ HasSibling(trie, SubSeq(p, 1, n))})
      left == IF top = 0 THEN trie ELSE Unlink(trie, SubSeq(p, 1, top))
      Without(f) == [q \in DOMAIN f \ Branch(p, top) |-> f[q]]
  IN  [node |-> Without(left.node), kids |-> Without(left.kids)]
===============================================================================
