---------------------------- MODULE InternTrieProofs ----------------------------
(***************************************************************************)
(* Proofs about InternTrie, for any leaves, any sizes of chains and tables *)
(* and any hash function.  A trie is well when its nodes are those of the  *)
(* paths of its leaves and the children of each node are linked as they    *)
(* must be (Local).  What an operation does to the links of one node is    *)
(* proved first (AtHead, Rehash, one_node_chk_ins, Unlink), then what it   *)
(* does to the trie (insertion, removal, soft removal, reclaiming).        *)
(***************************************************************************)
EXTENDS InternTrie, FiniteSetTheorems, SequenceTheorems, WellFoundedInduction, TLAPS

(* What FlattenSeq is, by induction on the number of sequences. *)

\* A nonempty set of natural numbers has a least member.
LEMMA LeastExists ==
  ASSUME NEW K \in SUBSET Nat, K # {}
  PROVE  \E k \in K : \A j \in K : k <= j
<1>1. PICK k \in K : \A j \in K : ~ (<<j, k>> \in OpToRel(<, Nat))
  BY WFMin, NatLessThanWellFounded
<1>2. ASSUME NEW j \in K  PROVE ~ (j < k)
  <2>1. ~ (<<j, k>> \in {ss \in Nat \X Nat : ss[1] < ss[2]})
    BY <1>1, Zenon DEF OpToRel
  <2> QED  BY <2>1, <<j, k>>[1] = j, <<j, k>>[2] = k, <<j, k>> \in Nat \X Nat, Zenon
<1>3. \A j \in K : k <= j
  BY <1>2
<1> QED  BY <1>3

\* Induction, on a set of natural numbers.
LEMMA NatSetInduction ==
  ASSUME NEW N, 0 \in N, \A n \in Nat : n \in N => n + 1 \in N
  PROVE  \A n \in Nat : n \in N
<1> DEFINE Rest == Nat \ N
<1> SUFFICES ASSUME Rest # {}  PROVE FALSE
  OBVIOUS
<1>1. PICK k \in Rest : \A j \in Rest : k <= j
  BY LeastExists
<1>2. k \in Nat /\ k \notin N
  OBVIOUS
<1>3. k # 0 /\ k - 1 \in Nat /\ ~ (k <= k - 1) /\ (k - 1) + 1 = k
  BY <1>2
<1>4. k - 1 \in N
  BY <1>1, <1>3
<1> QED  BY <1>2, <1>3, <1>4

\* f is the sequence of the concatenations that FlattenSeq goes through.
Concatenates(f, seqs, n) == f = [i \in 1..n |-> IF i = 1 THEN seqs[i] ELSE f[i - 1] \o seqs[i]]

\* There is such a function, for every number of sequences.
LEMMA ConcatenatesSome ==
  ASSUME NEW seqs, NEW n \in Nat
  PROVE  \E f : Concatenates(f, seqs, n)
<1> DEFINE N == {m \in Nat : \E f : Concatenates(f, seqs, m)}
<1>1. 0 \in N
  <2>1. Concatenates([i \in 1..0 |-> <<>>], seqs, 0)
    BY DEF Concatenates
  <2> QED  BY <2>1
<1>2. ASSUME NEW m \in Nat, m \in N  PROVE m + 1 \in N
  <2> PICK f : Concatenates(f, seqs, m)
    BY <1>2
  <2> DEFINE g == [i \in 1..m + 1 |-> IF i <= m THEN f[i]
                                      ELSE IF i = 1 THEN seqs[i] ELSE f[i - 1] \o seqs[i]]
  <2>1. \A i \in 1..m : f[i] = IF i = 1 THEN seqs[i] ELSE f[i - 1] \o seqs[i]
    BY DEF Concatenates
  <2>2. \A i \in 1..m + 1 : i # 1 => i - 1 \in 1..m /\ i - 1 \in 1..m + 1 /\ i - 1 <= m
    OBVIOUS
  <2>3. \A i \in 1..m + 1 : i # 1 => g[i - 1] = f[i - 1]
    BY <2>2
  <2>4. \A i \in 1..m + 1 : g[i] = IF i = 1 THEN seqs[i] ELSE f[i - 1] \o seqs[i]
    BY <2>1
  <2>5. \A i \in 1..m + 1 : g[i] = IF i = 1 THEN seqs[i] ELSE g[i - 1] \o seqs[i]
    BY <2>3, <2>4
  <2>6. Concatenates(g, seqs, m + 1)
    <3> HIDE DEF g
    <3>1. g = [i \in 1..m + 1 |-> g[i]]
      BY DEF g
    <3> QED  BY <2>5, <3>1 DEF Concatenates
  <2> HIDE DEF g
  <2> QED  BY <2>6
<1> HIDE DEF N
<1>3. n \in N
  BY <1>1, <1>2, NatSetInduction
<1> QED  BY <1>3 DEF N

\* FlattenSeq is the last value of one.
LEMMA FlattenConcatenates ==
  ASSUME NEW seqs, Len(seqs) \in Nat \ {0}
  PROVE  \E f : Concatenates(f, seqs, Len(seqs)) /\ FlattenSeq(seqs) = f[Len(seqs)]
<1> DEFINE f == CHOOSE f : f = [i \in 1..Len(seqs) |-> IF i = 1 THEN seqs[i] ELSE f[i - 1] \o seqs[i]]
<1>1. \E g : g = [i \in 1..Len(seqs) |-> IF i = 1 THEN seqs[i] ELSE g[i - 1] \o seqs[i]]
  BY ConcatenatesSome DEF Concatenates
<1>2. Concatenates(f, seqs, Len(seqs))
  BY <1>1 DEF Concatenates
<1>3. FlattenSeq(seqs) = f[Len(seqs)]
  BY DEF FlattenSeq
<1> HIDE DEF f
<1> QED  BY <1>2, <1>3

\* It is the same for sequences that are the same.
LEMMA ConcatenatesAlike ==
  ASSUME NEW f, NEW g, NEW s, NEW t, NEW m \in Nat,
         Concatenates(f, s, m), Concatenates(g, t, m + 1), \A i \in 1..m : s[i] = t[i]
  PROVE  \A i \in 1..m : f[i] = g[i]
<1> DEFINE N == {k \in Nat : k \in 1..m => f[k] = g[k]}
<1>1. 0 \in N
  OBVIOUS
<1>2. ASSUME NEW k \in Nat, k \in N  PROVE k + 1 \in N
  <2> SUFFICES ASSUME k + 1 \in 1..m  PROVE f[k + 1] = g[k + 1]
    OBVIOUS
  <2>1. k + 1 \in 1..m + 1 /\ (k + 1) - 1 = k
    OBVIOUS
  <2>2. f[k + 1] = IF k + 1 = 1 THEN s[k + 1] ELSE f[k] \o s[k + 1]
    <3>1. \A i \in 1..m : f[i] = IF i = 1 THEN s[i] ELSE f[i - 1] \o s[i]
      BY DEF Concatenates
    <3>2. f[k + 1] = IF k + 1 = 1 THEN s[k + 1] ELSE f[(k + 1) - 1] \o s[k + 1]
      BY <3>1, Zenon
    <3> QED  BY <2>1, <3>2, Zenon
  <2>3. g[k + 1] = IF k + 1 = 1 THEN t[k + 1] ELSE g[k] \o t[k + 1]
    BY <2>1 DEF Concatenates
  <2>4. k + 1 # 1 => f[k] = g[k]
    BY <1>2
  <2> QED  BY <2>2, <2>3, <2>4
<1> HIDE DEF N
<1>3. \A k \in Nat : k \in N
  BY <1>1, <1>2, NatSetInduction
<1> QED  BY <1>3 DEF N

\* Of no sequence, FlattenSeq is empty.
LEMMA FlattenEmpty == FlattenSeq(<<>>) = <<>>
BY DEF FlattenSeq

\* Of one sequence more, FlattenSeq is longer by that.
LEMMA FlattenAppend ==
  ASSUME NEW S, NEW seqs \in Seq(Seq(S)), NEW x \in Seq(S)
  PROVE  FlattenSeq(Append(seqs, x)) = FlattenSeq(seqs) \o x
<1> DEFINE n == Len(seqs)
           all == Append(seqs, x)
<1>1. n \in Nat /\ all \in Seq(Seq(S)) /\ Len(all) = n + 1 /\ all[n + 1] = x /\ \A i \in 1..n : seqs[i] = all[i]
  OBVIOUS
<1>2. PICK g : Concatenates(g, all, n + 1) /\ FlattenSeq(all) = g[n + 1]
  <2> HIDE DEF all
  <2>1. Len(all) \in Nat \ {0}
    BY <1>1
  <2> QED  BY <1>1, <2>1, FlattenConcatenates
<1>3. g[n + 1] = IF n + 1 = 1 THEN x ELSE g[n] \o x
  <2>1. (n + 1) - 1 = n /\ n + 1 \in 1..n + 1
    BY <1>1
  <2> HIDE DEF n, all
  <2>2. g[n + 1] = IF n + 1 = 1 THEN all[n + 1] ELSE g[(n + 1) - 1] \o all[n + 1]
    BY <1>2, <2>1 DEF Concatenates
  <2> QED  BY <1>1, <2>1, <2>2
<1>4. CASE n = 0
  <2>1. seqs = <<>>
    BY <1>4
  <2> QED  BY <1>2, <1>3, <1>4, <2>1, FlattenEmpty
<1>5. CASE n # 0
  <2>1. PICK f : Concatenates(f, seqs, n) /\ FlattenSeq(seqs) = f[n]
    BY <1>1, <1>5, FlattenConcatenates
  <2>2. f[n] = g[n]
    <3> HIDE DEF n, all
    <3>1. \A i \in 1..n : f[i] = g[i]
      <4>1. n \in Nat /\ Concatenates(f, seqs, n) /\ Concatenates(g, all, n + 1) /\ \A i \in 1..n : seqs[i] = all[i]
        BY <1>1, <1>2, <2>1
      <4> QED  BY <4>1, ConcatenatesAlike
    <3> QED  BY <1>1, <1>5, <3>1
  <2> QED  BY <1>1, <1>2, <1>3, <1>5, <2>1, <2>2
<1> QED  BY <1>4, <1>5

(* Paths. *)

Sym == {s \in AnySymbol : s.is \in {"con", "str"} => HashKey(s) \in Nat}

\* A leaf is a nonempty path.
LEMMA LeavesTyped == Leaves \subseteq Seq(Sym) /\ \A p \in Leaves : p # <<>> /\ Len(p) \in Nat \ {0}
<1> SUFFICES ASSUME NEW p \in Leaves PROVE p \in Seq(Sym) /\ p # <<>> /\ Len(p) \in Nat \ {0}
  OBVIOUS
<1>1. p \in Seq(AnySymbol) /\ p # <<>>
  BY LeavesAssumption
<1>2. \A i \in 1..Len(p) : p[i] \in Sym
  <2>1. \A i \in DOMAIN p : p[i].is \in {"con", "str"} => HashKey(p[i]) \in Nat
    BY LeavesAssumption
  <2> QED  BY <1>1, <2>1 DEF Sym
<1>3. Len(p) \in Nat /\ Len(p) # 0 /\ p \in [1..Len(p) -> Sym]
  <2>1. p \in [1..Len(p) -> AnySymbol] /\ Len(p) \in Nat /\ (Len(p) = 0 => p = <<>>)
    BY <1>1, LenProperties
  <2> QED  BY <1>1, <1>2, <2>1
<1>4. p \in Seq(Sym)
  <2>1. p \in UNION {[1..n -> Sym] : n \in Nat}
    BY <1>3, Zenon
  <2> QED  BY <2>1, SeqDef, Zenon
<1> QED  BY <1>1, <1>3, <1>4

\* A path is its parent and its last symbol.
LEMMA Divided ==
  ASSUME NEW p \in Seq(Sym), p # <<>>
  PROVE  /\ Front(p) \in Seq(Sym) /\ Last(p) \in Sym
         /\ Len(p) \in Nat \ {0} /\ Len(Front(p)) = Len(p) - 1
         /\ Append(Front(p), Last(p)) = p
<1>1. Len(p) \in Nat \ {0} /\ \A i \in 1..Len(p) : p[i] \in Sym
  OBVIOUS
<1>2. /\ Front(p) \in Seq(Sym) /\ Len(Front(p)) = Len(p) - 1
      /\ \A i \in 1..Len(p) - 1 : Front(p)[i] = p[i]
  <2> DEFINE n == Len(p) - 1
  <2>1. n \in Nat /\ \A i \in 1..n : p[i] \in Sym
    BY <1>1
  <2>2. /\ SubSeq(p, 1, n) \in Seq(Sym) /\ Len(SubSeq(p, 1, n)) = n
        /\ \A i \in 1..n : SubSeq(p, 1, n)[i] = p[i]
    <3> HIDE DEF n
    <3> QED  BY <2>1
  <2> QED  BY <2>2 DEF Front
<1>3. Last(p) \in Sym
  BY <1>1 DEF Last
<1>4. Append(Front(p), Last(p)) = p
  <2> DEFINE f == Front(p)
             l == Last(p)
  <2>1. f \in Seq(Sym) /\ Len(f) = Len(p) - 1 /\ l \in Sym /\ l = p[Len(p)] /\ \A i \in 1..Len(p) - 1 : f[i] = p[i]
    BY <1>2, <1>3 DEF Last
  <2> HIDE DEF f, l
  <2>2. Append(f, l) \in Seq(Sym) /\ Len(Append(f, l)) = Len(p)
    BY <1>1, <2>1
  <2>3. \A i \in 1..Len(p) : Append(f, l)[i] = p[i]
    BY <1>1, <2>1
  <2>4. Append(f, l) = p
    BY <2>2, <2>3, SeqEqual
  <2> QED  BY <2>4 DEF f, l
<1> QED  BY <1>1, <1>2, <1>3, <1>4

\* A path with one symbol more has that as the last, and the path as its parent.
LEMMA Extended ==
  ASSUME NEW q \in Seq(Sym), NEW s \in Sym
  PROVE  /\ Append(q, s) \in Seq(Sym) /\ Append(q, s) # <<>> /\ Len(Append(q, s)) = Len(q) + 1
         /\ Front(Append(q, s)) = q /\ Last(Append(q, s)) = s
<1> DEFINE p == Append(q, s)
<1>1. p \in Seq(Sym) /\ p # <<>> /\ Len(p) = Len(q) + 1 /\ p[Len(q) + 1] = s
  OBVIOUS
<1> HIDE DEF p
<1>2. Append(Front(p), Last(p)) = p /\ Front(p) \in Seq(Sym) /\ Last(p) \in Sym
  BY <1>1, Divided
<1>3. Append(Front(p), Last(p)) = Append(q, s)
  BY <1>2 DEF p
<1>4. Front(p) = q /\ Last(p) = s
  BY <1>2, <1>3, AppendInjective
<1> QED  BY <1>1, <1>4 DEF p

\* Children are the same just when parent and symbol are.
LEMMA ExtendedAlike ==
  ASSUME NEW q \in Seq(Sym), NEW s \in Sym, NEW r \in Seq(Sym), NEW x \in Sym
  PROVE  Append(q, s) = Append(r, x) <=> q = r /\ s = x
  BY AppendInjective

Upto(p, n) == SubSeq(p, 1, n)

\* What the first n symbols of a path are.
LEMMA UptoIs ==
  ASSUME NEW p \in Seq(Sym), NEW n \in 0..Len(p)
  PROVE  /\ Upto(p, n) \in Seq(Sym) /\ Len(Upto(p, n)) = n
         /\ \A i \in 1..n : Upto(p, n)[i] = p[i]
         /\ n = 0 <=> Upto(p, n) = <<>>
         /\ Upto(p, Len(p)) = p
<1>1. Len(p) \in Nat /\ n \in Nat /\ \A i \in 1..n : p[i] \in Sym
  OBVIOUS
<1>2. /\ Upto(p, n) \in Seq(Sym) /\ Len(Upto(p, n)) = n
      /\ \A i \in 1..n : Upto(p, n)[i] = p[i]
  BY <1>1 DEF Upto
<1>3. Upto(p, Len(p)) = p
  BY SubSeqFull DEF Upto
<1>4. n = 0 <=> Upto(p, n) = <<>>
  <2> DEFINE u == Upto(p, n)
  <2>1. u \in Seq(Sym) /\ Len(u) = n
    BY <1>2
  <2> HIDE DEF u
  <2>2. n = 0 <=> u = <<>>
    BY <2>1
  <2> QED  BY <2>2 DEF u
<1> QED  BY <1>2, <1>3, <1>4

\* The first n are the first n - 1 and the nth.
LEMMA UptoNext ==
  ASSUME NEW p \in Seq(Sym), NEW n \in 1..Len(p)
  PROVE  /\ p[n] \in Sym /\ n - 1 \in 0..Len(p) /\ Upto(p, n) = Append(Upto(p, n - 1), p[n])
         /\ Front(Upto(p, n)) = Upto(p, n - 1) /\ Last(Upto(p, n)) = p[n]
<1>1. Len(p) \in Nat /\ n \in Nat /\ n \in 0..Len(p) /\ n - 1 \in 0..Len(p) /\ p[n] \in Sym
  OBVIOUS
<1> DEFINE u == Upto(p, n)
           v == Upto(p, n - 1)
<1>2. /\ u \in Seq(Sym) /\ Len(u) = n /\ \A i \in 1..n : u[i] = p[i]
      /\ v \in Seq(Sym) /\ Len(v) = n - 1 /\ \A i \in 1..n - 1 : v[i] = p[i]
  BY <1>1, UptoIs
<1> HIDE DEF u, v
<1>3. u = Append(v, p[n])
  <2>1. Append(v, p[n]) \in Seq(Sym) /\ Len(Append(v, p[n])) = n
    BY <1>1, <1>2
  <2>2. \A i \in 1..n : u[i] = Append(v, p[n])[i]
    BY <1>1, <1>2
  <2> QED  BY <1>2, <2>1, <2>2, SeqEqual
<1>4. Front(Append(v, p[n])) = v /\ Last(Append(v, p[n])) = p[n]
  BY <1>1, <1>2, Extended
<1> QED  BY <1>1, <1>3, <1>4 DEF u, v

\* A beginning of a beginning of a path is a beginning of it.
LEMMA UptoUpto ==
  ASSUME NEW p \in Seq(Sym), NEW n \in 0..Len(p), NEW m \in 0..n
  PROVE  Upto(Upto(p, n), m) = Upto(p, m)
<1>1. n \in Nat /\ m \in Nat /\ Len(p) \in Nat /\ m \in 0..Len(p)
  OBVIOUS
<1> DEFINE u == Upto(p, n)
<1>2. u \in Seq(Sym) /\ Len(u) = n /\ \A i \in 1..n : u[i] = p[i]
  BY UptoIs
<1> HIDE DEF u
<1>3. /\ Upto(u, m) \in Seq(Sym) /\ Len(Upto(u, m)) = m /\ \A i \in 1..m : Upto(u, m)[i] = u[i]
  BY <1>2, UptoIs
<1>4. /\ Upto(p, m) \in Seq(Sym) /\ Len(Upto(p, m)) = m /\ \A i \in 1..m : Upto(p, m)[i] = p[i]
  BY <1>1, UptoIs
<1>5. \A i \in 1..m : Upto(u, m)[i] = Upto(p, m)[i]
  BY <1>1, <1>2, <1>3, <1>4
<1> HIDE DEF Upto
<1>6. Upto(u, m) = Upto(p, m)
  BY <1>3, <1>4, <1>5, SeqEqual
<1> QED  BY <1>6 DEF u

\* A branch is a set of beginnings of its path.
LEMMA BranchIs ==
  ASSUME NEW p \in Seq(Sym), NEW n \in Nat
  PROVE  /\ Branch(p, n) = {Upto(p, m) : m \in n..Len(p)}
         /\ Branch(p, n) \subseteq Seq(Sym)
<1>1. Branch(p, n) = {Upto(p, m) : m \in n..Len(p)}
  BY DEF Branch, Upto
<1>2. \A m \in n..Len(p) : m \in 0..Len(p)
  OBVIOUS
<1> QED  BY <1>1, <1>2, UptoIs

\* A prefix is a beginning.
LEMMA PrefixIs ==
  ASSUME NEW p \in Seq(Sym), NEW q \in Seq(Sym)
  PROVE  IsPrefix(p, q) <=> Len(p) \in 0..Len(q) /\ p = Upto(q, Len(p))
<1>1. Len(p) \in Nat /\ Len(q) \in Nat
  OBVIOUS
<1>2. SubSeq(p, 1, Len(p)) = p
  BY SubSeqFull
<1> QED  BY <1>1, <1>2 DEF IsPrefix, Upto

\* A symbol is hashed into a bucket of its table.
LEMMA HashInTable ==
  ASSUME NEW s \in Sym, NEW size \in Nat
  PROVE  TrieHash(s, size) \in 1..(IF size = 0 THEN 1 ELSE size)
<1>1. CASE size = 0 \/ s.is \in {"var", "val"}
  BY <1>1 DEF TrieHash
<1>2. CASE size # 0 /\ s.is \notin {"var", "val"}
  <2>1. HashKey(s) \in Nat
    BY <1>2 DEF Sym, AnySymbol
  <2>2. HashKey(s) % size \in 0..size - 1
    BY <1>2, <2>1
  <2> QED  BY <1>2, <2>2 DEF TrieHash
<1> QED  BY <1>1, <1>2

(* The links of a trie: the chains of the children of a node, in their order.   *)

NodeRecord == [cp : {NoCP, Trust, Try, Retry}, type : Types, status : Types \union {"valid"}, leaf : BOOLEAN]
KidsRecord == [size : Nat, count : Int, bucket : Seq(Seq(Sym))]
Buckets(size) == IF size = 0 THEN 1 ELSE size

Formed(t) ==
  /\ t \in [node : [DOMAIN t.node -> NodeRecord], kids : [DOMAIN t.kids -> KidsRecord]]
  /\ DOMAIN t.node \subseteq Seq(Sym) /\ IsFiniteSet(DOMAIN t.node)
  /\ DOMAIN t.kids \subseteq DOMAIN t.node
  /\ \A q \in DOMAIN t.kids : Len(t.kids[q].bucket) = Buckets(t.kids[q].size)

\* The choice point parts of a chain of children of q are those of their places.
InPlace(t, q, c) ==
  /\ IsInjective(c)
  /\ \A i \in 1..Len(c) : Append(q, c[i]) \in DOMAIN t.node /\ t.node[Append(q, c[i])].cp = Due(i, Len(c))

Linked(t, q) ==
  LET k == t.kids[q]
  IN  \A b \in 1..Buckets(k.size) :
        /\ InPlace(t, q, k.bucket[b])
        /\ \A i \in 1..Len(k.bucket[b]) : TrieHash(k.bucket[b][i], k.size) = b

Chain(k, s) == k.bucket[TrieHash(s, k.size)]
Held(k, s) == Contains(Chain(k, s), s)

\* u is t but for how the children of q are linked.
SameBut(t, u, q) ==
  /\ DOMAIN u.node = DOMAIN t.node /\ DOMAIN u.kids = DOMAIN t.kids
  /\ \A p \in DOMAIN t.node : /\ u.node[p].type = t.node[p].type
                              /\ u.node[p].status = t.node[p].status
                              /\ u.node[p].leaf = t.node[p].leaf
  /\ \A p \in DOMAIN t.node : (\A s \in Sym : p # Append(q, s)) => u.node[p] = t.node[p]
  /\ \A r \in DOMAIN t.kids : r # q => u.kids[r] = t.kids[r]

\* Changes to the links of the same children add up to one.
LEMMA SameButOnward ==
  ASSUME NEW t, NEW u, NEW v, NEW q, SameBut(t, u, q), SameBut(u, v, q)
  PROVE  SameBut(t, v, q)
BY DEF SameBut

\* The parts of a well-formed trie are typed.
LEMMA FormedParts ==
  ASSUME NEW t, Formed(t), NEW q \in DOMAIN t.kids
  PROVE  /\ t.kids[q] \in KidsRecord /\ t.kids[q].size \in Nat /\ t.kids[q].count \in Int
         /\ t.kids[q].bucket \in Seq(Seq(Sym))
         /\ DOMAIN t.kids[q].bucket = 1..Buckets(t.kids[q].size)
         /\ \A b \in 1..Buckets(t.kids[q].size) :
              /\ t.kids[q].bucket[b] \in Seq(Sym)
              /\ Len(t.kids[q].bucket[b]) \in Nat
              /\ \A i \in 1..Len(t.kids[q].bucket[b]) : t.kids[q].bucket[b][i] \in Sym
         /\ q \in Seq(Sym) /\ q \in DOMAIN t.node
         /\ \A s \in Sym : TrieHash(s, t.kids[q].size) \in 1..Buckets(t.kids[q].size)
<1>1. t.kids[q] \in KidsRecord /\ Len(t.kids[q].bucket) = Buckets(t.kids[q].size)
  BY DEF Formed
<1>2. t.kids[q].size \in Nat /\ t.kids[q].count \in Int /\ t.kids[q].bucket \in Seq(Seq(Sym))
  BY <1>1 DEF KidsRecord
<1>3. DOMAIN t.kids[q].bucket = 1..Buckets(t.kids[q].size)
  BY <1>1, <1>2
<1>4. ASSUME NEW b \in 1..Buckets(t.kids[q].size)
      PROVE  /\ t.kids[q].bucket[b] \in Seq(Sym)
             /\ Len(t.kids[q].bucket[b]) \in Nat
             /\ \A i \in 1..Len(t.kids[q].bucket[b]) : t.kids[q].bucket[b][i] \in Sym
  <2>1. b \in 1..Len(t.kids[q].bucket)
    BY <1>1
  <2>2. t.kids[q].bucket[b] \in Seq(Sym)
    BY <1>2, <2>1, ElementOfSeq
  <2> QED  BY <2>2
<1>5. q \in Seq(Sym) /\ q \in DOMAIN t.node
  BY DEF Formed
<1>6. \A s \in Sym : TrieHash(s, t.kids[q].size) \in 1..Buckets(t.kids[q].size)
  BY <1>2, HashInTable DEF Buckets
<1> QED  BY <1>1, <1>2, <1>3, <1>4, <1>5, <1>6

\* The chain of a child is its bucket.
LEMMA ChainParts ==
  ASSUME NEW t, Formed(t), NEW q \in DOMAIN t.kids, NEW s \in Sym
  PROVE  /\ Chain(t.kids[q], s) \in Seq(Sym) /\ Len(Chain(t.kids[q], s)) \in Nat
         /\ ChainOf(t, Append(q, s)) = Chain(t.kids[q], s)
<1>1. Front(Append(q, s)) = q /\ Last(Append(q, s)) = s
  BY FormedParts, Extended
<1>2. TrieHash(s, t.kids[q].size) \in 1..Buckets(t.kids[q].size)
  BY FormedParts
<1> QED  BY <1>1, <1>2, FormedParts DEF Chain, ChainOf

\* A sequence with one element more in front.
LEMMA Fronted ==
  ASSUME NEW S, NEW c \in Seq(S), NEW s \in S
  PROVE  /\ <<s>> \o c \in Seq(S) /\ Len(<<s>> \o c) = Len(c) + 1 /\ Len(c) \in Nat
         /\ (<<s>> \o c)[1] = s /\ \A i \in 2..Len(c) + 1 : i - 1 \in 1..Len(c) /\ (<<s>> \o c)[i] = c[i - 1]
         /\ \A x : Contains(<<s>> \o c, x) <=> Contains(c, x) \/ x = s
<1> PICK d : d = <<s>> \o c
  OBVIOUS
<1>1. /\ d \in Seq(S) /\ Len(d) = Len(c) + 1 /\ Len(c) \in Nat
      /\ \A i \in 1..Len(c) + 1 : d[i] = IF i <= 1 THEN s ELSE c[i - 1]
  <2>1. /\ <<s>> \in Seq(S) /\ Len(<<s>>) = 1 /\ <<s>>[1] = s
    OBVIOUS
  <2>2. /\ d \in Seq(S) /\ Len(d) = 1 + Len(c)
        /\ \A i \in 1..1 + Len(c) : d[i] = IF i <= 1 THEN <<s>>[i] ELSE c[i - 1]
    BY <2>1, ConcatProperties
  <2> QED  BY <2>1, <2>2
<1>2. d[1] = s /\ \A i \in 2..Len(c) + 1 : i - 1 \in 1..Len(c) /\ d[i] = c[i - 1]
  BY <1>1
<1>3. ASSUME NEW x  PROVE Contains(d, x) <=> Contains(c, x) \/ x = s
  <2>1. ASSUME Contains(d, x)  PROVE Contains(c, x) \/ x = s
    <3> PICK i \in 1..Len(c) + 1 : d[i] = x
      BY <1>1, <2>1 DEF Contains
    <3>1. i = 1 \/ i \in 2..Len(c) + 1
      BY <1>1
    <3> QED  BY <1>2, <3>1 DEF Contains
  <2>2. ASSUME Contains(c, x)  PROVE Contains(d, x)
    <3> PICK i \in 1..Len(c) : c[i] = x
      BY <2>2 DEF Contains
    <3>1. i + 1 \in 2..Len(c) + 1 /\ i + 1 \in 1..Len(d) /\ (i + 1) - 1 = i
      BY <1>1
    <3>2. d[i + 1] = x
      BY <1>2, <3>1
    <3> QED  BY <3>1, <3>2 DEF Contains
  <2>3. Contains(d, s)
    <3>1. 1 \in 1..Len(d)
      BY <1>1
    <3> QED  BY <1>2, <3>1 DEF Contains
  <2> QED  BY <2>1, <2>2, <2>3
<1> QED  BY <1>1, <1>2, <1>3

\* A sequence without repetitions with one element more in front.
LEMMA Pushed ==
  ASSUME NEW S, NEW c \in Seq(S), IsInjective(c), NEW s \in S, ~ Contains(c, s)
  PROVE  /\ <<s>> \o c \in Seq(S) /\ Len(<<s>> \o c) = Len(c) + 1 /\ Len(c) \in Nat
         /\ (<<s>> \o c)[1] = s /\ \A i \in 2..Len(c) + 1 : i - 1 \in 1..Len(c) /\ (<<s>> \o c)[i] = c[i - 1]
         /\ IsInjective(<<s>> \o c)
         /\ \A x : Contains(<<s>> \o c, x) <=> Contains(c, x) \/ x = s
<1> PICK d : d = <<s>> \o c
  OBVIOUS
<1>1. /\ d \in Seq(S) /\ Len(d) = Len(c) + 1 /\ Len(c) \in Nat
      /\ d[1] = s /\ \A i \in 2..Len(c) + 1 : i - 1 \in 1..Len(c) /\ d[i] = c[i - 1]
      /\ \A x : Contains(d, x) <=> Contains(c, x) \/ x = s
  BY Fronted
<1>2. d[1] = s /\ \A i \in 2..Len(c) + 1 : i - 1 \in 1..Len(c) /\ d[i] = c[i - 1]
  BY <1>1
<1>3. \A i \in 1..Len(c) : c[i] # s
  BY DEF Contains
<1>4. IsInjective(d)
  <2>1. \A i, j \in 1..Len(c) : c[i] = c[j] => i = j
    BY <1>1 DEF IsInjective
  <2>2. DOMAIN d = 1..Len(c) + 1
    BY <1>1
  <2>3. ASSUME NEW i \in 1..Len(c) + 1, NEW j \in 1..Len(c) + 1, d[i] = d[j]  PROVE i = j
    <3>1. CASE i = 1 /\ j = 1
      BY <3>1
    <3>2. CASE i = 1 /\ j # 1
      <4>1. j \in 2..Len(c) + 1
        BY <1>1, <3>2
      <4> QED  BY <1>2, <1>3, <2>3, <3>2, <4>1
    <3>3. CASE i # 1 /\ j = 1
      <4>1. i \in 2..Len(c) + 1
        BY <1>1, <3>3
      <4> QED  BY <1>2, <1>3, <2>3, <3>3, <4>1
    <3>4. CASE i # 1 /\ j # 1
      <4>1. i \in 2..Len(c) + 1 /\ j \in 2..Len(c) + 1
        BY <1>1, <3>4
      <4>2. /\ i - 1 \in 1..Len(c) /\ d[i] = c[i - 1]
            /\ j - 1 \in 1..Len(c) /\ d[j] = c[j - 1]
        BY <1>2, <4>1
      <4>3. c[i - 1] = c[j - 1]
        BY <2>3, <4>2
      <4>4. i - 1 = j - 1
        BY <2>1, <4>2, <4>3
      <4> QED  BY <1>1, <4>1, <4>4
    <3> QED  BY <3>1, <3>2, <3>3, <3>4
  <2> QED  BY <2>2, <2>3 DEF IsInjective
<1> QED  BY <1>1, <1>4

\* With a node before it, a node needs the next choice point part if it was the head,
\* else the same.
LEMMA DueOnward ==
  ASSUME NEW n \in Nat, NEW i \in 1..n
  PROVE  /\ Due(i + 1, n + 1) = IF i = 1 THEN Due(1, n) + 1 ELSE Due(i, n)
         /\ Due(1, n + 1) = Try /\ Due(1, 1) = NoCP
BY DEF Due, NoCP, Trust, Try, Retry

\* The head of a chain is its TRY, unless it is alone.
LEMMA DueFirst ==
  ASSUME NEW n \in Nat \ {0}
  PROVE  Due(1, n) = IF n = 1 THEN NoCP ELSE Try
BY DEF Due

\* A chain stays in place in a trie with the same choice point parts.
LEMMA SameNodes ==
  ASSUME NEW f, NEW g, NEW q, NEW c, InPlace(f, q, c),
         \A i \in 1..Len(c) : Append(q, c[i]) \in DOMAIN g.node /\ g.node[Append(q, c[i])].cp = f.node[Append(q, c[i])].cp
  PROVE  InPlace(g, q, c)
BY DEF InPlace

\* AtHead puts the node at the head of its chain, and changes nothing else.
LEMMA AtHeadKeeps ==
  ASSUME NEW t, Formed(t), NEW q \in DOMAIN t.kids, NEW s \in Sym, Append(q, s) \in DOMAIN t.node,
         Linked(t, q), ~ Held(t.kids[q], s)
  PROVE  LET u == AtHead(t, Append(q, s))
         IN  /\ Formed(u) /\ SameBut(t, u, q) /\ Linked(u, q)
             /\ u.kids[q].size = t.kids[q].size /\ u.kids[q].count = t.kids[q].count
             /\ \A x \in Sym : Held(u.kids[q], x) <=> Held(t.kids[q], x) \/ x = s
             /\ Chain(u.kids[q], s) = <<s>> \o Chain(t.kids[q], s)
<1>0. PICK u, k, c, p, h : u = AtHead(t, Append(q, s)) /\ k = t.kids[q] /\ c = Chain(k, s) /\ p = Append(q, s) /\ h = TrieHash(s, k.size)
  OBVIOUS
<1>1. /\ u.node = IF c = <<>> THEN [t.node EXCEPT ![p].cp = NoCP]
                  ELSE [t.node EXCEPT ![p].cp = Try, ![Append(q, c[1])].cp = @ + 1]
      /\ u.kids = [t.kids EXCEPT ![q] = [k EXCEPT !.bucket = [k.bucket EXCEPT ![h] = <<s>> \o c]]]
  <2>1. u = AtHead(t, Append(q, s)) /\ k = t.kids[q] /\ c = Chain(k, s)
    BY <1>0
  <2>2. /\ u.node = IF c = <<>> THEN [t.node EXCEPT ![Append(q, s)].cp = NoCP]
                    ELSE [t.node EXCEPT ![Append(q, s)].cp = Try, ![Append(q, c[1])].cp = @ + 1]
        /\ u.kids = [t.kids EXCEPT ![q] = [k EXCEPT !.bucket = [k.bucket EXCEPT ![TrieHash(s, k.size)] = <<s>> \o c]]]
    <3>1. Front(Append(q, s)) = q /\ Last(Append(q, s)) = s
      BY FormedParts, Extended
    <3>2. ChainOf(t, Append(q, s)) = c
      BY <2>1, ChainParts
    <3>3. Head(c) = c[1]
      OBVIOUS
    <3> QED  BY <2>1, <3>1, <3>2, <3>3 DEF AtHead
  <2>3. p = Append(q, s) /\ h = TrieHash(s, k.size)
    BY <1>0
  <2> QED  BY <2>2, <2>3, Zenon
<1>2. /\ k \in KidsRecord /\ k.size \in Nat /\ k.bucket \in Seq(Seq(Sym)) /\ DOMAIN k.bucket = 1..Buckets(k.size)
      /\ h \in 1..Buckets(k.size) /\ c = k.bucket[h] /\ c \in Seq(Sym) /\ Len(c) \in Nat /\ q \in Seq(Sym)
      /\ \A i \in 1..Len(c) : c[i] \in Sym
  BY <1>0, FormedParts DEF Chain
<1>c. Len(c) \in Nat /\ DOMAIN c = 1..Len(c) /\ (c = <<>> <=> Len(c) = 0) /\ \A i \in 1..Len(c) : c[i] \in Sym
  <2>1. c \in Seq(Sym)
    BY <1>2
  <2> QED  BY <2>1
<1>p. p = Append(q, s) /\ q \in Seq(Sym) /\ p \in DOMAIN t.node
  BY <1>0, FormedParts
<1>3. InPlace(t, q, c) /\ \A i \in 1..Len(c) : TrieHash(c[i], k.size) = h
  BY <1>0, <1>2 DEF Linked
<1>4. ~ Contains(c, s) /\ \A i \in 1..Len(c) : c[i] # s
  BY <1>0 DEF Held, Contains
<1>d. PICK d : d = <<s>> \o c
  OBVIOUS
<1>5. /\ d \in Seq(Sym) /\ Len(d) = Len(c) + 1 /\ d[1] = s /\ IsInjective(d)
      /\ \A i \in 2..Len(c) + 1 : i - 1 \in 1..Len(c) /\ d[i] = c[i - 1]
      /\ \A x : Contains(d, x) <=> Contains(c, x) \/ x = s
  <2>1. IsInjective(c)
    BY <1>3 DEF InPlace
  <2> QED  BY <1>2, <1>4, <1>d, <2>1, Pushed
<1>l. /\ Len(d) = Len(c) + 1 /\ d[1] = s
      /\ \A i \in 2..Len(c) + 1 : i - 1 \in 1..Len(c) /\ d[i] = c[i - 1]
  BY <1>5
<1>6. /\ DOMAIN u.node = DOMAIN t.node
      /\ u.node[p].cp = IF c = <<>> THEN NoCP ELSE Try
      /\ \A x \in DOMAIN t.node : /\ u.node[x].type = t.node[x].type
                                  /\ u.node[x].status = t.node[x].status
                                  /\ u.node[x].leaf = t.node[x].leaf
                                  /\ u.node[x] \in [cp : {NoCP, Trust, Try, Retry, Retry + 1}, type : Types, status : Types \union {"valid"}, leaf : BOOLEAN]
      /\ \A x \in DOMAIN t.node : x # p /\ (c = <<>> \/ x # Append(q, c[1])) => u.node[x] = t.node[x]
      /\ c # <<>> => /\ Append(q, c[1]) \in DOMAIN t.node /\ Append(q, c[1]) # p
                     /\ u.node[Append(q, c[1])].cp = t.node[Append(q, c[1])].cp + 1
  <2>1. c # <<>> => Append(q, c[1]) \in DOMAIN t.node /\ Append(q, c[1]) # p
    <3> SUFFICES ASSUME c # <<>>  PROVE Append(q, c[1]) \in DOMAIN t.node /\ Append(q, c[1]) # p
      OBVIOUS
    <3>1. 1 \in 1..Len(c)
      BY <1>c
    <3>2. c[1] # s /\ c[1] \in Sym
      BY <1>c, <1>4, <3>1
    <3> QED  BY <1>p, <1>3, <3>1, <3>2, ExtendedAlike DEF InPlace
  <2>2. t.node \in [DOMAIN t.node -> NodeRecord] /\ p \in DOMAIN t.node
    BY <1>p DEF Formed
  <2>3. CASE c = <<>>
    <3>1. u.node = [t.node EXCEPT ![p].cp = NoCP]
      BY <1>1, <2>3
    <3> QED  BY <2>1, <2>2, <2>3, <3>1 DEF NodeRecord
  <2>4. CASE c # <<>>
    <3>1. u.node = [t.node EXCEPT ![p].cp = Try, ![Append(q, c[1])].cp = @ + 1]
      BY <1>1, <2>4
    <3> PICK r : r = Append(q, c[1])
      OBVIOUS
    <3>2. u.node = [t.node EXCEPT ![p].cp = Try, ![r].cp = @ + 1] /\ r \in DOMAIN t.node /\ r # p
      BY <2>1, <2>4, <3>1
    <3>3. u.node = [x \in DOMAIN t.node |-> IF x = r THEN [t.node[r] EXCEPT !.cp = @ + 1]
                                            ELSE IF x = p THEN [t.node[p] EXCEPT !.cp = Try] ELSE t.node[x]]
      BY <2>2, <3>2
    <3>4. t.node[r] \in NodeRecord /\ t.node[p] \in NodeRecord
      BY <2>2, <3>2
    <3>5. /\ u.node[r] = [t.node[r] EXCEPT !.cp = @ + 1]
          /\ u.node[p] = [t.node[p] EXCEPT !.cp = Try]
          /\ \A x \in DOMAIN t.node : x # p /\ x # r => u.node[x] = t.node[x]
      BY <2>2, <3>2, <3>3
    <3>6. ASSUME NEW x \in DOMAIN t.node
          PROVE  /\ u.node[x].type = t.node[x].type
                 /\ u.node[x].status = t.node[x].status
                 /\ u.node[x].leaf = t.node[x].leaf
                 /\ u.node[x] \in [cp : {NoCP, Trust, Try, Retry, Retry + 1}, type : Types, status : Types \union {"valid"}, leaf : BOOLEAN]
      <4>1. CASE x = r
        BY <3>4, <3>5, <4>1 DEF NodeRecord, NoCP, Trust, Try, Retry
      <4>2. CASE x = p
        BY <3>4, <3>5, <4>2 DEF NodeRecord
      <4>3. CASE x # r /\ x # p
        <5>1. t.node[x] \in NodeRecord
          BY <2>2
        <5> QED  BY <3>5, <4>3, <5>1 DEF NodeRecord
      <4> QED  BY <4>1, <4>2, <4>3
    <3>7. DOMAIN u.node = DOMAIN t.node
      BY <3>3
    <3>8. u.node[r].cp = t.node[r].cp + 1 /\ u.node[p].cp = Try
      BY <3>4, <3>5 DEF NodeRecord
    <3> QED  BY <2>1, <2>4, <3>5, <3>6, <3>7, <3>8
  <2> QED  BY <2>3, <2>4
<1>7. InPlace(u, q, d)
  <2>1. ASSUME NEW i \in 1..Len(d)
        PROVE  Append(q, d[i]) \in DOMAIN u.node /\ u.node[Append(q, d[i])].cp = Due(i, Len(d))
    <3>1. CASE i = 1
      <4>1. c = <<>> => Len(c) = 0
        OBVIOUS
      <4>2. c # <<>> => Len(c) \in Nat \ {0} /\ 1 \in 1..Len(c)
        BY <1>c
      <4>3. Due(1, Len(d)) = IF c = <<>> THEN NoCP ELSE Try
        BY <1>l, <4>1, <4>2, DueOnward DEF Due
      <4> QED  BY <1>l, <1>p, <1>6, <3>1, <4>3
    <3>2. CASE i # 1
      <4>0. PICK j : j = i - 1
        OBVIOUS
      <4>1. j \in 1..Len(c) /\ i = j + 1 /\ d[i] = c[j] /\ c # <<>> /\ c[j] \in Sym /\ c[1] \in Sym
        <5>1. i \in 2..Len(c) + 1 /\ i = j + 1
          BY <1>c, <1>l, <3>2, <4>0
        <5>2. j \in 1..Len(c) /\ d[i] = c[j]
          BY <1>l, <4>0, <5>1
        <5>3. 1 \in 1..Len(c) /\ c # <<>>
          BY <1>c, <5>2
        <5> QED  BY <1>c, <5>1, <5>2, <5>3
      <4>2. t.node[Append(q, c[j])].cp = Due(j, Len(c)) /\ Append(q, c[j]) \in DOMAIN t.node
        BY <1>3, <4>1 DEF InPlace
      <4>3. Due(i, Len(d)) = IF j = 1 THEN Due(1, Len(c)) + 1 ELSE Due(j, Len(c))
        BY <1>c, <1>l, <4>1, DueOnward
      <4>4. Append(q, c[j]) # p
        BY <1>p, <1>4, <4>1, ExtendedAlike
      <4>5. CASE j = 1
        BY <1>6, <4>1, <4>2, <4>3, <4>5
      <4>6. CASE j # 1
        <5>1. 1 \in DOMAIN c /\ j \in DOMAIN c
          BY <1>c, <4>1
        <5>2. c[j] # c[1]
          BY <1>3, <4>6, <5>1 DEF InPlace, IsInjective
        <5>3. Append(q, c[j]) # Append(q, c[1])
          BY <1>p, <4>1, <5>2, ExtendedAlike
        <5> QED  BY <1>6, <4>1, <4>2, <4>3, <4>4, <4>6, <5>3
      <4> QED  BY <4>5, <4>6
    <3> QED  BY <3>1, <3>2
  <2> QED  BY <1>5, <2>1 DEF InPlace
<1>8. /\ DOMAIN u.kids = DOMAIN t.kids
      /\ \A r \in DOMAIN t.kids : r # q => u.kids[r] = t.kids[r]
      /\ u.kids[q] \in KidsRecord /\ u.kids[q].size = k.size /\ u.kids[q].count = k.count
      /\ u.kids[q].bucket = [k.bucket EXCEPT ![h] = d] /\ Len(u.kids[q].bucket) = Buckets(k.size)
  <2>0. PICK B : B = [k.bucket EXCEPT ![h] = d]
    OBVIOUS
  <2>1. u.kids = [t.kids EXCEPT ![q] = [k EXCEPT !.bucket = B]]
    BY <1>1, <1>d, <2>0
  <2>4. Len(k.bucket) = Buckets(k.size)
    BY <1>0 DEF Formed
  <2>2. h \in 1..Len(k.bucket) /\ d \in Seq(Sym)
    BY <1>2, <1>5, <2>4
  <2>3. B \in Seq(Seq(Sym)) /\ Len(B) = Len(k.bucket)
    <3>1. k.bucket \in Seq(Seq(Sym))
      BY <1>2
    <3> QED  BY <2>0, <2>2, <3>1, ExceptSeq
  <2>5. u.kids[q] = [k EXCEPT !.bucket = B]
    BY <2>1
  <2>6. /\ u.kids[q] \in KidsRecord /\ u.kids[q].size = k.size /\ u.kids[q].count = k.count
        /\ u.kids[q].bucket = B
    BY <1>2, <2>3, <2>5 DEF KidsRecord
  <2>7. DOMAIN u.kids = DOMAIN t.kids /\ \A r \in DOMAIN t.kids : r # q => u.kids[r] = t.kids[r]
    BY <2>1
  <2> QED  BY <2>0, <2>3, <2>4, <2>6, <2>7
<1>9. SameBut(t, u, q)
  <2>1. ASSUME NEW x \in DOMAIN t.node, \A y \in Sym : x # Append(q, y)  PROVE u.node[x] = t.node[x]
    <3>1. x # p
      BY <1>p, <2>1
    <3>2. c # <<>> => x # Append(q, c[1])
      <4>1. c # <<>> => 1 \in 1..Len(c)
        BY <1>c
      <4> QED  BY <1>c, <2>1, <4>1
    <3> QED  BY <1>6, <3>1, <3>2
  <2> QED  BY <1>6, <1>8, <2>1 DEF SameBut
<1>10. \A b \in 1..Buckets(k.size) : u.kids[q].bucket[b] = IF b = h THEN d ELSE k.bucket[b]
  BY <1>2, <1>8
<1>11. Linked(u, q)
  <2> SUFFICES ASSUME NEW b \in 1..Buckets(k.size)
               PROVE  /\ InPlace(u, q, u.kids[q].bucket[b])
                      /\ \A i \in 1..Len(u.kids[q].bucket[b]) : TrieHash(u.kids[q].bucket[b][i], k.size) = b
    BY <1>8 DEF Linked
  <2>1. CASE b = h
    <3>1. u.kids[q].bucket[b] = d
      BY <1>10, <2>1
    <3>2. ASSUME NEW i \in 1..Len(d)  PROVE TrieHash(d[i], k.size) = b
      <4>1. i = 1 \/ i \in 2..Len(c) + 1
        BY <1>c, <1>l
      <4> QED  BY <1>0, <1>3, <1>l, <2>1, <4>1
    <3> QED  BY <1>7, <3>1, <3>2
  <2>2. CASE b # h
    <3>0. PICK e : e = k.bucket[b]
      OBVIOUS
    <3>1. /\ u.kids[q].bucket[b] = e /\ InPlace(t, q, e) /\ \A i \in 1..Len(e) : e[i] \in Sym /\ TrieHash(e[i], k.size) = b
      BY <1>0, <1>10, <2>2, <3>0, FormedParts DEF Linked
    <3>2. ASSUME NEW i \in 1..Len(e)
          PROVE  Append(q, e[i]) \in DOMAIN u.node /\ u.node[Append(q, e[i])].cp = t.node[Append(q, e[i])].cp
      <4>1. Append(q, e[i]) \in DOMAIN t.node
        BY <3>1 DEF InPlace
      <4>2. e[i] # s
        BY <1>0, <2>2, <3>1
      <4>3. c # <<>> => 1 \in 1..Len(c) /\ c[1] \in Sym /\ e[i] # c[1]
        BY <1>c, <1>3, <2>2, <3>1
      <4>4. Append(q, e[i]) # p /\ (c # <<>> => Append(q, e[i]) # Append(q, c[1]))
        BY <1>p, <3>1, <4>2, <4>3, ExtendedAlike
      <4> QED  BY <1>6, <4>1, <4>4
    <3>3. InPlace(u, q, e)
      BY <3>1, <3>2, SameNodes
    <3> QED  BY <3>1, <3>3
  <2> QED  BY <2>1, <2>2
<1>12. Formed(u)
  <2>1. ASSUME NEW x \in DOMAIN t.node  PROVE u.node[x] \in NodeRecord
    <3>1. t.node[x] \in NodeRecord
      BY DEF Formed
    <3>2. x = p => u.node[x].cp \in {NoCP, Try}
      BY <1>6
    <3>3. c # <<>> /\ x = Append(q, c[1]) => u.node[x].cp \in {Trust, Retry}
      <4> SUFFICES ASSUME c # <<>>, x = Append(q, c[1])  PROVE u.node[x].cp \in {Trust, Retry}
        OBVIOUS
      <4>1. Len(c) \in Nat \ {0} /\ 1 \in 1..Len(c)
        BY <1>c
      <4>2. t.node[x].cp = Due(1, Len(c))
        BY <1>3, <4>1 DEF InPlace
      <4>3. Due(1, Len(c)) = IF Len(c) = 1 THEN NoCP ELSE Try
        BY <4>1, DueFirst
      <4>4. NoCP + 1 = Trust /\ Try + 1 = Retry
        BY DEF NoCP, Trust, Try, Retry
      <4> QED  BY <1>6, <4>2, <4>3, <4>4
    <3>4. u.node[x].cp \in {NoCP, Trust, Try, Retry} \/ u.node[x] = t.node[x]
      BY <1>6, <3>2, <3>3
    <3> QED  BY <1>6, <3>1, <3>4 DEF NodeRecord
  <2>2. u.node \in [DOMAIN t.node -> NodeRecord]
    <3>1. u.node = [x \in DOMAIN t.node |-> u.node[x]]
      BY <1>1, <1>6
    <3> QED  BY <2>1, <3>1
  <2>3. ASSUME NEW r \in DOMAIN t.kids  PROVE u.kids[r] \in KidsRecord /\ Len(u.kids[r].bucket) = Buckets(u.kids[r].size)
    <3>1. CASE r = q
      BY <1>8, <3>1
    <3>2. CASE r # q
      BY <1>8, <3>2 DEF Formed
    <3> QED  BY <3>1, <3>2
  <2>4. u.kids \in [DOMAIN t.kids -> KidsRecord]
    <3>1. u.kids = [x \in DOMAIN t.kids |-> u.kids[x]]
      BY <1>1, <1>8
    <3> QED  BY <2>3, <3>1
  <2>5. u = [node |-> u.node, kids |-> u.kids]
    <3>1. u = AtHead(t, Append(q, s))
      BY <1>0
    <3> QED  BY <3>1 DEF AtHead
  <2>6. u \in [node : [DOMAIN t.node -> NodeRecord], kids : [DOMAIN t.kids -> KidsRecord]]
    BY <2>2, <2>4, <2>5
  <2> QED  BY <1>6, <1>8, <2>3, <2>6 DEF Formed
<1>13. \A x \in Sym : Held(u.kids[q], x) <=> Held(k, x) \/ x = s
  <2> SUFFICES ASSUME NEW x \in Sym  PROVE Held(u.kids[q], x) <=> Held(k, x) \/ x = s
    OBVIOUS
  <2>1. TrieHash(x, k.size) \in 1..Buckets(k.size)
    BY <1>0, FormedParts
  <2>2. Held(u.kids[q], x) <=> Contains(u.kids[q].bucket[TrieHash(x, k.size)], x)
    BY <1>8 DEF Held, Chain
  <2>3. Held(k, x) <=> Contains(k.bucket[TrieHash(x, k.size)], x)
    BY DEF Held, Chain
  <2>4. CASE TrieHash(x, k.size) = h
    BY <1>2, <1>5, <1>10, <2>1, <2>2, <2>3, <2>4
  <2>5. CASE TrieHash(x, k.size) # h
    <3>1. u.kids[q].bucket[TrieHash(x, k.size)] = k.bucket[TrieHash(x, k.size)]
      BY <1>10, <2>1, <2>5
    <3>2. x # s
      BY <1>0, <2>5
    <3> QED  BY <2>2, <2>3, <3>1, <3>2
  <2> QED  BY <2>4, <2>5
<1>14. Chain(u.kids[q], s) = d
  BY <1>0, <1>2, <1>8, <1>10 DEF Chain
<1> QED  BY <1>0, <1>d, <1>8, <1>9, <1>11, <1>12, <1>13, <1>14

(* The siblings of a node in one sequence. *)

\* Two sequences without repetitions and with nothing in common, one after the other.
LEMMA ConcatSome ==
  ASSUME NEW S, NEW a \in Seq(S), NEW b \in Seq(S), IsInjective(a), IsInjective(b),
         \A x : ~ (Contains(a, x) /\ Contains(b, x))
  PROVE  /\ IsInjective(a \o b) /\ a \o b \in Seq(S)
         /\ \A x : Contains(a \o b, x) <=> Contains(a, x) \/ Contains(b, x)
<1>0. PICK c, m, n : c = a \o b /\ m = Len(a) /\ n = Len(b)
  OBVIOUS
<1>1. /\ m \in Nat /\ n \in Nat /\ c \in Seq(S) /\ Len(c) = m + n /\ DOMAIN c = 1..m + n
      /\ \A i \in 1..m + n : c[i] = IF i <= m THEN a[i] ELSE b[i - m]
  BY <1>0, ConcatProperties
<1>2. /\ \A i, j \in 1..m : a[i] = a[j] => i = j
      /\ \A i, j \in 1..n : b[i] = b[j] => i = j
      /\ \A i \in 1..m, j \in 1..n : a[i] # b[j]
  <2>1. DOMAIN a = 1..m /\ DOMAIN b = 1..n
    BY <1>0
  <2>2. ASSUME NEW i \in 1..m, NEW j \in 1..n, a[i] = b[j]  PROVE FALSE
    <3>1. Contains(a, a[i]) /\ Contains(b, b[j])
      BY <1>0 DEF Contains
    <3> QED  BY <2>2, <3>1
  <2> QED  BY <2>1, <2>2 DEF IsInjective
<1>3. ASSUME NEW i \in 1..m + n, NEW j \in 1..m + n, c[i] = c[j]  PROVE i = j
  <2>0. m \in Nat /\ n \in Nat
    BY <1>1
  <2>1. CASE i <= m /\ j <= m
    <3>1. i \in 1..m /\ j \in 1..m
      BY <2>0, <2>1
    <3>2. c[i] = a[i] /\ c[j] = a[j]
      BY <1>1, <2>1
    <3> QED  BY <1>2, <1>3, <3>1, <3>2
  <2>2. CASE i <= m /\ ~ (j <= m)
    <3>1. i \in 1..m /\ j - m \in 1..n
      BY <2>0, <2>2
    <3>2. c[i] = a[i] /\ c[j] = b[j - m]
      BY <1>1, <2>2
    <3> QED  BY <1>2, <1>3, <3>1, <3>2
  <2>3. CASE ~ (i <= m) /\ j <= m
    <3>1. j \in 1..m /\ i - m \in 1..n
      BY <2>0, <2>3
    <3>2. c[i] = b[i - m] /\ c[j] = a[j]
      BY <1>1, <2>3
    <3> QED  BY <1>2, <1>3, <3>1, <3>2
  <2>4. CASE ~ (i <= m) /\ ~ (j <= m)
    <3>1. i - m \in 1..n /\ j - m \in 1..n
      BY <2>0, <2>4
    <3>2. c[i] = b[i - m] /\ c[j] = b[j - m]
      BY <1>1, <2>4
    <3>3. i - m = j - m
      BY <1>2, <1>3, <3>1, <3>2
    <3> QED  BY <2>0, <3>3
  <2> QED  BY <2>1, <2>2, <2>3, <2>4
<1>4. IsInjective(c)
  BY <1>1, <1>3 DEF IsInjective
<1>5. ASSUME NEW x  PROVE Contains(c, x) <=> Contains(a, x) \/ Contains(b, x)
  <2>0. m \in Nat /\ n \in Nat
    BY <1>1
  <2>1. ASSUME NEW i \in 1..m + n, c[i] = x  PROVE Contains(a, x) \/ Contains(b, x)
    <3>1. CASE i <= m
      <4>1. i \in 1..m /\ a[i] = x
        BY <1>1, <2>0, <2>1, <3>1
      <4> QED  BY <1>0, <4>1 DEF Contains
    <3>2. CASE ~ (i <= m)
      <4>1. i - m \in 1..n
        BY <2>0, <3>2
      <4>2. b[i - m] = x
        BY <1>1, <2>1, <3>2
      <4> QED  BY <1>0, <4>1, <4>2 DEF Contains
    <3> QED  BY <3>1, <3>2
  <2>2. ASSUME NEW i \in 1..m, a[i] = x  PROVE Contains(c, x)
    <3>1. i \in 1..m + n /\ i <= m
      BY <2>0
    <3>2. c[i] = x
      BY <1>1, <2>2, <3>1
    <3> QED  BY <1>1, <3>1, <3>2 DEF Contains
  <2>3. ASSUME NEW i \in 1..n, b[i] = x  PROVE Contains(c, x)
    <3>1. i + m \in 1..m + n /\ ~ (i + m <= m) /\ (i + m) - m = i
      BY <2>0
    <3>2. c[i + m] = b[(i + m) - m]
      BY <1>1, <3>1
    <3> QED  BY <1>1, <2>3, <3>1, <3>2 DEF Contains
  <2> QED  BY <1>0, <1>1, <2>1, <2>2, <2>3 DEF Contains
<1> QED  BY <1>0, <1>1, <1>4, <1>5

\* The elements of all the sequences of seqs, none of them twice.
Disjoint(seqs) ==
  /\ \A i \in 1..Len(seqs) : IsInjective(seqs[i])
  /\ \A i, j \in 1..Len(seqs) : \A x : Contains(seqs[i], x) /\ Contains(seqs[j], x) => i = j
Flat(S, seqs) ==
  /\ FlattenSeq(seqs) \in Seq(S) /\ IsInjective(FlattenSeq(seqs))
  /\ \A x : Contains(FlattenSeq(seqs), x) <=> \E i \in 1..Len(seqs) : Contains(seqs[i], x)

\* Flattening sequences without repetitions and with nothing in common makes one without
\* repetitions.
LEMMA FlattenSome ==
  ASSUME NEW S, NEW seqs \in Seq(Seq(S)), Disjoint(seqs)
  PROVE  Flat(S, seqs)
<1> DEFINE N == {n \in Nat : \A s \in Seq(Seq(S)) : Len(s) = n /\ Disjoint(s) => Flat(S, s)}
<1>1. 0 \in N
  <2> SUFFICES ASSUME NEW s \in Seq(Seq(S)), Len(s) = 0  PROVE Flat(S, s)
    OBVIOUS
  <2>1. s = <<>>
    OBVIOUS
  <2>2. FlattenSeq(s) = <<>> /\ <<>> \in Seq(S) /\ Len(<<>>) = 0 /\ DOMAIN <<>> = {}
    BY <2>1, FlattenEmpty
  <2>3. \A x : ~ Contains(<<>>, x)
    BY <2>2 DEF Contains
  <2>4. IsInjective(<<>>)
    BY <2>2 DEF IsInjective
  <2>5. \A i \in 1..Len(s) : FALSE
    OBVIOUS
  <2> QED  BY <2>2, <2>3, <2>4, <2>5 DEF Flat
<1>2. ASSUME NEW n \in Nat, n \in N  PROVE n + 1 \in N
  <2> SUFFICES ASSUME NEW s \in Seq(Seq(S)), Len(s) = n + 1, Disjoint(s)  PROVE Flat(S, s)
    OBVIOUS
  <2>0. PICK t, x : t = SubSeq(s, 1, n) /\ x = s[n + 1]
    OBVIOUS
  <2>1. /\ t \in Seq(Seq(S)) /\ Len(t) = n /\ x \in Seq(S)
        /\ \A i \in 1..n : t[i] = s[i] /\ i \in 1..n + 1
    BY <2>0
  <2>2. s = Append(t, x)
    <3>1. Append(t, x) \in Seq(Seq(S)) /\ Len(Append(t, x)) = n + 1
      BY <2>1
    <3>2. \A i \in 1..n + 1 : s[i] = Append(t, x)[i]
      BY <2>0, <2>1
    <3> QED  BY <3>1, <3>2, SeqEqual
  <2>3. /\ \A i \in 1..n + 1 : IsInjective(s[i])
        /\ \A i, j \in 1..n + 1 : \A y : Contains(s[i], y) /\ Contains(s[j], y) => i = j
    BY DEF Disjoint
  <2>4. Disjoint(t)
    BY <2>1, <2>3 DEF Disjoint
  <2>5. Flat(S, t)
    BY <1>2, <2>1, <2>4
  <2>6. PICK u : u = FlattenSeq(t)
    OBVIOUS
  <2>7. /\ u \in Seq(S) /\ IsInjective(u)
        /\ \A y : Contains(u, y) <=> \E i \in 1..n : Contains(t[i], y)
    BY <2>1, <2>5, <2>6 DEF Flat
  <2>8. n + 1 \in 1..n + 1 /\ \A i \in 1..n : i # n + 1
    OBVIOUS
  <2>9. IsInjective(x) /\ \A y : ~ (Contains(u, y) /\ Contains(x, y))
    BY <2>0, <2>1, <2>3, <2>7, <2>8
  <2>10. FlattenSeq(s) = u \o x
    BY <2>1, <2>2, <2>6, FlattenAppend
  <2>11. /\ IsInjective(u \o x) /\ u \o x \in Seq(S)
         /\ \A y : Contains(u \o x, y) <=> Contains(u, y) \/ Contains(x, y)
    BY <2>1, <2>7, <2>9, ConcatSome
  <2>12. ASSUME NEW y
         PROVE  Contains(u, y) \/ Contains(x, y) <=> \E i \in 1..n + 1 : Contains(s[i], y)
    <3>1. ASSUME NEW i \in 1..n + 1, Contains(s[i], y)  PROVE Contains(u, y) \/ Contains(x, y)
      <4>1. i \in 1..n \/ i = n + 1
        OBVIOUS
      <4> QED  BY <2>0, <2>1, <2>7, <3>1, <4>1
    <3> QED  BY <2>0, <2>1, <2>7, <2>8, <3>1
  <2> QED  BY <2>10, <2>11, <2>12 DEF Flat
<1> HIDE DEF N
<1>3. Len(seqs) \in N
  <2>1. Len(seqs) \in Nat
    OBVIOUS
  <2> QED  BY <1>1, <1>2, <2>1, NatSetInduction
<1> QED  BY <1>3 DEF N

\* All children of a node, bucket after bucket, are listed once.
LEMMA LinkedAll ==
  ASSUME NEW t, Formed(t), NEW q \in DOMAIN t.kids, Linked(t, q)
  PROVE  LET symbols == FlattenSeq(t.kids[q].bucket)
         IN  /\ symbols \in Seq(Sym) /\ IsInjective(symbols) /\ Len(symbols) \in Nat
             /\ \A x \in Sym : Contains(symbols, x) <=> Held(t.kids[q], x)
             /\ \A i \in 1..Len(symbols) : symbols[i] \in Sym /\ Append(q, symbols[i]) \in DOMAIN t.node
<1>0. PICK k, n : k = t.kids[q] /\ n = Buckets(k.size)
  OBVIOUS
<1>1. /\ k.bucket \in Seq(Seq(Sym)) /\ Len(k.bucket) = n /\ \A b \in 1..n : k.bucket[b] \in Seq(Sym)
      /\ \A b \in 1..n : \A i \in 1..Len(k.bucket[b]) : k.bucket[b][i] \in Sym
      /\ \A s \in Sym : TrieHash(s, k.size) \in 1..n
  BY <1>0, FormedParts DEF Formed
<1>2. \A b \in 1..n : /\ InPlace(t, q, k.bucket[b])
                      /\ \A i \in 1..Len(k.bucket[b]) : TrieHash(k.bucket[b][i], k.size) = b
  BY <1>0 DEF Linked
<1>3. \A b \in 1..n : \A x : Contains(k.bucket[b], x) => x \in Sym /\ TrieHash(x, k.size) = b /\ Append(q, x) \in DOMAIN t.node
  BY <1>1, <1>2 DEF Contains, InPlace
<1>4. Disjoint(k.bucket)
  <2>1. \A b \in 1..n : IsInjective(k.bucket[b])
    BY <1>2 DEF InPlace
  <2>2. \A i, j \in 1..n : \A x : Contains(k.bucket[i], x) /\ Contains(k.bucket[j], x) => i = j
    BY <1>3
  <2> QED  BY <1>1, <2>1, <2>2 DEF Disjoint
<1>5. Flat(Sym, k.bucket)
  BY <1>1, <1>4, FlattenSome
<1>6. PICK symbols : symbols = FlattenSeq(k.bucket)
  OBVIOUS
<1>7. /\ symbols \in Seq(Sym) /\ IsInjective(symbols)
      /\ \A x : Contains(symbols, x) <=> \E i \in 1..n : Contains(k.bucket[i], x)
  BY <1>1, <1>5, <1>6 DEF Flat
<1>8. ASSUME NEW x \in Sym  PROVE Contains(symbols, x) <=> Held(k, x)
  BY <1>1, <1>3, <1>7 DEF Held, Chain
<1>9. Len(symbols) \in Nat /\ \A i \in 1..Len(symbols) : symbols[i] \in Sym /\ Contains(symbols, symbols[i])
  BY <1>7 DEF Contains
<1>10. \A i \in 1..Len(symbols) : Append(q, symbols[i]) \in DOMAIN t.node
  BY <1>3, <1>7, <1>9
<1> QED  BY <1>0, <1>6, <1>7, <1>8, <1>9, <1>10

\* f is the sequence of the tries that Rehash goes through.
Moves(f, t, q, symbols, empty, n) ==
  f = [i \in 0..n |-> IF i = 0 THEN [t EXCEPT !.kids[q] = empty] ELSE AtHead(f[i - 1], Append(q, symbols[i]))]

\* There is such a function, for every number of symbols.
LEMMA MovesSome ==
  ASSUME NEW t, NEW q, NEW symbols, NEW empty, NEW n \in Nat
  PROVE  \E f : Moves(f, t, q, symbols, empty, n)
<1> DEFINE N == {m \in Nat : \E f : Moves(f, t, q, symbols, empty, m)}
           e == [t EXCEPT !.kids[q] = empty]
<1>1. 0 \in N
  <2>0. PICK f : f = [i \in 0..0 |-> e]
    OBVIOUS
  <2>1. \A i \in 0..0 : i = 0
    OBVIOUS
  <2>2. f = [i \in 0..0 |-> IF i = 0 THEN e ELSE AtHead(f[i - 1], Append(q, symbols[i]))]
    BY <2>0, <2>1
  <2>3. Moves(f, t, q, symbols, empty, 0)
    BY <2>2 DEF Moves
  <2> QED  BY <2>3
<1>2. ASSUME NEW m \in Nat, m \in N  PROVE m + 1 \in N
  <2>0. PICK f : Moves(f, t, q, symbols, empty, m)
    BY <1>2
  <2> DEFINE Step(i) == AtHead(f[i - 1], Append(q, symbols[i]))
             g == [i \in 0..m + 1 |-> IF i = 0 THEN e ELSE Step(i)]
  <2>1. \A i \in 0..m : f[i] = IF i = 0 THEN e ELSE Step(i)
    BY <2>0 DEF Moves
  <2>2. \A i \in 0..m + 1 : i # 0 => i - 1 \in 0..m /\ i - 1 \in 0..m + 1
    OBVIOUS
  <2>3. \A i \in 0..m + 1 : g[i] = IF i = 0 THEN e ELSE Step(i)
    OBVIOUS
  <2>4. \A i \in 0..m + 1 : i # 0 => g[i - 1] = f[i - 1]
    <3> HIDE DEF g, Step, e
    <3> QED  BY <2>1, <2>2, <2>3
  <2>5. \A i \in 0..m + 1 : g[i] = IF i = 0 THEN e ELSE AtHead(g[i - 1], Append(q, symbols[i]))
    <3> HIDE DEF g, e
    <3> QED  BY <2>3, <2>4
  <2>6. Moves(g, t, q, symbols, empty, m + 1)
    <3>1. g = [i \in 0..m + 1 |-> g[i]]
      OBVIOUS
    <3> HIDE DEF g
    <3>2. g = [i \in 0..m + 1 |-> IF i = 0 THEN e ELSE AtHead(g[i - 1], Append(q, symbols[i]))]
      <4> HIDE DEF e
      <4> QED  BY <2>5, <3>1
    <3> QED  BY <3>2 DEF Moves
  <2> HIDE DEF g
  <2> QED  BY <2>6
<1> HIDE DEF N
<1>3. n \in N
  BY <1>1, <1>2, NatSetInduction
<1> QED  BY <1>3 DEF N

\* Rehash is the last value of one.
LEMMA RehashMoves ==
  ASSUME NEW t, NEW q, NEW size, NEW count, NEW symbols, symbols = FlattenSeq(t.kids[q].bucket), Len(symbols) \in Nat,
         NEW empty, empty = [size |-> size, count |-> count, bucket |-> [b \in 1..size |-> <<>>]]
  PROVE  \E f : Moves(f, t, q, symbols, empty, Len(symbols)) /\ Rehash(t, q, size, count) = f[Len(symbols)]
<1> DEFINE f == CHOOSE f : f = [i \in 0..Len(symbols) |-> IF i = 0 THEN [t EXCEPT !.kids[q] = empty]
                                                         ELSE AtHead(f[i - 1], Append(q, symbols[i]))]
<1>1. \E g : g = [i \in 0..Len(symbols) |-> IF i = 0 THEN [t EXCEPT !.kids[q] = empty]
                                            ELSE AtHead(g[i - 1], Append(q, symbols[i]))]
  <2>1. \E g : Moves(g, t, q, symbols, empty, Len(symbols))
    BY MovesSome
  <2> QED  BY <2>1, Zenon DEF Moves
<1>2. Moves(f, t, q, symbols, empty, Len(symbols))
  BY <1>1 DEF Moves
<1>3. Rehash(t, q, size, count) = f[Len(symbols)]
  BY DEF Rehash
<1> HIDE DEF f
<1> QED  BY <1>2, <1>3

\* Rehash has the same children in a table of the given size.
LEMMA RehashKeeps ==
  ASSUME NEW t, Formed(t), NEW q \in DOMAIN t.kids, Linked(t, q), NEW size \in Nat \ {0}, NEW count \in Int
  PROVE  LET u == Rehash(t, q, size, count)
         IN  /\ Formed(u) /\ SameBut(t, u, q) /\ Linked(u, q)
             /\ u.kids[q].size = size /\ u.kids[q].count = count
             /\ \A x \in Sym : Held(u.kids[q], x) <=> Held(t.kids[q], x)
<1>0. PICK symbols, n, empty : /\ symbols = FlattenSeq(t.kids[q].bucket) /\ n = Len(symbols)
                               /\ empty = [size |-> size, count |-> count, bucket |-> [b \in 1..size |-> <<>>]]
  OBVIOUS
<1>1. /\ symbols \in Seq(Sym) /\ IsInjective(symbols) /\ n \in Nat
      /\ \A x \in Sym : Contains(symbols, x) <=> Held(t.kids[q], x)
      /\ \A i \in 1..n : symbols[i] \in Sym /\ Append(q, symbols[i]) \in DOMAIN t.node
  BY <1>0, LinkedAll
<1>2. PICK f : Moves(f, t, q, symbols, empty, n) /\ Rehash(t, q, size, count) = f[n]
  BY <1>0, <1>1, RehashMoves
<1> DEFINE Good(i) ==
      /\ Formed(f[i]) /\ SameBut(t, f[i], q) /\ Linked(f[i], q)
      /\ f[i].kids[q].size = size /\ f[i].kids[q].count = count
      /\ \A x \in Sym : Held(f[i].kids[q], x) <=> \E j \in 1..i : symbols[j] = x
    N == {i \in Nat : i <= n => Good(i)}
<1>3. 0 \in N
  <2>0. PICK e : e = f[0]
    OBVIOUS
  <2>1. e = [t EXCEPT !.kids[q] = empty]
    BY <1>1, <1>2, <2>0 DEF Moves
  <2>2. /\ empty \in KidsRecord /\ empty.size = size /\ empty.count = count
        /\ DOMAIN empty.bucket = 1..size /\ \A b \in 1..size : empty.bucket[b] = <<>>
        /\ Len(empty.bucket) = size
    <3>1. [b \in 1..size |-> <<>>] \in Seq(Seq(Sym)) /\ Len([b \in 1..size |-> <<>>]) = size
      <4>1. <<>> \in Seq(Sym)
        OBVIOUS
      <4>2. [b \in 1..size |-> <<>>] \in [1..size -> Seq(Sym)]
        BY <4>1
      <4> QED  BY <4>1, <4>2
    <3> QED  BY <1>0, <3>1 DEF KidsRecord
  <2>3. /\ e.node = t.node /\ DOMAIN e.kids = DOMAIN t.kids /\ e.kids[q] = empty
        /\ \A r \in DOMAIN t.kids : r # q => e.kids[r] = t.kids[r]
        /\ e \in [node : [DOMAIN t.node -> NodeRecord], kids : [DOMAIN t.kids -> KidsRecord]]
    BY <2>1, <2>2 DEF Formed
  <2>4. SameBut(t, e, q)
    BY <2>3 DEF SameBut
  <2>5. Formed(e)
    <3>1. \A r \in DOMAIN e.kids : Len(e.kids[r].bucket) = Buckets(e.kids[r].size)
      <4>1. Buckets(size) = size
        BY DEF Buckets
      <4> QED  BY <2>2, <2>3, <4>1 DEF Formed
    <3> QED  BY <2>3, <3>1 DEF Formed
  <2>6. Buckets(size) = size /\ Len(<<>>) = 0 /\ DOMAIN <<>> = {}
    BY DEF Buckets
  <2>7. Linked(e, q)
    <3>1. InPlace(e, q, <<>>)
      BY <2>6 DEF InPlace, IsInjective
    <3> QED  BY <2>2, <2>3, <2>6, <3>1 DEF Linked
  <2>8. \A x \in Sym : ~ Held(e.kids[q], x)
    <3> SUFFICES ASSUME NEW x \in Sym  PROVE ~ Held(e.kids[q], x)
      OBVIOUS
    <3>1. TrieHash(x, size) \in 1..size
      BY HashInTable
    <3>2. Chain(e.kids[q], x) = <<>>
      BY <2>2, <2>3, <3>1 DEF Chain
    <3> QED  BY <2>6, <3>2 DEF Held, Contains
  <2>9. \A j \in 1..0 : FALSE
    OBVIOUS
  <2>10. Good(0)
    BY <2>0, <2>2, <2>3, <2>4, <2>5, <2>7, <2>8, <2>9
  <2> HIDE DEF Good
  <2> QED  BY <2>10
<1>4. ASSUME NEW i \in Nat, i \in N  PROVE i + 1 \in N
  <2> SUFFICES ASSUME i + 1 <= n  PROVE Good(i + 1)
    BY DEF N
  <2>1. Good(i) /\ i \in 0..n /\ i + 1 \in 0..n /\ i + 1 # 0 /\ (i + 1) - 1 = i /\ i + 1 \in 1..n
    <3> HIDE DEF Good
    <3> QED  BY <1>1, <1>4
  <2>0. PICK g, h, s : g = f[i] /\ h = f[i + 1] /\ s = symbols[i + 1]
    OBVIOUS
  <2>2. h = AtHead(g, Append(q, s))
    BY <1>2, <2>0, <2>1 DEF Moves
  <2>3. /\ Formed(g) /\ SameBut(t, g, q) /\ Linked(g, q) /\ g.kids[q].size = size /\ g.kids[q].count = count
        /\ \A x \in Sym : Held(g.kids[q], x) <=> \E j \in 1..i : symbols[j] = x
    BY <2>0, <2>1
  <2>4. s \in Sym /\ Append(q, s) \in DOMAIN g.node /\ q \in DOMAIN g.kids
    BY <1>1, <2>0, <2>1, <2>3 DEF SameBut
  <2>5. ~ Held(g.kids[q], s)
    <3>1. \A j \in 1..i : j \in DOMAIN symbols /\ i + 1 \in DOMAIN symbols /\ j # i + 1
      BY <1>0, <1>1, <2>1
    <3>2. \A j \in 1..i : symbols[j] # s
      BY <1>1, <2>0, <3>1 DEF IsInjective
    <3> QED  BY <2>3, <2>4, <3>2
  <2>6. /\ Formed(h) /\ SameBut(g, h, q) /\ Linked(h, q)
        /\ h.kids[q].size = size /\ h.kids[q].count = count
        /\ \A x \in Sym : Held(h.kids[q], x) <=> Held(g.kids[q], x) \/ x = s
    BY <2>2, <2>3, <2>4, <2>5, AtHeadKeeps, ZenonT(40)
  <2>7. SameBut(t, h, q)
    BY <2>3, <2>6, SameButOnward
  <2>8. \A x : (\E j \in 1..i + 1 : symbols[j] = x) <=> (\E j \in 1..i : symbols[j] = x) \/ x = s
    <3>1. \A j \in 1..i + 1 : j \in 1..i \/ j = i + 1
      OBVIOUS
    <3>2. i + 1 \in 1..i + 1 /\ \A j \in 1..i : j \in 1..i + 1
      OBVIOUS
    <3> QED  BY <2>0, <3>1, <3>2
  <2> QED  BY <2>0, <2>3, <2>6, <2>7, <2>8
<1>5. Good(n)
  <2> HIDE DEF N
  <2>1. n \in N
    BY <1>1, <1>3, <1>4, NatSetInduction
  <2> HIDE DEF Good
  <2> QED  BY <1>1, <2>1 DEF N
<1>6. \A x \in Sym : (\E j \in 1..n : symbols[j] = x) <=> Held(t.kids[q], x)
  BY <1>0, <1>1 DEF Contains
<1> QED  BY <1>2, <1>5, <1>6

(* A node whose children are linked as they must be. *)

\* The children of q that are there; each is held in its chain.
Below(t, q) == {p \in DOMAIN t.node \ {<<>>} : Front(p) = q}
Complete(t, q) == \A x \in Sym : Append(q, x) \in DOMAIN t.node => Held(t.kids[q], x)

\* Long enough for a chain, or rightly counted for a table.
Sized(t, q) ==
  LET k == t.kids[q]
  IN  IF k.size = 0 THEN Len(k.bucket[1]) <= MaxSibling ELSE k.count = Cardinality(Below(t, q))

\* How the children of q must be linked.
Local(t, q) == Linked(t, q) /\ Complete(t, q) /\ Sized(t, q)

\* The children of a node are its extensions that are there, and finitely many.
LEMMA BelowIs ==
  ASSUME NEW t, Formed(t), NEW q \in Seq(Sym)
  PROVE  /\ Below(t, q) = {p \in DOMAIN t.node : \E x \in Sym : p = Append(q, x)}
         /\ IsFiniteSet(Below(t, q)) /\ Cardinality(Below(t, q)) \in Nat
<1>1. \A p \in DOMAIN t.node : p # <<>> /\ Front(p) = q <=> \E x \in Sym : p = Append(q, x)
  <2> SUFFICES ASSUME NEW p \in DOMAIN t.node  PROVE p # <<>> /\ Front(p) = q <=> \E x \in Sym : p = Append(q, x)
    OBVIOUS
  <2>1. p \in Seq(Sym)
    BY DEF Formed
  <2> QED  BY <2>1, Divided, Extended
<1>2. Below(t, q) \subseteq DOMAIN t.node
  BY DEF Below
<1>3. IsFiniteSet(Below(t, q)) /\ Cardinality(Below(t, q)) \in Nat
  BY <1>2, FS_Subset, FS_CardinalityType DEF Formed
<1> QED  BY <1>1, <1>3 DEF Below

\* Tries with the same nodes have the same children.
LEMMA BelowSame ==
  ASSUME NEW t, NEW u, DOMAIN t.node = DOMAIN u.node, NEW q
  PROVE  Below(t, q) = Below(u, q)
BY DEF Below

\* Children that are not hashed are as many as their chain is long.
LEMMA OneChain ==
  ASSUME NEW t, Formed(t), NEW q \in DOMAIN t.kids, Linked(t, q), Complete(t, q), t.kids[q].size = 0
  PROVE  Cardinality(Below(t, q)) = Len(t.kids[q].bucket[1])
<1>0. PICK c : c = t.kids[q].bucket[1]
  OBVIOUS
<1>1. Buckets(t.kids[q].size) = 1 /\ \A x : TrieHash(x, t.kids[q].size) = 1
  BY DEF Buckets, TrieHash
<1>2. c \in Seq(Sym) /\ Len(c) \in Nat /\ q \in Seq(Sym) /\ \A i \in 1..Len(c) : c[i] \in Sym
  BY <1>0, <1>1, FormedParts
<1>3. InPlace(t, q, c)
  BY <1>0, <1>1 DEF Linked
<1>4. Below(t, q) = {p \in DOMAIN t.node : \E x \in Sym : p = Append(q, x)}
  BY <1>2, BelowIs
<1> DEFINE f == [i \in 1..Len(c) |-> Append(q, c[i])]
<1>5. \A i \in 1..Len(c) : Append(q, c[i]) \in Below(t, q)
  BY <1>2, <1>3, <1>4 DEF InPlace
<1>6. \A i, j \in 1..Len(c) : Append(q, c[i]) = Append(q, c[j]) => i = j
  <2> SUFFICES ASSUME NEW i \in 1..Len(c), NEW j \in 1..Len(c), Append(q, c[i]) = Append(q, c[j])  PROVE i = j
    OBVIOUS
  <2>1. c[i] = c[j]
    BY <1>2, ExtendedAlike
  <2>2. i \in DOMAIN c /\ j \in DOMAIN c
    BY <1>2
  <2> QED  BY <1>3, <2>1, <2>2 DEF InPlace, IsInjective
<1>7. ASSUME NEW p \in Below(t, q)  PROVE \E i \in 1..Len(c) : p = Append(q, c[i])
  <2>1. PICK x \in Sym : p = Append(q, x) /\ p \in DOMAIN t.node
    BY <1>4
  <2>2. Contains(c, x)
    BY <1>0, <1>1, <2>1 DEF Complete, Held, Chain
  <2> QED  BY <2>1, <2>2 DEF Contains
<1>8. ExistsBijection(1..Len(c), Below(t, q))
  <2>1. f \in [1..Len(c) -> Below(t, q)]
    BY <1>5
  <2>2. f \in Bijection(1..Len(c), Below(t, q))
    BY <1>6, <1>7, <2>1 DEF Bijection, Injection, Surjection, IsInjective
  <2> QED  BY <2>2 DEF ExistsBijection
<1> QED  BY <1>0, <1>2, <1>8, FS_CountingElements

\* A count is no part of the links.
LEMMA Recounted ==
  ASSUME NEW t, Formed(t), NEW q \in DOMAIN t.kids, Linked(t, q), NEW k, k \in KidsRecord,
         k.size = t.kids[q].size, k.bucket = t.kids[q].bucket, NEW u, u = [t EXCEPT !.kids[q] = k]
  PROVE  Formed(u) /\ SameBut(t, u, q) /\ Linked(u, q) /\ u.kids[q] = k /\ u.node = t.node
<1>1. /\ u.node = t.node /\ DOMAIN u.kids = DOMAIN t.kids /\ u.kids[q] = k
      /\ \A r \in DOMAIN t.kids : r # q => u.kids[r] = t.kids[r]
      /\ u \in [node : [DOMAIN t.node -> NodeRecord], kids : [DOMAIN t.kids -> KidsRecord]]
  BY DEF Formed
<1>2. Formed(u)
  BY <1>1 DEF Formed
<1>3. SameBut(t, u, q)
  BY <1>1 DEF SameBut
<1>4. Linked(u, q)
  BY <1>1 DEF Linked, InPlace
<1> QED  BY <1>1, <1>2, <1>3, <1>4

\* A record of children with another count.
LEMMA CountedOn ==
  ASSUME NEW k \in KidsRecord
  PROVE  LET j == [k EXCEPT !.count = @ + 1]
         IN  j \in KidsRecord /\ j.size = k.size /\ j.bucket = k.bucket /\ j.count = k.count + 1
<1>0. PICK B : B = Seq(Seq(Sym))
  OBVIOUS
<1>1. k \in [size : Nat, count : Int, bucket : B]
  BY <1>0 DEF KidsRecord
<1>2. LET j == [k EXCEPT !.count = @ + 1]
      IN  /\ j \in [size : Nat, count : Int, bucket : B]
          /\ j.size = k.size /\ j.bucket = k.bucket /\ j.count = k.count + 1
  BY <1>1
<1> QED  BY <1>0, <1>2 DEF KidsRecord

\* one_node_chk_ins links the new node, in a chain or in a table.
LEMMA LinkKeeps ==
  ASSUME NEW t, Formed(t), NEW q \in DOMAIN t.kids, NEW s \in Sym, Append(q, s) \in DOMAIN t.node,
         Linked(t, q), ~ Held(t.kids[q], s),
         \A x \in Sym : x # s /\ Append(q, x) \in DOMAIN t.node => Held(t.kids[q], x),
         t.kids[q].size = 0 => Len(t.kids[q].bucket[1]) <= MaxSibling,
         t.kids[q].size # 0 => t.kids[q].count + 1 = Cardinality(Below(t, q))
  PROVE  LET u == one_node_chk_ins(t, Append(q, s))
         IN  Formed(u) /\ SameBut(t, u, q) /\ Local(u, q)
<1>0. PICK p, k, t1 : p = Append(q, s) /\ k = t.kids[q] /\ t1 = IF k.size > 0 THEN [t EXCEPT !.kids[q].count = @ + 1] ELSE t
  OBVIOUS
<1>1. k \in KidsRecord /\ k.size \in Nat /\ k.count \in Int /\ q \in Seq(Sym)
  BY <1>0, FormedParts
<1>2. /\ Formed(t1) /\ SameBut(t, t1, q) /\ Linked(t1, q) /\ t1.node = t.node
      /\ t1.kids[q].size = k.size /\ t1.kids[q].bucket = k.bucket
      /\ k.size > 0 => t1.kids[q].count = k.count + 1
  <2>1. CASE k.size > 0
    <3>0. PICK j : j = [k EXCEPT !.count = @ + 1]
      OBVIOUS
    <3>1. j \in KidsRecord /\ j.size = k.size /\ j.bucket = k.bucket /\ j.count = k.count + 1
      BY <1>1, <3>0, CountedOn
    <3>2. t1 = [t EXCEPT !.kids[q] = j]
      BY <1>0, <2>1, <3>0
    <3> QED  BY <1>0, <3>1, <3>2, Recounted
  <2>2. CASE ~ (k.size > 0)
    <3>1. t1 = t
      BY <1>0, <2>2
    <3>2. SameBut(t, t, q)
      BY DEF SameBut
    <3> QED  BY <1>0, <2>2, <3>1, <3>2
  <2> QED  BY <2>1, <2>2
<1>3. PICK t2 : t2 = AtHead(t1, p)
  OBVIOUS
<1>4. /\ q \in DOMAIN t1.kids /\ p \in DOMAIN t1.node /\ ~ Held(t1.kids[q], s)
      /\ \A x \in Sym : Held(t1.kids[q], x) <=> Held(k, x)
      /\ Chain(t1.kids[q], s) = Chain(k, s)
  BY <1>0, <1>2 DEF Held, Chain, SameBut
<1>5. /\ Formed(t2) /\ SameBut(t1, t2, q) /\ Linked(t2, q)
      /\ t2.kids[q].size = k.size /\ t2.kids[q].count = t1.kids[q].count
      /\ \A x \in Sym : Held(t2.kids[q], x) <=> Held(k, x) \/ x = s
      /\ Chain(t2.kids[q], s) = <<s>> \o Chain(k, s)
  <2>1. t2 = AtHead(t1, Append(q, s)) /\ Append(q, s) \in DOMAIN t1.node
    BY <1>0, <1>3, <1>4
  <2>2. /\ Formed(t2) /\ SameBut(t1, t2, q) /\ Linked(t2, q)
        /\ t2.kids[q].size = t1.kids[q].size /\ t2.kids[q].count = t1.kids[q].count
        /\ \A x \in Sym : Held(t2.kids[q], x) <=> Held(t1.kids[q], x) \/ x = s
        /\ Chain(t2.kids[q], s) = <<s>> \o Chain(t1.kids[q], s)
    BY <1>2, <1>4, <2>1, AtHeadKeeps
  <2> QED  BY <1>2, <1>4, <2>2
<1>6. SameBut(t, t2, q) /\ q \in DOMAIN t2.kids /\ DOMAIN t2.node = DOMAIN t.node
  BY <1>2, <1>5, SameButOnward DEF SameBut
<1>7. Complete(t2, q)
  BY <1>0, <1>5, <1>6 DEF Complete
<1>8. k.size # 0 => t2.kids[q].count = Cardinality(Below(t2, q))
  <2>1. Below(t2, q) = Below(t, q)
    BY <1>6, BelowSame
  <2> QED  BY <1>0, <1>1, <1>2, <1>5, <2>1
<1>9. PICK long : long = Len(ChainOf(t2, p))
  OBVIOUS
<1>10. /\ long \in Nat
       /\ k.size = 0 => long <= MaxSibling + 1 /\ long = Len(t2.kids[q].bucket[1])
  <2>1. long = Len(Chain(t2.kids[q], s)) /\ long \in Nat
    BY <1>0, <1>5, <1>6, <1>9, ChainParts
  <2>2. ASSUME k.size = 0  PROVE long <= MaxSibling + 1 /\ long = Len(t2.kids[q].bucket[1])
    <3>1. Chain(k, s) = k.bucket[1] /\ Chain(t2.kids[q], s) = t2.kids[q].bucket[1]
      BY <1>5, <2>2 DEF Chain, TrieHash
    <3>2. Chain(k, s) \in Seq(Sym)
      BY <1>0, ChainParts
    <3>3. Len(<<s>> \o Chain(k, s)) = Len(Chain(k, s)) + 1 /\ Len(Chain(k, s)) \in Nat
      BY <3>2
    <3>4. Len(Chain(k, s)) <= MaxSibling
      BY <1>0, <2>2, <3>1
    <3> QED  BY <1>5, <2>1, <3>1, <3>3, <3>4, SizesAssumption
  <2> QED  BY <2>1, <2>2
<1>11. PICK u : u = one_node_chk_ins(t, p)
  OBVIOUS
<1>12. u = CASE ~ (k.size > 0) /\ long > MaxSibling -> hashify_children(t2, q)
             [] k.size > 0 /\ long > MaxSibling \div 2 /\ t2.kids[q].count > t2.kids[q].size -> expand_trie_ht(t2, q)
             [] OTHER -> t2
  <2>1. Front(p) = q
    BY <1>0, <1>1, Extended
  <2> QED  BY <1>0, <1>3, <1>9, <1>11, <2>1 DEF one_node_chk_ins
<1>13. ASSUME NEW size \in Nat \ {0}, NEW count \in Int, u = Rehash(t2, q, size, count), count = Cardinality(Below(t2, q))
       PROVE  Formed(u) /\ SameBut(t, u, q) /\ Local(u, q)
  <2>1. /\ Formed(u) /\ SameBut(t2, u, q) /\ Linked(u, q) /\ u.kids[q].size = size /\ u.kids[q].count = count
        /\ \A x \in Sym : Held(u.kids[q], x) <=> Held(t2.kids[q], x)
    BY <1>5, <1>6, <1>13, RehashKeeps
  <2>2. DOMAIN u.node = DOMAIN t2.node
    BY <2>1 DEF SameBut
  <2>3. Complete(u, q)
    BY <1>7, <2>1, <2>2 DEF Complete
  <2>4. Sized(u, q)
    BY <1>13, <2>1, <2>2, BelowSame DEF Sized
  <2> QED  BY <1>6, <2>1, <2>3, <2>4, SameButOnward DEF Local
<1>14. Formed(u) /\ SameBut(t, u, q) /\ Local(u, q)
  <2>1. CASE ~ (k.size > 0) /\ long > MaxSibling
    <3>1. u = Rehash(t2, q, InitSize, MaxSibling + 1)
      BY <1>12, <2>1 DEF hashify_children
    <3>2. k.size = 0 /\ long = MaxSibling + 1
      BY <1>1, <1>10, <2>1, SizesAssumption
    <3>3. Cardinality(Below(t2, q)) = MaxSibling + 1
      BY <1>5, <1>6, <1>7, <1>10, <3>2, OneChain
    <3>4. InitSize \in Nat \ {0} /\ MaxSibling + 1 \in Int
      BY SizesAssumption
    <3> QED  BY <1>13, <3>1, <3>3, <3>4
  <2>2. CASE k.size > 0 /\ long > MaxSibling \div 2 /\ t2.kids[q].count > t2.kids[q].size
    <3>1. u = Rehash(t2, q, 2 * k.size, t2.kids[q].count)
      BY <1>5, <1>12, <2>2 DEF expand_trie_ht
    <3>2. 2 * k.size \in Nat \ {0} /\ t2.kids[q].count \in Int
      BY <1>1, <1>5, <1>6, <2>2, FormedParts, SMTT(30)
    <3> QED  BY <1>8, <1>13, <2>2, <3>1, <3>2
  <2>3. CASE ~ (~ (k.size > 0) /\ long > MaxSibling) /\ ~ (k.size > 0 /\ long > MaxSibling \div 2 /\ t2.kids[q].count > t2.kids[q].size)
    <3>1. u = t2
      BY <1>12, <2>3
    <3>2. Sized(t2, q)
      BY <1>1, <1>5, <1>8, <1>10, <2>3, SizesAssumption DEF Sized
    <3> QED  BY <1>5, <1>6, <1>7, <3>1, <3>2 DEF Local
  <2> QED  BY <2>1, <2>2, <2>3
<1> QED  BY <1>0, <1>11, <1>14

(* A whole trie: the nodes are those of the paths of its leaves, and all are linked. *)

\* The nodes are those on the paths of leaves, each with its children linked as they must be.
Ends(t) == {p \in DOMAIN t.node : t.node[p].leaf}

Well(t) ==
  /\ Formed(t)
  /\ Ends(t) \subseteq Leaves
  /\ DOMAIN t.node = UNION {Branch(p, 0) : p \in Ends(t)}
  /\ DOMAIN t.kids = DOMAIN t.node \ Ends(t)
  /\ \A q \in DOMAIN t.kids : Local(t, q)

\* A leaf is on the path of no other leaf.
LEMMA LeafApart ==
  ASSUME NEW p \in Leaves, NEW e \in Leaves, NEW n \in 0..Len(e), p = Upto(e, n)
  PROVE  p = e /\ n = Len(e)
<1>1. p \in Seq(Sym) /\ e \in Seq(Sym) /\ Len(e) \in Nat
  BY LeavesTyped
<1>2. Len(p) = n
  BY <1>1, UptoIs
<1>3. IsPrefix(p, e)
  BY <1>1, <1>2, PrefixIs
<1> QED  BY <1>2, <1>3, LeavesAssumption

\* The nodes of a well trie are the beginnings of its leaves.
LEMMA WellPaths ==
  ASSUME NEW t, Well(t)
  PROVE  /\ \A p \in DOMAIN t.node : p \in Seq(Sym) /\ Len(p) \in Nat
         /\ \A p \in DOMAIN t.node : \A n \in 0..Len(p) : Upto(p, n) \in DOMAIN t.node
         /\ \A p \in DOMAIN t.node : \E e \in Ends(t) : \E n \in 0..Len(e) : p = Upto(e, n)
         /\ \A p \in Leaves : p \in DOMAIN t.node <=> p \in Ends(t)
         /\ \A e \in Ends(t) : \A n \in 0..Len(e) : Upto(e, n) \in DOMAIN t.node
         /\ \A p \in Leaves : \A n \in 0..Len(p) - 1 : Upto(p, n) \notin Ends(t)
<1>1. \A p \in DOMAIN t.node : p \in Seq(Sym) /\ Len(p) \in Nat
  BY DEF Well, Formed
<1>2. Ends(t) \subseteq Leaves /\ Ends(t) \subseteq DOMAIN t.node /\ Ends(t) \subseteq Seq(Sym)
  BY LeavesTyped DEF Well, Ends
<1>3. \A e \in Ends(t) : Branch(e, 0) = {Upto(e, m) : m \in 0..Len(e)}
  BY <1>2, BranchIs
<1>4. DOMAIN t.node = UNION {Branch(e, 0) : e \in Ends(t)}
  BY DEF Well
<1>5. \A p \in DOMAIN t.node : \E e \in Ends(t) : \E n \in 0..Len(e) : p = Upto(e, n)
  BY <1>3, <1>4
<1>6. \A e \in Ends(t) : \A n \in 0..Len(e) : Upto(e, n) \in DOMAIN t.node
  BY <1>3, <1>4
<1>7. ASSUME NEW p \in DOMAIN t.node, NEW n \in 0..Len(p)  PROVE Upto(p, n) \in DOMAIN t.node
  <2>0. PICK e \in Ends(t) : \E m \in 0..Len(e) : p = Upto(e, m)
    BY <1>5
  <2>1. PICK m \in 0..Len(e) : p = Upto(e, m)
    BY <2>0
  <2>2. e \in Seq(Sym) /\ Len(e) \in Nat /\ Len(p) = m
    BY <1>2, <2>1, UptoIs
  <2>3. n \in 0..m /\ n \in 0..Len(e)
    BY <2>2
  <2>4. Upto(p, n) = Upto(e, n)
    BY <2>1, <2>2, <2>3, UptoUpto
  <2> QED  BY <1>6, <2>3, <2>4
<1>8. ASSUME NEW p \in Leaves, p \in DOMAIN t.node  PROVE p \in Ends(t)
  BY <1>2, <1>5, <1>8, LeafApart
<1>9. ASSUME NEW p \in Leaves, NEW n \in 0..Len(p) - 1, Upto(p, n) \in Ends(t)  PROVE FALSE
  <2>1. Len(p) \in Nat \ {0}
    BY LeavesTyped
  <2>2. n \in 0..Len(p) /\ n # Len(p)
    BY <2>1
  <2>3. Upto(p, n) \in Leaves
    BY <1>2, <1>9
  <2> QED  BY <2>2, <2>3, LeafApart
<1> QED  BY <1>1, <1>2, <1>5, <1>6, <1>7, <1>8, <1>9

\* What links the children of a node depends on no more than its chains and their choice
\* point parts.
LEMMA LocalSame ==
  ASSUME NEW t, NEW u, NEW q, Local(t, q), DOMAIN u.node = DOMAIN t.node, u.kids[q] = t.kids[q],
         \A p \in DOMAIN t.node : u.node[p].cp = t.node[p].cp
  PROVE  Local(u, q)
<1>1. Linked(u, q)
  BY DEF Local, Linked, InPlace
<1>2. Complete(u, q)
  BY DEF Local, Complete
<1>3. Sized(u, q)
  BY BelowSame DEF Local, Sized
<1> QED  BY <1>1, <1>2, <1>3 DEF Local

\* What links the children of another node is not touched.
LEMMA LocalElsewhere ==
  ASSUME NEW t, Formed(t), NEW u, NEW q \in Seq(Sym), SameBut(t, u, q), NEW r \in DOMAIN t.kids, r # q, Local(t, r)
  PROVE  Local(u, r)
<1>1. u.kids[r] = t.kids[r] /\ DOMAIN u.node = DOMAIN t.node
  BY DEF SameBut
<1>2. r \in Seq(Sym)
  BY FormedParts
<1>3. \A x \in Sym : Append(r, x) \in DOMAIN t.node => u.node[Append(r, x)] = t.node[Append(r, x)]
  <2> SUFFICES ASSUME NEW x \in Sym, Append(r, x) \in DOMAIN t.node  PROVE u.node[Append(r, x)] = t.node[Append(r, x)]
    OBVIOUS
  <2>1. \A s \in Sym : Append(r, x) # Append(q, s)
    BY <1>2, ExtendedAlike
  <2> QED  BY <2>1 DEF SameBut
<1>4. Linked(u, r)
  <2> SUFFICES ASSUME NEW b \in 1..Buckets(t.kids[r].size)
               PROVE  /\ InPlace(u, r, t.kids[r].bucket[b])
                      /\ \A i \in 1..Len(t.kids[r].bucket[b]) : TrieHash(t.kids[r].bucket[b][i], t.kids[r].size) = b
    BY <1>1 DEF Linked
  <2>0. PICK c : c = t.kids[r].bucket[b]
    OBVIOUS
  <2>1. InPlace(t, r, c) /\ \A i \in 1..Len(c) : TrieHash(c[i], t.kids[r].size) = b
    BY <2>0 DEF Local, Linked
  <2>2. \A i \in 1..Len(c) : c[i] \in Sym
    BY <2>0, FormedParts
  <2>3. \A i \in 1..Len(c) : Append(r, c[i]) \in DOMAIN u.node /\ u.node[Append(r, c[i])].cp = t.node[Append(r, c[i])].cp
    BY <1>1, <1>3, <2>1, <2>2 DEF InPlace
  <2> QED  BY <2>0, <2>1, <2>3, SameNodes
<1>5. Complete(u, r)
  BY <1>1 DEF Local, Complete
<1>6. Sized(u, r)
  BY <1>1, BelowSame DEF Local, Sized
<1> QED  BY <1>4, <1>5, <1>6 DEF Local

\* The empty trie is well.
LEMMA EmptyWell == Well(EmptyTrie) /\ DOMAIN EmptyTrie.node = {}
<1>0. PICK t : t = EmptyTrie
  OBVIOUS
<1>1. DOMAIN t.node = {} /\ DOMAIN t.kids = {} /\ t = [node |-> <<>>, kids |-> <<>>]
  BY <1>0 DEF EmptyTrie
<1>2. t.node \in [{} -> NodeRecord] /\ t.kids \in [{} -> KidsRecord]
  BY <1>1
<1>3. Formed(t)
  BY <1>1, <1>2, FS_EmptySet DEF Formed
<1>4. Ends(t) = {} /\ UNION {Branch(p, 0) : p \in {}} = {}
  BY <1>1 DEF Ends
<1> QED  BY <1>0, <1>1, <1>3, <1>4 DEF Well

(* Insertion of a path. *)

Missing(t, p) == {n \in 0..Len(p) : SubSeq(p, 1, n) \notin DOMAIN t.node}
NewKids(p, q) == OnlyChild(p[Len(q) + 1])
Grown(t, p, new) ==
  [node |-> [q \in DOMAIN t.node \union new |-> IF q \in new THEN NewNode(q) ELSE t.node[q]],
   kids |-> [q \in DOMAIN t.kids \union (new \ {p}) |-> IF q \in new THEN OnlyChild(p[Len(q) + 1]) ELSE t.kids[q]]]

\* Min is the least member.
LEMMA LeastIs ==
  ASSUME NEW K \in SUBSET Nat, K # {}
  PROVE  Min(K) \in K /\ \A k \in K : Min(K) <= k
<1>1. \E k \in K : \A j \in K : k <= j
  BY LeastExists
<1> QED  BY <1>1 DEF Min

\* The branch that is missing: the nodes of p from the first that is not there.
LEMMA MissingIs ==
  ASSUME NEW t, Well(t), NEW p \in Leaves, p \notin DOMAIN t.node, NEW first, first = Min(Missing(t, p))
  PROVE  /\ first \in 0..Len(p) /\ \A n \in 0..first - 1 : n \in 0..Len(p) /\ Upto(p, n) \in DOMAIN t.node
         /\ \A n \in first..Len(p) : n \in 0..Len(p) /\ Upto(p, n) \notin DOMAIN t.node
         /\ Branch(p, first) = {Upto(p, m) : m \in first..Len(p)} /\ Branch(p, first) \subseteq Seq(Sym)
         /\ IsFiniteSet(Branch(p, first))
         /\ p \in Branch(p, first) /\ p \in Seq(Sym) /\ Len(p) \in Nat \ {0}
<1>1. p \in Seq(Sym) /\ Len(p) \in Nat \ {0}
  BY LeavesTyped
<1> PICK K : K = Missing(t, p)
  OBVIOUS
<1>2. K = {n \in 0..Len(p) : Upto(p, n) \notin DOMAIN t.node}
  BY DEF Missing, Upto
<1>3. Len(p) \in K /\ K \in SUBSET Nat
  <2>1. Upto(p, Len(p)) = p /\ Len(p) \in 0..Len(p)
    BY <1>1, UptoIs
  <2> QED  BY <1>1, <1>2, <2>1
<1>4. first \in K /\ \A k \in K : first <= k
  BY <1>3, LeastIs
<1>5. first \in 0..Len(p) /\ first \in Nat /\ Upto(p, first) \notin DOMAIN t.node
  <2>1. first \in K
    BY <1>4
  <2>2. first \in 0..Len(p) /\ Upto(p, first) \notin DOMAIN t.node
    BY <1>2, <2>1
  <2> QED  BY <1>1, <2>2
<1>6. ASSUME NEW n \in 0..first - 1  PROVE n \in 0..Len(p) /\ Upto(p, n) \in DOMAIN t.node
  <2>1. n \in 0..Len(p) /\ ~ (first <= n)
    BY <1>1, <1>5
  <2> QED  BY <1>2, <1>4, <2>1
<1>7. ASSUME NEW n \in first..Len(p)  PROVE n \in 0..Len(p) /\ Upto(p, n) \notin DOMAIN t.node
  <2>1. n \in 0..Len(p) /\ first \in 0..n
    BY <1>1, <1>5
  <2>2. Upto(Upto(p, n), first) = Upto(p, first) /\ Len(Upto(p, n)) = n
    BY <1>1, <2>1, UptoUpto, UptoIs
  <2> QED  BY <1>5, <2>1, <2>2, WellPaths
<1>8. Branch(p, first) = {Upto(p, m) : m \in first..Len(p)} /\ Branch(p, first) \subseteq Seq(Sym)
  BY <1>1, <1>5, BranchIs
<1>9. IsFiniteSet(Branch(p, first))
  <2> DEFINE f == [m \in first..Len(p) |-> Upto(p, m)]
  <2>1. f \in Surjection(first..Len(p), Branch(p, first))
    BY <1>8 DEF Surjection
  <2>2. IsFiniteSet(first..Len(p))
    BY <1>1, <1>5, FS_Interval
  <2> QED  BY <2>1, <2>2, FS_Surjection
<1>10. p \in Branch(p, first)
  <2>1. Upto(p, Len(p)) = p /\ Len(p) \in first..Len(p)
    BY <1>1, <1>5, UptoIs
  <2> QED  BY <1>8, <2>1
<1> QED  BY <1>1, <1>5, <1>6, <1>7, <1>8, <1>9, <1>10

\* A new node is valid, has no choice point and is no leaf.
LEMMA NewNodeTyped ==
  ASSUME NEW p \in Seq(Sym)
  PROVE  /\ NewNode(p) \in NodeRecord /\ NewNode(p).cp = NoCP /\ NewNode(p).status = "valid" /\ NewNode(p).leaf = FALSE
<1>1. p # <<>> => Last(p).is \in {"con", "str", "var", "val"}
  <2>1. p # <<>> => Last(p) \in Sym
    BY Divided
  <2> QED  BY <2>1 DEF Sym, AnySymbol
<1> PICK type : type = IF p = <<>> THEN "root" ELSE Last(p).is
  OBVIOUS
<1>2. type \in Types
  BY <1>1 DEF Types
<1>3. NewNode(p) = [cp |-> NoCP, type |-> type, status |-> "valid", leaf |-> FALSE]
  BY DEF NewNode
<1> QED  BY <1>2, <1>3 DEF NodeRecord

\* An only child is in a chain of its own.
LEMMA OnlyChildTyped ==
  ASSUME NEW s \in Sym
  PROVE  /\ OnlyChild(s) \in KidsRecord /\ OnlyChild(s).size = 0 /\ OnlyChild(s).bucket[1] = <<s>>
         /\ Len(OnlyChild(s).bucket) = Buckets(0) /\ Buckets(0) = 1
<1>1. <<s>> \in Seq(Sym) /\ <<<<s>>>> \in Seq(Seq(Sym)) /\ Len(<<<<s>>>>) = 1
  OBVIOUS
<1>2. OnlyChild(s) = [size |-> 0, count |-> 0, bucket |-> <<<<s>>>>]
  BY DEF OnlyChild
<1> QED  BY <1>1, <1>2 DEF KidsRecord, Buckets

\* Links stay in a trie with more nodes.
LEMMA LinkedAgain ==
  ASSUME NEW t, NEW g, NEW q, Linked(t, q), g.kids[q] = t.kids[q], DOMAIN t.node \subseteq DOMAIN g.node,
         \A x \in DOMAIN t.node : g.node[x] = t.node[x]
  PROVE  Linked(g, q)
BY DEF Linked, InPlace

\* An only child is linked.
LEMMA OnlyLinked ==
  ASSUME NEW g, NEW q \in Seq(Sym), NEW s \in Sym, g.kids[q] = OnlyChild(s), Append(q, s) \in DOMAIN g.node,
         g.node[Append(q, s)].cp = NoCP, \A x \in Sym : Append(q, x) \in DOMAIN g.node => x = s
  PROVE  Local(g, q)
<1>1. /\ g.kids[q].size = 0 /\ g.kids[q].bucket[1] = <<s>> /\ Buckets(0) = 1 /\ \A x : TrieHash(x, 0) = 1
      /\ Len(<<s>>) = 1 /\ <<s>>[1] = s /\ DOMAIN <<s>> = 1..1
  BY OnlyChildTyped DEF TrieHash
<1>2. InPlace(g, q, <<s>>)
  <2>1. IsInjective(<<s>>)
    BY <1>1 DEF IsInjective
  <2>2. Due(1, 1) = NoCP
    BY DEF Due
  <2>3. \A i \in 1..1 : i = 1
    OBVIOUS
  <2> QED  BY <1>1, <2>1, <2>2, <2>3 DEF InPlace
<1>3. Linked(g, q)
  BY <1>1, <1>2 DEF Linked
<1>4. Complete(g, q)
  <2>1. Contains(<<s>>, s)
    BY <1>1 DEF Contains
  <2> QED  BY <1>1, <2>1 DEF Complete, Held, Chain
<1>5. Sized(g, q)
  BY <1>1, SizesAssumption DEF Sized
<1> QED  BY <1>3, <1>4, <1>5 DEF Local

\* The new nodes, before the first of them is linked.
LEMMA GrownIs ==
  ASSUME NEW t, Well(t), NEW p \in Leaves, p \notin DOMAIN t.node, NEW first, first = Min(Missing(t, p)),
         NEW new, new = Branch(p, first), NEW g, g = Grown(t, p, new)
  PROVE  /\ Formed(g)
         /\ DOMAIN g.node = DOMAIN t.node \union new /\ DOMAIN g.kids = DOMAIN t.kids \union (new \ {p})
         /\ \A x \in DOMAIN t.node : x \notin new /\ g.node[x] = t.node[x]
         /\ \A x \in new : g.node[x] = NewNode(x)
         /\ \A q \in DOMAIN t.kids : q \notin new /\ g.kids[q] = t.kids[q]
         /\ \A q \in new \ {p} : Local(g, q)
         /\ \A q \in Seq(Sym), x \in Sym : Append(q, x) \in new =>
              \E m \in 1..Len(p) : m \in first..Len(p) /\ q = Upto(p, m - 1) /\ x = p[m]
<1>1. /\ first \in 0..Len(p) /\ p \in Seq(Sym) /\ Len(p) \in Nat \ {0} /\ first \in Nat
      /\ new = {Upto(p, m) : m \in first..Len(p)} /\ new \subseteq Seq(Sym) /\ IsFiniteSet(new) /\ p \in new
      /\ \A m \in first..Len(p) : m \in 0..Len(p) /\ Upto(p, m) \notin DOMAIN t.node
  <2>1. /\ first \in 0..Len(p) /\ p \in Seq(Sym) /\ Len(p) \in Nat \ {0}
        /\ new = {Upto(p, m) : m \in first..Len(p)} /\ new \subseteq Seq(Sym) /\ IsFiniteSet(new) /\ p \in new
        /\ \A m \in first..Len(p) : m \in 0..Len(p) /\ Upto(p, m) \notin DOMAIN t.node
    BY MissingIs
  <2> QED  BY <2>1
<1>2. \A x \in new : x \notin DOMAIN t.node
  BY <1>1
<1>3. Formed(t) /\ DOMAIN t.kids \subseteq DOMAIN t.node
  BY DEF Well, Formed
<1>4. /\ DOMAIN g.node = DOMAIN t.node \union new /\ DOMAIN g.kids = DOMAIN t.kids \union (new \ {p})
      /\ \A x \in DOMAIN t.node : g.node[x] = t.node[x]
      /\ \A x \in new : g.node[x] = NewNode(x)
      /\ \A q \in DOMAIN t.kids : g.kids[q] = t.kids[q]
      /\ \A q \in new \ {p} : g.kids[q] = OnlyChild(p[Len(q) + 1])
      /\ g = [node |-> g.node, kids |-> g.kids]
  BY <1>2, <1>3 DEF Grown
<1>5. ASSUME NEW q \in new \ {p}
      PROVE  \E m \in first..Len(p) - 1 : /\ q = Upto(p, m) /\ Len(q) = m /\ m + 1 \in 1..Len(p) /\ m + 1 \in first..Len(p)
                                          /\ p[m + 1] \in Sym /\ Upto(p, m + 1) = Append(q, p[m + 1])
  <2>1. PICK m \in first..Len(p) : q = Upto(p, m)
    BY <1>1
  <2>2. m \in 0..Len(p) /\ m # Len(p)
    BY <1>1, <2>1, UptoIs
  <2>3. m \in first..Len(p) - 1 /\ m + 1 \in 1..Len(p) /\ m + 1 \in first..Len(p) /\ (m + 1) - 1 = m
    BY <1>1, <2>1, <2>2
  <2>4. Len(q) = m
    BY <1>1, <2>1, <2>2, UptoIs
  <2>5. p[m + 1] \in Sym /\ Upto(p, m + 1) = Append(Upto(p, (m + 1) - 1), p[m + 1])
    BY <1>1, <2>3, UptoNext
  <2> QED  BY <2>1, <2>3, <2>4, <2>5
<1>6. ASSUME NEW q \in Seq(Sym), NEW x \in Sym, Append(q, x) \in new
      PROVE  \E m \in 1..Len(p) : m \in first..Len(p) /\ q = Upto(p, m - 1) /\ x = p[m]
  <2>1. PICK m \in first..Len(p) : Append(q, x) = Upto(p, m)
    BY <1>1, <1>6
  <2>2. m \in 0..Len(p) /\ m # 0
    BY <1>1, <2>1, UptoIs, Extended
  <2>3. m \in 1..Len(p)
    BY <1>1, <2>2
  <2>4. Front(Upto(p, m)) = Upto(p, m - 1) /\ Last(Upto(p, m)) = p[m]
    BY <1>1, <2>3, UptoNext
  <2>5. Front(Append(q, x)) = q /\ Last(Append(q, x)) = x
    BY Extended
  <2> QED  BY <2>1, <2>3, <2>4, <2>5
<1>7. Formed(g)
  <2>1. \A x \in DOMAIN g.node : g.node[x] \in NodeRecord
    <3>1. \A x \in DOMAIN t.node : t.node[x] \in NodeRecord
      BY <1>3 DEF Formed
    <3>2. \A x \in new : NewNode(x) \in NodeRecord
      BY <1>1, NewNodeTyped
    <3> QED  BY <1>4, <3>1, <3>2
  <2>2. \A q \in DOMAIN g.kids : g.kids[q] \in KidsRecord /\ Len(g.kids[q].bucket) = Buckets(g.kids[q].size)
    <3>1. \A q \in DOMAIN t.kids : t.kids[q] \in KidsRecord /\ Len(t.kids[q].bucket) = Buckets(t.kids[q].size)
      BY <1>3 DEF Formed
    <3>2. ASSUME NEW q \in new \ {p}  PROVE g.kids[q] \in KidsRecord /\ Len(g.kids[q].bucket) = Buckets(g.kids[q].size)
      <4>1. PICK s \in Sym : s = p[Len(q) + 1]
        BY <1>5
      <4>2. g.kids[q] = OnlyChild(s)
        BY <1>4, <4>1
      <4> QED  BY <4>2, OnlyChildTyped
    <3> QED  BY <1>4, <3>1, <3>2
  <2>3. g.node \in [DOMAIN g.node -> NodeRecord] /\ g.kids \in [DOMAIN g.kids -> KidsRecord]
    <3>1. g.node = [x \in DOMAIN g.node |-> g.node[x]] /\ g.kids = [x \in DOMAIN g.kids |-> g.kids[x]]
      BY <1>4 DEF Grown
    <3> QED  BY <2>1, <2>2, <3>1
  <2>4. g \in [node : [DOMAIN g.node -> NodeRecord], kids : [DOMAIN g.kids -> KidsRecord]]
    BY <1>4, <2>3
  <2>5. DOMAIN g.node \subseteq Seq(Sym) /\ IsFiniteSet(DOMAIN g.node) /\ DOMAIN g.kids \subseteq DOMAIN g.node
    <3>1. DOMAIN t.node \subseteq Seq(Sym) /\ IsFiniteSet(DOMAIN t.node)
      BY <1>3 DEF Formed
    <3>2. IsFiniteSet(DOMAIN t.node \union new)
      BY <1>1, <3>1, FS_Union
    <3>3. new \subseteq Seq(Sym)
      BY <1>1
    <3> QED  BY <1>3, <1>4, <3>1, <3>2, <3>3
  <2> QED  BY <2>2, <2>4, <2>5 DEF Formed
<1>8. ASSUME NEW q \in new \ {p}  PROVE Local(g, q)
  <2>1. PICK m \in first..Len(p) - 1 : /\ q = Upto(p, m) /\ Len(q) = m /\ m + 1 \in 1..Len(p) /\ m + 1 \in first..Len(p)
                                       /\ p[m + 1] \in Sym /\ Upto(p, m + 1) = Append(q, p[m + 1])
    BY <1>5
  <2>2. q \in Seq(Sym) /\ g.kids[q] = OnlyChild(p[m + 1])
    BY <1>1, <1>4, <2>1
  <2>3. Append(q, p[m + 1]) \in new
    BY <1>1, <2>1
  <2>4. Append(q, p[m + 1]) \in DOMAIN g.node /\ g.node[Append(q, p[m + 1])].cp = NoCP
    <3>1. NewNode(Append(q, p[m + 1])).cp = NoCP
      BY <1>1, <2>3, NewNodeTyped
    <3> QED  BY <1>4, <2>3, <3>1
  <2>5. ASSUME NEW x \in Sym, Append(q, x) \in DOMAIN g.node  PROVE x = p[m + 1]
    <3>1. Append(q, x) \notin DOMAIN t.node
      <4> SUFFICES ASSUME Append(q, x) \in DOMAIN t.node  PROVE FALSE
        OBVIOUS
      <4>1. Front(Append(q, x)) = q /\ Len(Append(q, x)) = m + 1 /\ Append(q, x) \in Seq(Sym)
        BY <2>1, <2>2, Extended
      <4>2. Upto(Append(q, x), m) = q
        <5>1. m \in Nat /\ (m + 1) - 1 = m
          BY <1>1, <2>1
        <5> QED  BY <4>1, <5>1 DEF Front, Upto
      <4>3. m \in 0..Len(Append(q, x))
        BY <1>1, <2>1, <4>1
      <4>4. q \in DOMAIN t.node
        <5>0. PICK y : y = Append(q, x)
          OBVIOUS
        <5>1. y \in DOMAIN t.node /\ m \in 0..Len(y) /\ Upto(y, m) = q
          BY <4>2, <4>3, <5>0
        <5>2. \A z \in DOMAIN t.node : \A n \in 0..Len(z) : Upto(z, n) \in DOMAIN t.node
          BY WellPaths
        <5>3. Upto(y, m) \in DOMAIN t.node
          BY <5>1, <5>2
        <5> QED  BY <5>1, <5>3
      <4> QED  BY <1>2, <4>4
    <3>2. Append(q, x) \in new
      BY <1>4, <2>5, <3>1
    <3>3. PICK j \in 1..Len(p) : q = Upto(p, j - 1) /\ x = p[j]
      BY <1>6, <2>2, <3>2
    <3>4. j - 1 \in 0..Len(p)
      BY <1>1, <3>3
    <3>5. m = j - 1
      BY <1>1, <2>1, <3>3, <3>4, UptoIs
    <3>6. j = m + 1
      BY <1>1, <3>3, <3>5
    <3> QED  BY <3>3, <3>6
  <2> QED  BY <2>1, <2>2, <2>4, <2>5, OnlyLinked
<1> QED  BY <1>2, <1>3, <1>4, <1>6, <1>7, <1>8

\* The leaf mark, and the instruction of a leaf.
LEMMA LeafMarked ==
  ASSUME NEW v, Formed(v), NEW p \in DOMAIN v.node, NEW u, u = MakeLeaf(v, p)
  PROVE  /\ Formed(u) /\ DOMAIN u.node = DOMAIN v.node /\ u.kids = v.kids /\ Ends(u) = Ends(v) \union {p}
         /\ \A x \in DOMAIN v.node : u.node[x].cp = v.node[x].cp /\ u.node[x].status = v.node[x].status
<1>0. PICK r : r = [v.node[p] EXCEPT !.leaf = TRUE, !.type = IF @ = "con" THEN "con_succ" ELSE @]
  OBVIOUS
<1>1. v \in [node : [DOMAIN v.node -> NodeRecord], kids : [DOMAIN v.kids -> KidsRecord]] /\ v.node[p] \in NodeRecord
  BY DEF Formed
<1>2. r \in NodeRecord /\ r.cp = v.node[p].cp /\ r.status = v.node[p].status /\ r.leaf = TRUE
  BY <1>0, <1>1 DEF NodeRecord, Types
<1>3. u = [v EXCEPT !.node = [v.node EXCEPT ![p] = r]]
  BY <1>0, <1>1 DEF MakeLeaf, NodeRecord
<1>4. /\ u.kids = v.kids /\ DOMAIN u.node = DOMAIN v.node /\ u.node[p] = r
      /\ \A x \in DOMAIN v.node : x # p => u.node[x] = v.node[x]
      /\ u \in [node : [DOMAIN v.node -> NodeRecord], kids : [DOMAIN v.kids -> KidsRecord]]
  BY <1>1, <1>2, <1>3
<1>5. Formed(u)
  BY <1>4 DEF Formed
<1>6. \A x \in DOMAIN v.node : u.node[x].cp = v.node[x].cp /\ u.node[x].status = v.node[x].status
  BY <1>2, <1>4
<1>7. Ends(u) = Ends(v) \union {p}
  BY <1>2, <1>4 DEF Ends
<1> QED  BY <1>4, <1>5, <1>6, <1>7

\* A path that is not there is inserted, and nothing else changes.
LEMMA InsertKeeps ==
  ASSUME NEW t, Well(t), NEW p \in Leaves, p \notin DOMAIN t.node, NEW u, u = whole_term_chk_ins(t, p)
  PROVE  /\ Well(u) /\ Ends(u) = Ends(t) \union {p} /\ DOMAIN t.node \subseteq DOMAIN u.node
         /\ \A x \in DOMAIN u.node : u.node[x].status = IF x \in DOMAIN t.node THEN t.node[x].status ELSE "valid"
<1>0. PICK first, new, g : first = Min(Missing(t, p)) /\ new = Branch(p, first) /\ g = Grown(t, p, new)
  OBVIOUS
<1>1. /\ first \in 0..Len(p) /\ first \in Nat /\ p \in Seq(Sym) /\ Len(p) \in Nat \ {0} /\ p \in new
      /\ \A n \in 0..first - 1 : n \in 0..Len(p) /\ Upto(p, n) \in DOMAIN t.node
      /\ \A n \in first..Len(p) : n \in 0..Len(p) /\ Upto(p, n) \notin DOMAIN t.node
      /\ new = {Upto(p, m) : m \in first..Len(p)}
  <2>1. /\ first \in 0..Len(p) /\ p \in Seq(Sym) /\ Len(p) \in Nat \ {0} /\ p \in new
        /\ \A n \in 0..first - 1 : n \in 0..Len(p) /\ Upto(p, n) \in DOMAIN t.node
        /\ \A n \in first..Len(p) : n \in 0..Len(p) /\ Upto(p, n) \notin DOMAIN t.node
        /\ new = {Upto(p, m) : m \in first..Len(p)}
    BY <1>0, MissingIs
  <2> QED  BY <2>1
<1>2. /\ Formed(g)
      /\ DOMAIN g.node = DOMAIN t.node \union new /\ DOMAIN g.kids = DOMAIN t.kids \union (new \ {p})
      /\ \A x \in DOMAIN t.node : x \notin new /\ g.node[x] = t.node[x]
      /\ \A x \in new : g.node[x] = NewNode(x)
      /\ \A q \in DOMAIN t.kids : q \notin new /\ g.kids[q] = t.kids[q]
      /\ \A q \in new \ {p} : Local(g, q)
      /\ \A q \in Seq(Sym), x \in Sym : Append(q, x) \in new =>
           \E m \in 1..Len(p) : m \in first..Len(p) /\ q = Upto(p, m - 1) /\ x = p[m]
  BY <1>0, GrownIs
<1>n. DOMAIN g.node = DOMAIN t.node \union new
  BY <1>2
<1>3. \A x \in DOMAIN g.node : g.node[x].status = IF x \in DOMAIN t.node THEN t.node[x].status ELSE "valid"
  <2>1. \A x \in new : NewNode(x).status = "valid"
    BY DEF NewNode
  <2> QED  BY <1>2, <2>1
<1>4. Ends(g) = Ends(t)
  <2>1. \A x \in new : NewNode(x).leaf = FALSE
    BY DEF NewNode
  <2> QED  BY <1>2, <2>1 DEF Ends
<1>5. u = IF first = 0 THEN MakeLeaf(g, p) ELSE MakeLeaf(one_node_chk_ins(g, SubSeq(p, 1, first)), p)
  BY <1>0 DEF whole_term_chk_ins, Missing, Grown
<1>6. ASSUME NEW q \in DOMAIN t.kids, first = 0 \/ q # Upto(p, first - 1)  PROVE Local(g, q)
  <2>1. q \in Seq(Sym) /\ Local(t, q) /\ q \in DOMAIN t.node /\ g.kids[q] = t.kids[q] /\ Formed(t)
    BY <1>2, FormedParts DEF Well
  <2>2. \A x \in Sym : Append(q, x) \notin new
    <3> SUFFICES ASSUME NEW x \in Sym, Append(q, x) \in new  PROVE FALSE
      OBVIOUS
    <3>1. PICK m \in 1..Len(p) : m \in first..Len(p) /\ q = Upto(p, m - 1)
      BY <1>2, <2>1
    <3>2. CASE m = first
      BY <1>1, <1>6, <3>1, <3>2
    <3>3. CASE m # first
      <4>1. m - 1 \in first..Len(p)
        BY <1>1, <3>1, <3>3
      <4> QED  BY <1>1, <2>1, <3>1, <4>1
    <3> QED  BY <3>2, <3>3
  <2>3. Below(g, q) = Below(t, q)
    <3>1. Below(g, q) = {x \in DOMAIN g.node : \E s \in Sym : x = Append(q, s)}
      BY <1>2, <2>1, BelowIs
    <3>2. Below(t, q) = {x \in DOMAIN t.node : \E s \in Sym : x = Append(q, s)}
      BY <2>1, BelowIs
    <3>3. \A x \in new : ~ \E s \in Sym : x = Append(q, s)
      BY <2>2
    <3> QED  BY <1>n, <3>1, <3>2, <3>3
  <2>4. Linked(g, q)
    BY <1>2, <2>1, LinkedAgain DEF Local
  <2>5. Complete(g, q)
    BY <1>2, <2>1, <2>2 DEF Local, Complete
  <2>6. Sized(g, q)
    BY <2>1, <2>3 DEF Local, Sized
  <2> QED  BY <2>4, <2>5, <2>6 DEF Local
<1>7. PICK v : v = IF first = 0 THEN g ELSE one_node_chk_ins(g, SubSeq(p, 1, first))
  OBVIOUS
<1>8. /\ Formed(v) /\ DOMAIN v.node = DOMAIN g.node /\ DOMAIN v.kids = DOMAIN g.kids
      /\ \A x \in DOMAIN g.node : v.node[x].leaf = g.node[x].leaf /\ v.node[x].status = g.node[x].status
      /\ \A q \in DOMAIN g.kids : Local(v, q)
  <2>1. CASE first = 0
    <3>1. v = g
      BY <1>7, <2>1
    <3> QED  BY <1>2, <1>6, <2>1, <3>1
  <2>2. CASE first # 0
    <3>0. PICK q, s : q = Upto(p, first - 1) /\ s = p[first]
      OBVIOUS
    <3>1. first \in 1..Len(p) /\ first - 1 \in 0..first - 1 /\ first - 1 \in 0..Len(p) - 1
      BY <1>1, <2>2
    <3>2. /\ q \in Seq(Sym) /\ s \in Sym /\ Upto(p, first) = Append(q, s) /\ q \in DOMAIN t.node
      <4>1. q \in Seq(Sym)
        <5>1. first - 1 \in 0..Len(p)
          BY <1>1, <3>1
        <5> QED  BY <1>1, <3>0, <5>1, UptoIs
      <4>2. s \in Sym /\ Upto(p, first) = Append(q, s)
        BY <1>1, <3>0, <3>1, UptoNext
      <4>3. q \in DOMAIN t.node
        BY <1>1, <3>0, <3>1
      <4> QED  BY <4>1, <4>2, <4>3
    <3>3. q \in DOMAIN t.kids
      <4>1. q \notin Ends(t)
        BY <3>0, <3>1, WellPaths
      <4> QED  BY <3>2, <4>1 DEF Well
    <3>4. Append(q, s) \in new /\ Append(q, s) \notin DOMAIN t.node /\ Append(q, s) \in DOMAIN g.node
      <4>1. first \in first..Len(p)
        BY <1>1, <3>1
      <4>2. Upto(p, first) \in new /\ Upto(p, first) \notin DOMAIN t.node
        BY <1>1, <4>1
      <4> QED  BY <1>n, <3>2, <4>2
    <3>5. Local(t, q) /\ g.kids[q] = t.kids[q] /\ q \in DOMAIN g.kids /\ Formed(t)
      BY <1>2, <3>3 DEF Well
    <3>6. Linked(g, q)
      BY <1>2, <3>5, LinkedAgain DEF Local
    <3>7. ~ Held(g.kids[q], s)
      <4> SUFFICES ASSUME Held(t.kids[q], s)  PROVE FALSE
        BY <3>5
      <4>1. PICK i \in 1..Len(Chain(t.kids[q], s)) : Chain(t.kids[q], s)[i] = s
        BY DEF Held, Contains
      <4>2. TrieHash(s, t.kids[q].size) \in 1..Buckets(t.kids[q].size)
        BY <3>2, <3>3, <3>5, FormedParts
      <4>3. InPlace(t, q, Chain(t.kids[q], s))
        BY <3>5, <4>2 DEF Local, Linked, Chain
      <4> QED  BY <3>4, <4>1, <4>3 DEF InPlace
    <3>8. ASSUME NEW x \in Sym, Append(q, x) \in new  PROVE x = s
      <4>1. PICK m \in 1..Len(p) : q = Upto(p, m - 1) /\ x = p[m]
        BY <1>2, <3>2, <3>8
      <4>2. m - 1 \in 0..Len(p) /\ first - 1 \in 0..Len(p)
        BY <1>1, <3>1
      <4>3. m - 1 = first - 1
        BY <1>1, <3>0, <4>1, <4>2, UptoIs
      <4>4. m = first
        BY <1>1, <4>3
      <4> QED  BY <3>0, <4>1, <4>4
    <3>9. \A x \in Sym : x # s /\ Append(q, x) \in DOMAIN g.node => Held(g.kids[q], x)
      BY <1>2, <3>5, <3>8 DEF Local, Complete
    <3>10. g.kids[q].size = 0 => Len(g.kids[q].bucket[1]) <= MaxSibling
      BY <3>5 DEF Local, Sized
    <3>11. g.kids[q].size # 0 => g.kids[q].count + 1 = Cardinality(Below(g, q))
      <4>1. Below(g, q) = {x \in DOMAIN g.node : \E y \in Sym : x = Append(q, y)}
        BY <1>2, <3>2, BelowIs
      <4>2. /\ Below(t, q) = {x \in DOMAIN t.node : \E y \in Sym : x = Append(q, y)}
            /\ IsFiniteSet(Below(t, q)) /\ Cardinality(Below(t, q)) \in Nat
        BY <3>2, <3>5, BelowIs
      <4>3. Below(g, q) = Below(t, q) \union {Append(q, s)} /\ Append(q, s) \notin Below(t, q)
        <5>1. \A x \in new : (\E y \in Sym : x = Append(q, y)) <=> x = Append(q, s)
          BY <3>2, <3>4, <3>8
        <5> QED  BY <1>n, <3>4, <4>1, <4>2, <5>1, ZenonT(40)
      <4>4. Cardinality(Below(g, q)) = Cardinality(Below(t, q)) + 1
        BY <4>2, <4>3, FS_AddElement
      <4> QED  BY <3>5, <4>4 DEF Local, Sized
    <3>12. v = one_node_chk_ins(g, Append(q, s))
      BY <1>7, <2>2, <3>2 DEF Upto
    <3>13. Formed(v) /\ SameBut(g, v, q) /\ Local(v, q)
      BY <1>2, <3>2, <3>4, <3>5, <3>6, <3>7, <3>9, <3>10, <3>11, <3>12, LinkKeeps
    <3>14. ASSUME NEW r \in DOMAIN g.kids, r # q  PROVE Local(v, r)
      <4>1. Local(g, r)
        BY <1>2, <1>6, <3>0, <3>14
      <4> QED  BY <1>2, <3>2, <3>13, <3>14, <4>1, LocalElsewhere
    <3> QED  BY <3>13, <3>14 DEF SameBut
  <2> QED  BY <2>1, <2>2
<1>9. u = MakeLeaf(v, p) /\ p \in DOMAIN v.node
  BY <1>1, <1>2, <1>5, <1>7, <1>8
<1>10. /\ Formed(u) /\ DOMAIN u.node = DOMAIN v.node /\ u.kids = v.kids /\ Ends(u) = Ends(v) \union {p}
       /\ \A x \in DOMAIN v.node : u.node[x].cp = v.node[x].cp /\ u.node[x].status = v.node[x].status
  BY <1>8, <1>9, LeafMarked
<1>11. Ends(u) = Ends(t) \union {p}
  <2>1. Ends(v) = Ends(g)
    BY <1>8 DEF Ends
  <2> QED  BY <1>4, <1>10, <2>1
<1>12. DOMAIN u.node = UNION {Branch(e, 0) : e \in Ends(u)}
  <2>1. \A x : x \in DOMAIN t.node <=> \E e \in Ends(t) : x \in Branch(e, 0)
    <3>1. DOMAIN t.node = UNION {Branch(e, 0) : e \in Ends(t)}
      BY DEF Well
    <3> QED  BY <3>1
  <2>2. Branch(p, 0) = {Upto(p, m) : m \in 0..Len(p)}
    BY <1>1, BranchIs
  <2>3. \A x \in new : x \in Branch(p, 0)
    BY <1>1, <2>2
  <2>4. \A x \in Branch(p, 0) : x \in DOMAIN t.node \/ x \in new
    <3> SUFFICES ASSUME NEW m \in 0..Len(p)  PROVE Upto(p, m) \in DOMAIN t.node \/ Upto(p, m) \in new
      BY <2>2
    <3>1. m \in 0..first - 1 \/ m \in first..Len(p)
      BY <1>1
    <3> QED  BY <1>1, <3>1
  <2>5. DOMAIN u.node = DOMAIN t.node \union new
    BY <1>n, <1>8, <1>10
  <2>6. ASSUME NEW x  PROVE x \in DOMAIN u.node <=> \E e \in Ends(u) : x \in Branch(e, 0)
    BY <1>11, <2>1, <2>3, <2>4, <2>5
  <2> QED  BY <2>6
<1>13. DOMAIN u.kids = DOMAIN u.node \ Ends(u)
  <2>1. DOMAIN t.kids = DOMAIN t.node \ Ends(t) /\ Ends(t) \subseteq DOMAIN t.node
    BY DEF Well, Ends
  <2> QED  BY <1>2, <1>8, <1>10, <1>11, <2>1
<1>14. \A q \in DOMAIN u.kids : Local(u, q)
  BY <1>8, <1>10, LocalSame
<1>15. Well(u)
  BY <1>10, <1>11, <1>12, <1>13, <1>14 DEF Well
<1> QED  BY <1>2, <1>3, <1>8, <1>10, <1>11, <1>15

(* Removal of one node from its chain. *)

\* d is the chain c of which the symbol at the place at is taken away.
Lacks(c, at, d) ==
  /\ d \in Seq(Sym) /\ Len(d) = Len(c) - 1 /\ Len(c) \in Nat \ {0} /\ IsInjective(d)
  /\ \A i \in 1..Len(d) : (i < at => d[i] = c[i]) /\ (~ (i < at) => d[i] = c[i + 1]) /\ i \in 1..Len(c) /\ i + 1 \in 1..Len(c)
  /\ \A x : Contains(d, x) <=> Contains(c, x) /\ x # c[at]

\* What RemoveAt leaves of a sequence without repetitions.
LEMMA TakenAway ==
  ASSUME NEW c \in Seq(Sym), IsInjective(c), NEW at \in 1..Len(c)
  PROVE  Lacks(c, at, RemoveAt(c, at))
<1>0. PICK n, a, b, d : d = RemoveAt(c, at) /\ n = Len(c) /\ a = SubSeq(c, 1, at - 1) /\ b = SubSeq(c, at + 1, n)
  OBVIOUS
<1>1. n \in Nat \ {0} /\ at \in 1..n /\ at \in Nat /\ DOMAIN c = 1..n /\ \A i \in 1..n : c[i] \in Sym
  BY <1>0
<1>2. a \in Seq(Sym) /\ Len(a) = at - 1 /\ \A i \in 1..at - 1 : a[i] = c[i]
  BY <1>0, <1>1, SubSeqProperties
<1>3. b \in Seq(Sym) /\ Len(b) = n - at /\ \A i \in 1..n - at : b[i] = c[at + i]
  <2>1. \A i \in at + 1..n : c[i] \in Sym
    BY <1>1
  <2>2. /\ b \in Seq(Sym) /\ Len(b) = IF at + 1 <= n THEN n - (at + 1) + 1 ELSE 0
        /\ \A i \in 1..n - (at + 1) + 1 : b[i] = c[(at + 1) + i - 1]
    BY <1>0, <1>1, <2>1, SubSeqProperties
  <2>3. n - (at + 1) + 1 = n - at /\ \A i \in 1..n - at : (at + 1) + i - 1 = at + i
    BY <1>1
  <2>4. Len(b) = n - at
    BY <1>1, <2>2
  <2> QED  BY <2>2, <2>3, <2>4
<1>4. d = a \o b
  BY <1>0 DEF RemoveAt
<1>5. /\ d \in Seq(Sym) /\ Len(d) = (at - 1) + (n - at)
      /\ \A i \in 1..(at - 1) + (n - at) : d[i] = IF i <= at - 1 THEN a[i] ELSE b[i - (at - 1)]
  BY <1>2, <1>3, <1>4, ConcatProperties
<1>6. Len(d) = n - 1 /\ DOMAIN d = 1..n - 1
  BY <1>1, <1>5
<1>7. ASSUME NEW i \in 1..n - 1
      PROVE  (i < at => d[i] = c[i]) /\ (~ (i < at) => d[i] = c[i + 1]) /\ i \in 1..n /\ i + 1 \in 1..n
  <2>1. i \in 1..(at - 1) + (n - at) /\ i \in 1..n /\ i + 1 \in 1..n
    BY <1>1
  <2>2. CASE i < at
    <3>1. i <= at - 1 /\ i \in 1..at - 1
      BY <1>1, <2>2
    <3> QED  BY <1>2, <1>5, <2>1, <2>2, <3>1
  <2>3. CASE ~ (i < at)
    <3>1. ~ (i <= at - 1) /\ i - (at - 1) \in 1..n - at /\ at + (i - (at - 1)) = i + 1
      BY <1>1, <2>3
    <3>2. d[i] = b[i - (at - 1)]
      BY <1>5, <2>1, <3>1
    <3>3. b[i - (at - 1)] = c[i + 1]
      BY <1>3, <3>1
    <3> QED  BY <2>1, <2>3, <3>2, <3>3
  <2> QED  BY <2>2, <2>3
<1>f. PICK from : from = [i \in 1..n - 1 |-> IF i < at THEN i ELSE i + 1]
  OBVIOUS
<1>8. /\ \A i \in 1..n - 1 : from[i] \in 1..n /\ from[i] # at /\ d[i] = c[from[i]]
      /\ \A i, j \in 1..n - 1 : from[i] = from[j] => i = j
      /\ \A j \in 1..n : j # at => \E i \in 1..n - 1 : from[i] = j
  <2>1. \A i \in 1..n - 1 : from[i] = IF i < at THEN i ELSE i + 1
    BY <1>f
  <2>2. \A i \in 1..n - 1 : from[i] \in 1..n /\ from[i] # at /\ d[i] = c[from[i]]
    BY <1>1, <1>7, <2>1
  <2>3. \A i, j \in 1..n - 1 : from[i] = from[j] => i = j
    BY <1>1, <2>1
  <2>4. ASSUME NEW j \in 1..n, j # at  PROVE \E i \in 1..n - 1 : from[i] = j
    <3>1. CASE j < at
      <4>1. j \in 1..n - 1 /\ from[j] = j
        BY <1>1, <2>1, <3>1
      <4> QED  BY <4>1
    <3>2. CASE ~ (j < at)
      <4>1. j - 1 \in 1..n - 1 /\ ~ (j - 1 < at) /\ (j - 1) + 1 = j
        BY <1>1, <2>4, <3>2
      <4>2. from[j - 1] = j
        BY <2>1, <4>1
      <4> QED  BY <4>1, <4>2
    <3> QED  BY <3>1, <3>2
  <2> QED  BY <2>2, <2>3, <2>4
<1>9. \A i, j \in 1..n : c[i] = c[j] => i = j
  BY <1>1 DEF IsInjective
<1>10. IsInjective(d)
  <2>1. ASSUME NEW i \in 1..n - 1, NEW j \in 1..n - 1, d[i] = d[j]  PROVE i = j
    <3>1. c[from[i]] = c[from[j]] /\ from[i] \in 1..n /\ from[j] \in 1..n
      BY <1>8, <2>1
    <3>2. from[i] = from[j]
      BY <1>9, <3>1
    <3> QED  BY <1>8, <3>2
  <2> QED  BY <1>6, <2>1 DEF IsInjective
<1>11. ASSUME NEW x  PROVE Contains(d, x) <=> Contains(c, x) /\ x # c[at]
  <2>1. ASSUME NEW i \in 1..n - 1, d[i] = x  PROVE (\E j \in 1..n : c[j] = x) /\ x # c[at]
    <3>1. c[from[i]] = x /\ from[i] \in 1..n /\ from[i] # at
      BY <1>8, <2>1
    <3> QED  BY <1>1, <1>9, <3>1
  <2>2. ASSUME NEW j \in 1..n, c[j] = x, x # c[at]  PROVE \E i \in 1..n - 1 : d[i] = x
    <3>1. PICK i \in 1..n - 1 : from[i] = j
      BY <1>8, <2>2
    <3> QED  BY <1>8, <2>2, <3>1
  <2> QED  BY <1>0, <1>6, <2>1, <2>2 DEF Contains
<1> QED  BY <1>0, <1>1, <1>5, <1>6, <1>7, <1>10, <1>11 DEF Lacks

\* A node that is held is in its chain at its position.
LEMMA PositionIs ==
  ASSUME NEW t, Formed(t), NEW q \in DOMAIN t.kids, NEW s \in Sym, Held(t.kids[q], s), NEW c, c = Chain(t.kids[q], s)
  PROVE  Position(t, Append(q, s)) \in 1..Len(c) /\ c[Position(t, Append(q, s))] = s
<1> DEFINE I == {i \in 1..Len(c) : c[i] = s}
<1>1. ChainOf(t, Append(q, s)) = c /\ Last(Append(q, s)) = s /\ Len(c) \in Nat
  BY ChainParts, FormedParts, Extended
<1>2. I # {} /\ I \in SUBSET Nat
  BY <1>1 DEF Held, Contains
<1>3. Position(t, Append(q, s)) = Min(I)
  BY <1>1, <1>2 DEF Position, SelectInSeq
<1>4. Min(I) \in I
  <2> HIDE DEF I
  <2> QED  BY <1>2, LeastIs
<1> QED  BY <1>3, <1>4

\* Of one node, the choice point part changes.
WithChoice(g, r, v) == [g EXCEPT ![r].cp = v]

\* Only the choice point part of one node changes.
LEMMA ChoiceChanged ==
  ASSUME NEW t, Formed(t), NEW r \in DOMAIN t.node, NEW v \in {NoCP, Trust, Try, Retry},
         NEW f, f = WithChoice(t.node, r, v)
  PROVE  /\ f \in [DOMAIN t.node -> NodeRecord] /\ DOMAIN f = DOMAIN t.node /\ f[r].cp = v
         /\ \A x \in DOMAIN t.node : /\ f[x].type = t.node[x].type
                                     /\ f[x].status = t.node[x].status
                                     /\ f[x].leaf = t.node[x].leaf
                                     /\ x # r => f[x] = t.node[x]
<1>0. PICK y : y = [t.node[r] EXCEPT !.cp = v]
  OBVIOUS
<1>1. t.node \in [DOMAIN t.node -> NodeRecord] /\ t.node[r] \in NodeRecord
  BY DEF Formed
<1>2. y \in NodeRecord /\ y.cp = v /\ y.type = t.node[r].type /\ y.status = t.node[r].status /\ y.leaf = t.node[r].leaf
  BY <1>0, <1>1 DEF NodeRecord
<1>3. f = [t.node EXCEPT ![r] = y]
  BY <1>0 DEF WithChoice
<1> QED  BY <1>1, <1>2, <1>3

\* u is t, of which the node of the symbol s, at the place at of its chain, is taken out.
TakesOut(t, f, u, q, s, at) ==
  LET k == t.kids[q]
      c == Chain(k, s)
      d == RemoveAt(c, at)
  IN  /\ at \in 1..Len(c) /\ c[at] = s
      /\ f \in [DOMAIN t.node -> NodeRecord]
      /\ \A x \in DOMAIN t.node : f[x].type = t.node[x].type /\ f[x].status = t.node[x].status /\ f[x].leaf = t.node[x].leaf
      /\ \A x \in DOMAIN t.node : (\A i \in 1..Len(c) : x # Append(q, c[i])) => f[x] = t.node[x]
      /\ \A i \in 1..Len(d) : f[Append(q, d[i])].cp = Due(i, Len(d))
      /\ u = [node |-> f, kids |-> [t.kids EXCEPT ![q] = Counted([k EXCEPT !.bucket = [@ EXCEPT ![TrieHash(s, k.size)] = d]])]]

\* Links stay right when one chain loses a node, and the chain's choice point parts are
\* put right.
LEMMA TakenOut ==
  ASSUME NEW t, Formed(t), NEW q \in DOMAIN t.kids, NEW s \in Sym, Linked(t, q),
         NEW f, NEW u, NEW at, TakesOut(t, f, u, q, s, at)
  PROVE  /\ Formed(u) /\ SameBut(t, u, q) /\ Linked(u, q)
         /\ u.kids[q].size = t.kids[q].size
         /\ u.kids[q].count = IF t.kids[q].size > 0 THEN t.kids[q].count - 1 ELSE t.kids[q].count
         /\ \A x \in Sym : Held(u.kids[q], x) <=> Held(t.kids[q], x) /\ x # s
         /\ t.kids[q].size = 0 => Len(u.kids[q].bucket[1]) = Len(t.kids[q].bucket[1]) - 1
<1>0. PICK k, c, h, d : k = t.kids[q] /\ c = Chain(k, s) /\ h = TrieHash(s, k.size) /\ d = RemoveAt(c, at)
  OBVIOUS
<1>a. /\ at \in 1..Len(c) /\ c[at] = s
      /\ f \in [DOMAIN t.node -> NodeRecord]
      /\ \A x \in DOMAIN t.node : f[x].type = t.node[x].type /\ f[x].status = t.node[x].status /\ f[x].leaf = t.node[x].leaf
      /\ \A x \in DOMAIN t.node : (\A i \in 1..Len(c) : x # Append(q, c[i])) => f[x] = t.node[x]
      /\ \A i \in 1..Len(d) : f[Append(q, d[i])].cp = Due(i, Len(d))
      /\ u = [node |-> f, kids |-> [t.kids EXCEPT ![q] = Counted([k EXCEPT !.bucket = [@ EXCEPT ![h] = d]])]]
  BY <1>0, Zenon DEF TakesOut
<1>1. /\ k \in KidsRecord /\ k.size \in Nat /\ k.count \in Int /\ k.bucket \in Seq(Seq(Sym)) /\ DOMAIN k.bucket = 1..Buckets(k.size)
      /\ h \in 1..Buckets(k.size) /\ c = k.bucket[h] /\ c \in Seq(Sym) /\ q \in Seq(Sym) /\ Len(k.bucket) = Buckets(k.size)
  BY <1>0, FormedParts DEF Chain, Formed
<1>2. InPlace(t, q, c) /\ \A i \in 1..Len(c) : TrieHash(c[i], k.size) = h
  BY <1>0, <1>1 DEF Linked
<1>3. /\ d \in Seq(Sym) /\ Len(d) = Len(c) - 1 /\ Len(c) \in Nat \ {0} /\ IsInjective(d)
      /\ \A i \in 1..Len(d) : (i < at => d[i] = c[i]) /\ (~ (i < at) => d[i] = c[i + 1]) /\ i \in 1..Len(c) /\ i + 1 \in 1..Len(c)
      /\ \A x : Contains(d, x) <=> Contains(c, x) /\ x # s
  <2>1. IsInjective(c)
    BY <1>2 DEF InPlace
  <2>2. c \in Seq(Sym) /\ at \in 1..Len(c) /\ d = RemoveAt(c, at) /\ c[at] = s
    BY <1>0, <1>1, <1>a
  <2>3. Lacks(c, at, d)
    BY <2>1, <2>2, TakenAway
  <2> QED  BY <2>2, <2>3 DEF Lacks
<1>b. /\ \A x \in DOMAIN t.node : (\A i \in 1..Len(c) : x # Append(q, c[i])) => f[x] = t.node[x]
      /\ q \in Seq(Sym) /\ \A i \in 1..Len(c) : TrieHash(c[i], k.size) = h
  BY <1>1, <1>2, <1>a
<1>c. \A i \in 1..Len(c) : c[i] \in Sym
  <2>1. c \in Seq(Sym)
    BY <1>1
  <2> QED  BY <2>1
<1>4. PICK B, j : B = [k.bucket EXCEPT ![h] = d] /\ j = Counted([k EXCEPT !.bucket = B])
  OBVIOUS
<1>5. B \in Seq(Seq(Sym)) /\ Len(B) = Buckets(k.size) /\ \A b \in 1..Buckets(k.size) : B[b] = IF b = h THEN d ELSE k.bucket[b]
  <2>1. h \in 1..Len(k.bucket)
    BY <1>1
  <2>2. k.bucket \in Seq(Seq(Sym)) /\ d \in Seq(Sym)
    BY <1>1, <1>3
  <2>3. /\ B \in Seq(Seq(Sym)) /\ Len(B) = Len(k.bucket)
        /\ \A b \in 1..Len(k.bucket) : B[b] = IF b = h THEN d ELSE k.bucket[b]
    BY <1>4, <2>1, <2>2, ExceptSeq
  <2> QED  BY <1>1, <2>3
<1>6. /\ j \in KidsRecord /\ j.size = k.size /\ j.bucket = B
      /\ j.count = IF k.size > 0 THEN k.count - 1 ELSE k.count
  <2>0. PICK l : l = [k EXCEPT !.bucket = B]
    OBVIOUS
  <2>1. l \in KidsRecord /\ l.size = k.size /\ l.bucket = B /\ l.count = k.count
    BY <1>1, <1>5, <2>0 DEF KidsRecord
  <2>2. j = Counted(l)
    BY <1>4, <2>0
  <2>3. k.size \in Nat /\ k.count \in Int
    BY <1>1
  <2>4. CASE k.size > 0
    <3>1. j = [l EXCEPT !.count = @ - 1]
      BY <2>1, <2>2, <2>4 DEF Counted
    <3> QED  BY <2>1, <2>3, <2>4, <3>1 DEF KidsRecord
  <2>5. CASE ~ (k.size > 0)
    <3>1. j = l
      BY <2>1, <2>2, <2>5 DEF Counted
    <3> QED  BY <2>1, <2>5, <3>1
  <2> QED  BY <2>4, <2>5
<1>7. u = [node |-> f, kids |-> [t.kids EXCEPT ![q] = j]]
  BY <1>4, <1>a
<1>8. /\ u.node = f /\ DOMAIN u.node = DOMAIN t.node /\ DOMAIN u.kids = DOMAIN t.kids /\ u.kids[q] = j
      /\ \A r \in DOMAIN t.kids : r # q => u.kids[r] = t.kids[r]
      /\ u \in [node : [DOMAIN t.node -> NodeRecord], kids : [DOMAIN t.kids -> KidsRecord]]
  BY <1>6, <1>7, <1>a DEF Formed
<1>9. Formed(u)
  <2>1. \A r \in DOMAIN t.kids : Len(t.kids[r].bucket) = Buckets(t.kids[r].size)
    BY DEF Formed
  <2>2. \A r \in DOMAIN u.kids : Len(u.kids[r].bucket) = Buckets(u.kids[r].size)
    BY <1>5, <1>6, <1>8, <2>1
  <2> QED  BY <1>8, <2>2 DEF Formed
<1>10. SameBut(t, u, q)
  <2>1. ASSUME NEW x \in DOMAIN t.node, \A y \in Sym : x # Append(q, y)  PROVE u.node[x] = t.node[x]
    BY <1>b, <1>c, <1>8, <2>1
  <2> QED  BY <1>8, <1>a, <2>1 DEF SameBut
<1>11. InPlace(u, q, d)
  <2>1. \A i \in 1..Len(d) : Append(q, d[i]) \in DOMAIN u.node
    BY <1>2, <1>3, <1>8 DEF InPlace
  <2> QED  BY <1>3, <1>8, <1>a, <2>1 DEF InPlace
<1>12. Linked(u, q)
  <2> SUFFICES ASSUME NEW b \in 1..Buckets(k.size)
               PROVE  /\ InPlace(u, q, B[b])
                      /\ \A i \in 1..Len(B[b]) : TrieHash(B[b][i], k.size) = b
    BY <1>6, <1>8 DEF Linked
  <2>1. CASE b = h
    <3>1. B[b] = d
      BY <1>5, <2>1
    <3>2. \A i \in 1..Len(d) : TrieHash(d[i], k.size) = b
      BY <1>b, <1>3, <2>1
    <3> QED  BY <1>11, <3>1, <3>2
  <2>2. CASE b # h
    <3>0. PICK e : e = k.bucket[b]
      OBVIOUS
    <3>1. /\ B[b] = e /\ InPlace(t, q, e) /\ \A i \in 1..Len(e) : e[i] \in Sym /\ TrieHash(e[i], k.size) = b
      BY <1>0, <1>5, <2>2, <3>0, FormedParts DEF Linked
    <3>2. ASSUME NEW i \in 1..Len(e)
          PROVE  Append(q, e[i]) \in DOMAIN u.node /\ u.node[Append(q, e[i])].cp = t.node[Append(q, e[i])].cp
      <4>1. Append(q, e[i]) \in DOMAIN t.node
        BY <3>1 DEF InPlace
      <4>2. ASSUME NEW y \in 1..Len(c)  PROVE Append(q, e[i]) # Append(q, c[y])
        <5>1. e[i] # c[y]
          BY <1>b, <2>2, <3>1
        <5> QED  BY <1>b, <1>c, <3>1, <5>1, ExtendedAlike
      <4> QED  BY <1>b, <1>8, <4>1, <4>2
    <3>3. InPlace(u, q, e)
      BY <3>1, <3>2, SameNodes
    <3> QED  BY <3>1, <3>3
  <2> QED  BY <2>1, <2>2
<1>13. ASSUME NEW x \in Sym  PROVE Held(u.kids[q], x) <=> Held(k, x) /\ x # s
  <2>1. TrieHash(x, k.size) \in 1..Buckets(k.size)
    BY <1>0, FormedParts
  <2>2. Held(u.kids[q], x) <=> Contains(B[TrieHash(x, k.size)], x)
    BY <1>6, <1>8 DEF Held, Chain
  <2>3. Held(k, x) <=> Contains(k.bucket[TrieHash(x, k.size)], x)
    BY DEF Held, Chain
  <2>4. CASE TrieHash(x, k.size) = h
    <3>1. B[TrieHash(x, k.size)] = d /\ k.bucket[TrieHash(x, k.size)] = c
      BY <1>1, <1>5, <2>1, <2>4
    <3> QED  BY <1>3, <2>2, <2>3, <3>1
  <2>5. CASE TrieHash(x, k.size) # h
    <3>1. x # s /\ B[TrieHash(x, k.size)] = k.bucket[TrieHash(x, k.size)]
      BY <1>0, <1>5, <2>1, <2>5
    <3> QED  BY <2>2, <2>3, <3>1
  <2> QED  BY <2>4, <2>5
<1>14. ASSUME k.size = 0  PROVE Len(u.kids[q].bucket[1]) = Len(k.bucket[1]) - 1
  <2>1. h = 1 /\ 1 \in 1..Buckets(k.size)
    BY <1>0, <1>14 DEF TrieHash, Buckets
  <2> QED  BY <1>1, <1>3, <1>5, <1>6, <1>8, <2>1
<1> QED  BY <1>0, <1>6, <1>8, <1>9, <1>10, <1>12, <1>13, <1>14

\* The choice point part tells the place, and the differences the code adds and subtracts
\* are those of places.
LEMMA DueFrom ==
  ASSUME NEW n \in Nat \ {0}, NEW i \in 1..n
  PROVE  /\ Due(i, n) \in {NoCP, Trust, Try, Retry}
         /\ Due(i, n) = NoCP <=> n = 1
         /\ Due(i, n) = Try <=> n > 1 /\ i = 1
         /\ Due(i, n) = Trust <=> n > 1 /\ i = n
         /\ NoCP # Trust /\ NoCP # Try /\ Trust # Try /\ Retry # NoCP /\ Retry # Try /\ Retry # Trust
         /\ Trust - 1 = NoCP /\ Retry - 1 = Try /\ Try - 2 = NoCP /\ Retry - 2 = Trust
BY DEF Due, NoCP, Trust, Try, Retry

\* A chain that loses its node at the place at: whose choice point part must change.
LEMMA DueWithout ==
  ASSUME NEW n \in Nat, n > 1, NEW at \in 1..n, NEW i \in 1..n - 1
  PROVE  /\ i >= at => Due(i, n - 1) = IF at = 1 /\ i = 1 THEN Due(2, n) - 1 ELSE Due(i + 1, n)
         /\ i < at => Due(i, n - 1) = IF at = n /\ i = n - 1 THEN Due(i, n) - 2 ELSE Due(i, n)
<1>1. /\ n - 1 \in Nat \ {0} /\ n \in Nat \ {0} /\ i \in 1..n /\ i + 1 \in 1..n /\ at \in Nat /\ i \in Nat
  OBVIOUS
<1>2. \A m \in Nat \ {0} : \A j \in 1..m :
        Due(j, m) = IF m = 1 THEN NoCP ELSE IF j = 1 THEN Try ELSE IF j = m THEN Trust ELSE Retry
  BY DEF Due
<1>3. Due(i, n - 1) = IF n - 1 = 1 THEN NoCP ELSE IF i = 1 THEN Try ELSE IF i = n - 1 THEN Trust ELSE Retry
  BY <1>1, <1>2
<1>4. Due(i, n) = IF i = 1 THEN Try ELSE IF i = n THEN Trust ELSE Retry
  BY <1>1, <1>2
<1>5. Due(i + 1, n) = IF i + 1 = 1 THEN Try ELSE IF i + 1 = n THEN Trust ELSE Retry
  BY <1>1, <1>2
<1>6. Due(2, n) = IF n = 2 THEN Trust ELSE Retry
  BY <1>1, <1>2
<1>7. Trust - 1 = NoCP /\ Retry - 1 = Try /\ Try - 2 = NoCP /\ Retry - 2 = Trust
  BY DEF NoCP, Trust, Try, Retry
<1>8. ASSUME i >= at  PROVE Due(i, n - 1) = IF at = 1 /\ i = 1 THEN Due(2, n) - 1 ELSE Due(i + 1, n)
  <2>1. CASE at = 1 /\ i = 1
    BY <1>1, <1>3, <1>6, <1>7, <2>1
  <2>2. CASE ~ (at = 1 /\ i = 1)
    BY <1>1, <1>3, <1>5, <1>8, <2>2
  <2> QED  BY <2>1, <2>2
<1>9. ASSUME i < at  PROVE Due(i, n - 1) = IF at = n /\ i = n - 1 THEN Due(i, n) - 2 ELSE Due(i, n)
  <2>1. CASE at = n /\ i = n - 1
    BY <1>1, <1>3, <1>4, <1>7, <2>1
  <2>2. CASE ~ (at = n /\ i = n - 1)
    BY <1>1, <1>3, <1>4, <1>9, <2>2
  <2> QED  BY <2>1, <2>2
<1> QED  BY <1>8, <1>9

\* Unlink takes a node out of its chain.
LEMMA UnlinkKeeps ==
  ASSUME NEW t, Formed(t), NEW q \in DOMAIN t.kids, NEW s \in Sym, Linked(t, q), Held(t.kids[q], s)
  PROVE  LET u == Unlink(t, Append(q, s))
         IN  /\ Formed(u) /\ SameBut(t, u, q) /\ Linked(u, q)
             /\ u.kids[q].size = t.kids[q].size
             /\ u.kids[q].count = IF t.kids[q].size > 0 THEN t.kids[q].count - 1 ELSE t.kids[q].count
             /\ \A x \in Sym : Held(u.kids[q], x) <=> Held(t.kids[q], x) /\ x # s
             /\ t.kids[q].size = 0 => Len(u.kids[q].bucket[1]) = Len(t.kids[q].bucket[1]) - 1
<1>0. PICK k, c, h, p, at, n, d : /\ k = t.kids[q] /\ c = Chain(k, s) /\ h = TrieHash(s, k.size) /\ p = Append(q, s)
                                  /\ at = Position(t, p) /\ n = Len(c) /\ d = RemoveAt(c, at)
  OBVIOUS
<1>1. /\ q \in Seq(Sym) /\ Front(p) = q /\ Last(p) = s /\ ChainOf(t, p) = c /\ c \in Seq(Sym) /\ h \in 1..Buckets(k.size)
      /\ c = k.bucket[h]
  <2>1. q \in Seq(Sym) /\ h \in 1..Buckets(k.size)
    BY <1>0, FormedParts
  <2>2. Front(p) = q /\ Last(p) = s
    BY <1>0, <2>1, Extended
  <2>3. ChainOf(t, p) = c /\ c \in Seq(Sym)
    BY <1>0, ChainParts
  <2> QED  BY <1>0, <2>1, <2>2, <2>3 DEF Chain
<1>2. InPlace(t, q, c)
  BY <1>0, <1>1 DEF Linked
<1>3. n \in Nat \ {0} /\ at \in 1..n /\ c[at] = s /\ at \in Nat
  <2>1. at \in 1..Len(c) /\ c[at] = s
    BY <1>0, PositionIs
  <2>2. Len(c) \in Nat
    BY <1>1
  <2> QED  BY <1>0, <2>1, <2>2
<1>4. /\ d \in Seq(Sym) /\ Len(d) = n - 1 /\ IsInjective(d)
      /\ \A i \in 1..n - 1 : (i < at => d[i] = c[i]) /\ (~ (i < at) => d[i] = c[i + 1]) /\ i \in 1..n /\ i + 1 \in 1..n
  <2>1. IsInjective(c) /\ at \in 1..Len(c) /\ d = RemoveAt(c, at)
    BY <1>0, <1>2, <1>3 DEF InPlace
  <2>2. Lacks(c, at, d)
    BY <1>1, <2>1, TakenAway
  <2> QED  BY <1>0, <2>2 DEF Lacks
<1>5. /\ \A i \in 1..n : c[i] \in Sym /\ Append(q, c[i]) \in DOMAIN t.node /\ t.node[Append(q, c[i])].cp = Due(i, n)
      /\ \A i, j \in 1..n : Append(q, c[i]) = Append(q, c[j]) => i = j
  <2>1. \A i \in 1..n : c[i] \in Sym
    BY <1>0, <1>1
  <2>2. \A i \in 1..n : Append(q, c[i]) \in DOMAIN t.node /\ t.node[Append(q, c[i])].cp = Due(i, n)
    BY <1>0, <1>2 DEF InPlace
  <2>3. DOMAIN c = 1..n
    BY <1>0, <1>1
  <2>4. \A i, j \in 1..n : c[i] = c[j] => i = j
    BY <1>2, <2>3 DEF InPlace, IsInjective
  <2>5. \A i, j \in 1..n : Append(q, c[i]) = Append(q, c[j]) => i = j
    BY <1>1, <2>1, <2>4, ExtendedAlike
  <2> QED  BY <2>1, <2>2, <2>5
<1>6. PICK u : u = Unlink(t, p)
  OBVIOUS
<1>7. t.node[p].cp = Due(at, n) /\ p \in DOMAIN t.node
  BY <1>0, <1>3, <1>5
<1>8. \E f : TakesOut(t, f, u, q, s, at)
  <2>1. ASSUME NEW f, f \in [DOMAIN t.node -> NodeRecord],
               \A x \in DOMAIN t.node : f[x].type = t.node[x].type /\ f[x].status = t.node[x].status /\ f[x].leaf = t.node[x].leaf,
               \A x \in DOMAIN t.node : (\A i \in 1..n : x # Append(q, c[i])) => f[x] = t.node[x],
               \A i \in 1..n - 1 : f[Append(q, d[i])].cp = Due(i, n - 1),
               u = [node |-> f, kids |-> [t.kids EXCEPT ![q] = Counted([k EXCEPT !.bucket = [@ EXCEPT ![h] = d]])]]
        PROVE  TakesOut(t, f, u, q, s, at)
    BY <1>0, <1>3, <1>4, <2>1, Zenon DEF TakesOut
  <2>2. /\ t.node \in [DOMAIN t.node -> NodeRecord]
    BY DEF Formed
  <2>3. CASE n = 1
    <3>1. u = UnlinkBucket(t, p)
      <4>1. t.node[p].cp = NoCP
        BY <1>3, <1>7, <2>3, DueFrom
      <4> QED  BY <1>6, <4>1 DEF Unlink, NoCP, Try
    <3>2. d = <<>>
      BY <1>4, <2>3
    <3>3. u = [node |-> t.node, kids |-> [t.kids EXCEPT ![q] = Counted([k EXCEPT !.bucket = [@ EXCEPT ![h] = d]])]]
      BY <1>0, <1>1, <3>1, <3>2 DEF UnlinkBucket, Formed
    <3>4. \A i \in 1..n - 1 : FALSE
      BY <2>3
    <3> QED  BY <2>1, <2>2, <3>3, <3>4
  <2>4. CASE n > 1 /\ at = 1
    <3>1. u = UnlinkFirst(t, p)
      <4>1. t.node[p].cp = Try /\ Try # NoCP
        BY <1>3, <1>7, <2>4, DueFrom
      <4> QED  BY <1>6, <4>1 DEF Unlink
    <3>2. SubSeq(c, at + 1, Len(c)) = d
      <4>1. SubSeq(c, 1, at - 1) = <<>>
        BY <2>4, SubSeqEmpty
      <4>2. SubSeq(c, at + 1, Len(c)) \in Seq(Sym)
        <5>1. \A i \in at + 1..Len(c) : c[i] \in Sym
          BY <1>0, <1>3, <1>5
        <5> QED  BY <1>0, <1>3, <5>1, SubSeqProperties
      <4> QED  BY <1>0, <4>1, <4>2, ConcatEmptySeq DEF RemoveAt
    <3>3. PICK r, f : r = Append(q, c[2]) /\ f = WithChoice(t.node, r, Due(1, n - 1))
      OBVIOUS
    <3>4. 2 \in 1..n /\ 1 \in 1..n - 1 /\ r \in DOMAIN t.node /\ t.node[r].cp = Due(2, n) /\ Due(1, n - 1) = Due(2, n) - 1
      <4>1. 2 \in 1..n /\ 1 \in 1..n - 1 /\ n \in Nat
        BY <1>3, <2>4
      <4>2. Due(1, n - 1) = Due(2, n) - 1
        BY <1>3, <2>4, <4>1, DueWithout
      <4> QED  BY <1>5, <3>3, <4>1, <4>2
    <3>5. Head(d) = c[2]
      <4>1. d[1] = c[2] /\ d # <<>>
        BY <1>4, <2>4, <3>4
      <4> QED  BY <4>1
    <3>6. Due(1, n - 1) \in {NoCP, Trust, Try, Retry}
      BY <1>3, <2>4, <3>4, DueFrom
    <3>7. /\ f \in [DOMAIN t.node -> NodeRecord] /\ f[r].cp = Due(1, n - 1)
          /\ \A x \in DOMAIN t.node : /\ f[x].type = t.node[x].type /\ f[x].status = t.node[x].status /\ f[x].leaf = t.node[x].leaf
                                      /\ x # r => f[x] = t.node[x]
      <4>1. f = WithChoice(t.node, r, Due(1, n - 1)) /\ r \in DOMAIN t.node
        BY <3>3, <3>4
      <4> HIDE <3>3
      <4> QED  BY <3>6, <4>1, ChoiceChanged
    <3>8. u = [node |-> f, kids |-> [t.kids EXCEPT ![q] = Counted([k EXCEPT !.bucket = [@ EXCEPT ![h] = d]])]]
      <4>1. f = [t.node EXCEPT ![r].cp = @ - 1]
        BY <3>3, <3>4 DEF WithChoice
      <4>2. u = [node |-> [t.node EXCEPT ![Append(q, Head(d))].cp = @ - 1],
                 kids |-> [t.kids EXCEPT ![q] = Counted([@ EXCEPT !.bucket[h] = d])]]
        BY <1>0, <1>1, <3>1, <3>2 DEF UnlinkFirst
      <4> QED  BY <1>0, <3>3, <3>5, <4>1, <4>2
    <3>9. ASSUME NEW i \in 1..n - 1  PROVE f[Append(q, d[i])].cp = Due(i, n - 1)
      <4>1. d[i] = c[i + 1] /\ i + 1 \in 1..n /\ i >= at
        BY <1>4, <2>4
      <4>2. CASE i = 1
        BY <3>3, <3>7, <4>1, <4>2
      <4>3. CASE i # 1
        <5>1. Append(q, c[i + 1]) # r
          BY <1>5, <3>3, <3>4, <4>1, <4>3
        <5>2. Due(i, n - 1) = Due(i + 1, n)
          BY <1>3, <2>4, <4>1, <4>3, DueWithout
        <5> QED  BY <1>5, <3>7, <4>1, <5>1, <5>2, ZenonT(40)
      <4> QED  BY <4>2, <4>3
    <3>10. \A x \in DOMAIN t.node : (\A i \in 1..n : x # Append(q, c[i])) => f[x] = t.node[x]
      BY <3>3, <3>4, <3>7
    <3> QED  BY <2>1, <3>7, <3>8, <3>9, <3>10
  <2>5. CASE n > 1 /\ at # 1
    <3>1. u = UnlinkLater(t, p)
      <4>1. t.node[p].cp # NoCP /\ t.node[p].cp # Try
        BY <1>3, <1>7, <2>5, DueFrom
      <4> QED  BY <1>6, <4>1 DEF Unlink
    <3>2. at - 1 \in 1..n /\ at - 1 \in 1..n - 1 /\ n \in Nat
      BY <1>3, <2>5
    <3>3. PICK r, f : r = Append(q, c[at - 1]) /\ f = IF at = n THEN [t.node EXCEPT ![r].cp = @ - 2] ELSE t.node
      OBVIOUS
    <3>4. r \in DOMAIN t.node /\ t.node[r].cp = Due(at - 1, n)
      BY <1>5, <3>2, <3>3
    <3>5. u = [node |-> f, kids |-> [t.kids EXCEPT ![q] = Counted([k EXCEPT !.bucket = [@ EXCEPT ![h] = d]])]]
      <4>1. t.node[p].cp = Trust <=> at = n
        BY <1>3, <1>7, <2>5, DueFrom
      <4>2. u = [node |-> IF t.node[p].cp = Trust THEN [t.node EXCEPT ![r].cp = @ - 2] ELSE t.node,
                 kids |-> [t.kids EXCEPT ![q] = Counted([@ EXCEPT !.bucket[h] = d])]]
        BY <1>0, <1>1, <3>1, <3>3 DEF UnlinkLater
      <4> QED  BY <1>0, <3>3, <4>1, <4>2
    <3>6. /\ f \in [DOMAIN t.node -> NodeRecord]
          /\ at = n => f[r].cp = Due(at - 1, n - 1)
          /\ \A x \in DOMAIN t.node : /\ f[x].type = t.node[x].type /\ f[x].status = t.node[x].status /\ f[x].leaf = t.node[x].leaf
                                      /\ x # r \/ at # n => f[x] = t.node[x]
      <4>1. CASE at = n
        <5>1. Due(at - 1, n) - 2 = Due(at - 1, n - 1) /\ Due(at - 1, n - 1) \in {NoCP, Trust, Try, Retry}
          <6>1. at - 1 < at /\ at - 1 = n - 1 /\ n - 1 \in Nat \ {0}
            BY <1>3, <2>5, <4>1
          <6>2. Due(at - 1, n - 1) = Due(at - 1, n) - 2
            BY <1>3, <2>5, <3>2, <4>1, <6>1, DueWithout
          <6> QED  BY <3>2, <6>1, <6>2, DueFrom
        <5>2. f = WithChoice(t.node, r, Due(at - 1, n - 1))
          BY <3>3, <3>4, <4>1, <5>1 DEF WithChoice
        <5> QED  BY <3>4, <4>1, <5>1, <5>2, ChoiceChanged
      <4>2. CASE at # n
        BY <2>2, <3>3, <4>2
      <4> QED  BY <4>1, <4>2
    <3>7. ASSUME NEW i \in 1..n - 1  PROVE f[Append(q, d[i])].cp = Due(i, n - 1)
      <4>0. i \in 1..n /\ i + 1 \in 1..n
        BY <1>4
      <4>1. CASE i >= at
        <5>0. d[i] = c[i + 1]
          BY <1>3, <1>4, <4>1
        <5>1. d[i] = c[i + 1] /\ Due(i, n - 1) = Due(i + 1, n)
          BY <1>3, <2>5, <4>1, <5>0, DueWithout
        <5>2. Append(q, c[i + 1]) # r
          <6>1. i + 1 # at - 1
            BY <1>3, <4>1
          <6> QED  BY <1>5, <3>2, <3>3, <4>0, <6>1
        <5> QED  BY <1>5, <3>6, <4>0, <5>1, <5>2, ZenonT(40)
      <4>2. CASE ~ (i >= at)
        <5>1. i < at
          BY <1>3, <4>2
        <5>2. d[i] = c[i] /\ Due(i, n - 1) = IF at = n /\ i = n - 1 THEN Due(i, n) - 2 ELSE Due(i, n)
          BY <1>3, <1>4, <2>5, <5>1, DueWithout
        <5>3. CASE at = n /\ i = n - 1
          <6>1. at - 1 = i
            BY <1>3, <5>3
          <6> QED  BY <3>3, <3>6, <5>2, <5>3, <6>1
        <5>4. CASE ~ (at = n /\ i = n - 1)
          <6>1. at = n => i # at - 1
            BY <5>4
          <6>2. at = n => Append(q, c[i]) # r
            BY <1>5, <3>2, <3>3, <4>0, <6>1
          <6>3. Append(q, c[i]) \in DOMAIN t.node /\ t.node[Append(q, c[i])].cp = Due(i, n)
            BY <1>5, <4>0
          <6>4. Append(q, c[i]) # r \/ at # n
            BY <6>2
          <6>5. f[Append(q, c[i])] = t.node[Append(q, c[i])]
            BY <3>6, <6>3, <6>4
          <6>6. Due(i, n - 1) = Due(i, n)
            BY <5>2, <5>4
          <6> QED  BY <5>2, <6>3, <6>5, <6>6
        <5> QED  BY <5>3, <5>4
      <4> QED  BY <4>1, <4>2
    <3>8. \A x \in DOMAIN t.node : (\A i \in 1..n : x # Append(q, c[i])) => f[x] = t.node[x]
      BY <3>2, <3>3, <3>6
    <3> QED  BY <2>1, <3>5, <3>6, <3>7, <3>8
  <2> QED  BY <1>3, <2>3, <2>4, <2>5
<1>9. PICK f : TakesOut(t, f, u, q, s, at)
  BY <1>8
<1>10. /\ Formed(u) /\ SameBut(t, u, q) /\ Linked(u, q)
       /\ u.kids[q].size = t.kids[q].size
       /\ u.kids[q].count = IF t.kids[q].size > 0 THEN t.kids[q].count - 1 ELSE t.kids[q].count
       /\ \A x \in Sym : Held(u.kids[q], x) <=> Held(t.kids[q], x) /\ x # s
       /\ t.kids[q].size = 0 => Len(u.kids[q].bucket[1]) = Len(t.kids[q].bucket[1]) - 1
  BY <1>9, TakenOut
<1> QED  BY <1>0, <1>6, <1>10

(* Removal of a branch. *)

\* Max is the greatest member.
LEMMA GreatestIs ==
  ASSUME NEW n \in Nat, NEW K \in SUBSET (0..n), K # {}
  PROVE  Max(K) \in K /\ \A k \in K : k <= Max(K)
<1>0. PICK J : J = {n - k : k \in K}
  OBVIOUS
<1>1. J # {} /\ J \in SUBSET Nat
  <2>1. PICK x : x \in K
    OBVIOUS
  <2>2. J # {}
    BY <1>0, <2>1
  <2>3. \A k \in K : n - k \in Nat
    OBVIOUS
  <2> QED  BY <1>0, <2>2, <2>3
<1>2. PICK j \in J : \A i \in J : j <= i
  BY <1>1, LeastExists
<1>3. PICK k \in K : j = n - k
  BY <1>0, <1>2
<1>4. ASSUME NEW i \in K  PROVE k >= i
  <2>1. n - i \in J /\ i \in Int /\ k \in Int
    BY <1>0
  <2>2. j <= n - i
    BY <1>2, <2>1
  <2> QED  BY <1>3, <2>1, <2>2
<1>5. \E x \in K : \A y \in K : x >= y
  BY <1>4
<1>6. Max(K) \in K /\ \A y \in K : Max(K) >= y
  BY <1>5 DEF Max
<1> QED  BY <1>6

\* A node of a chain or of a table has a sibling just when its parent has another child.
LEMMA HasSiblingIs ==
  ASSUME NEW t, Formed(t), NEW q \in DOMAIN t.kids, Local(t, q), NEW s \in Sym, Append(q, s) \in DOMAIN t.node
  PROVE  HasSibling(t, Append(q, s)) <=> \E x \in Sym : x # s /\ Append(q, x) \in DOMAIN t.node
<1>0. PICK k, c : k = t.kids[q] /\ c = Chain(k, s)
  OBVIOUS
<1>1. /\ q \in Seq(Sym) /\ Front(Append(q, s)) = q /\ k.size \in Nat /\ k.count \in Int
      /\ TrieHash(s, k.size) \in 1..Buckets(k.size) /\ c \in Seq(Sym) /\ Len(c) \in Nat
  BY <1>0, FormedParts, Extended, ChainParts
<1>2. HasSibling(t, Append(q, s)) <=> t.node[Append(q, s)].cp # NoCP \/ (k.size > 0 /\ k.count > 1)
  BY <1>0, <1>1 DEF HasSibling
<1>3. InPlace(t, q, c) /\ Contains(c, s)
  BY <1>0, <1>1 DEF Local, Linked, Complete, Chain, Held
<1>4. PICK i \in 1..Len(c) : c[i] = s
  BY <1>3 DEF Contains
<1>5. t.node[Append(q, s)].cp = Due(i, Len(c)) /\ Len(c) \in Nat \ {0}
  BY <1>1, <1>3, <1>4 DEF InPlace
<1>6. t.node[Append(q, s)].cp = NoCP <=> Len(c) = 1
  BY <1>5, DueFrom
<1>7. \A j \in 1..Len(c) : c[j] \in Sym /\ Append(q, c[j]) \in DOMAIN t.node /\ (j # i => c[j] # s)
  <2>1. \A j \in 1..Len(c) : c[j] \in Sym
    BY <1>1
  <2> QED  BY <1>1, <1>3, <1>4, <2>1 DEF InPlace, IsInjective
<1>8. /\ Below(t, q) = {p \in DOMAIN t.node : \E x \in Sym : p = Append(q, x)}
      /\ IsFiniteSet(Below(t, q)) /\ Cardinality(Below(t, q)) \in Nat
  BY <1>1, BelowIs
<1>9. Append(q, s) \in Below(t, q)
  BY <1>8
<1>10. \A x \in Sym : Append(q, x) = Append(q, s) => x = s
  BY <1>1, ExtendedAlike
<1>11. (\E x \in Sym : x # s /\ Append(q, x) \in DOMAIN t.node) <=> Cardinality(Below(t, q)) > 1
  <2>1. /\ IsFiniteSet(Below(t, q) \ {Append(q, s)})
        /\ Cardinality(Below(t, q) \ {Append(q, s)}) = Cardinality(Below(t, q)) - 1
    BY <1>8, <1>9, FS_RemoveElement
  <2>2. Cardinality(Below(t, q) \ {Append(q, s)}) = 0 <=> Below(t, q) \ {Append(q, s)} = {}
    BY <2>1, FS_EmptySet
  <2>3. Cardinality(Below(t, q) \ {Append(q, s)}) \in Nat
    BY <2>1, FS_CardinalityType
  <2>4. Cardinality(Below(t, q)) > 1 <=> Below(t, q) \ {Append(q, s)} # {}
    BY <1>8, <2>1, <2>2, <2>3
  <2>5. (\E x \in Sym : x # s /\ Append(q, x) \in DOMAIN t.node) <=> Below(t, q) \ {Append(q, s)} # {}
    <3>1. ASSUME NEW x \in Sym, x # s, Append(q, x) \in DOMAIN t.node  PROVE Below(t, q) \ {Append(q, s)} # {}
      <4>1. Append(q, x) \in Below(t, q) /\ Append(q, x) # Append(q, s)
        BY <1>8, <1>10, <3>1
      <4> QED  BY <4>1
    <3>2. ASSUME NEW p \in Below(t, q), p # Append(q, s)
          PROVE  \E x \in Sym : x # s /\ Append(q, x) \in DOMAIN t.node
      <4>1. PICK x \in Sym : p = Append(q, x) /\ p \in DOMAIN t.node
        BY <1>8
      <4> QED  BY <3>2, <4>1
    <3> QED  BY <3>1, <3>2
  <2> QED  BY <2>4, <2>5
<1>12. ASSUME Len(c) # 1  PROVE \E x \in Sym : x # s /\ Append(q, x) \in DOMAIN t.node
  <2>1. \E j \in 1..Len(c) : j # i
    <3>0. PICK n : n = Len(c)
      OBVIOUS
    <3>1. n \in Nat /\ n # 0 /\ n # 1
      BY <1>5, <1>12, <3>0
    <3>2. 1 \in 1..n /\ 2 \in 1..n
      BY <3>1
    <3>3. 1 \in 1..Len(c) /\ 2 \in 1..Len(c)
      BY <3>0, <3>2
    <3> QED  BY <3>3
  <2> QED  BY <1>7, <2>1
<1>13. CASE k.size > 0
  <2>1. k.count = Cardinality(Below(t, q))
    BY <1>0, <1>1, <1>13 DEF Local, Sized
  <2> QED  BY <1>2, <1>6, <1>11, <1>12, <1>13, <2>1
<1>14. CASE ~ (k.size > 0)
  <2>1. k.size = 0
    BY <1>1, <1>14
  <2>2. Cardinality(Below(t, q)) = Len(k.bucket[1])
    BY <1>0, <2>1, OneChain DEF Local
  <2>3. c = k.bucket[1]
    BY <1>0, <2>1 DEF Chain, TrieHash
  <2>4. Cardinality(Below(t, q)) > 1 <=> Len(c) # 1
    <3>0. PICK n : n = Len(c)
      OBVIOUS
    <3>1. n \in Nat /\ n # 0 /\ n = Cardinality(Below(t, q))
      BY <1>5, <2>2, <2>3, <3>0
    <3>2. n > 1 <=> n # 1
      BY <3>1
    <3> QED  BY <3>0, <3>1, <3>2
  <2> QED  BY <1>2, <1>6, <1>11, <1>14, <2>4
<1> QED  BY <1>13, <1>14

Top(t, p) == {n \in 0..Len(p) : n = 0 \/ HasSibling(t, SubSeq(p, 1, n))}

\* The branch that delete_branch removes: from top on, each node is an only child.
LEMMA TopIs ==
  ASSUME NEW t, Well(t), NEW p \in Ends(t), NEW top, top = Max(Top(t, p))
  PROVE  /\ p \in Leaves /\ p \in Seq(Sym) /\ Len(p) \in Nat \ {0} /\ top \in 0..Len(p) /\ top \in Nat
         /\ top # 0 => HasSibling(t, Upto(p, top))
         /\ \A m \in 1..Len(p) : /\ Upto(p, m - 1) \in DOMAIN t.kids /\ Upto(p, m) = Append(Upto(p, m - 1), p[m])
                                 /\ p[m] \in Sym /\ Upto(p, m) \in DOMAIN t.node
                                 /\ m > top => ~ HasSibling(t, Upto(p, m))
         /\ Branch(p, top) = {Upto(p, m) : m \in top..Len(p)} /\ p \in Branch(p, top)
<1>1. p \in Leaves /\ p \in DOMAIN t.node /\ p \in Seq(Sym) /\ Len(p) \in Nat \ {0}
  BY LeavesTyped DEF Well, Ends
<1>2. PICK K : K = Top(t, p)
  OBVIOUS
<1>3. K = {n \in 0..Len(p) : n = 0 \/ HasSibling(t, Upto(p, n))}
  BY <1>2 DEF Top, Upto
<1>4. K \in SUBSET (0..Len(p)) /\ K # {}
  BY <1>1, <1>3
<1>5. top \in K /\ \A k \in K : k <= top
  BY <1>1, <1>2, <1>4, GreatestIs
<1>6. top \in 0..Len(p) /\ top \in Nat /\ (top # 0 => HasSibling(t, Upto(p, top)))
  BY <1>3, <1>5
<1>7. ASSUME NEW m \in 1..Len(p), m > top  PROVE ~ HasSibling(t, Upto(p, m))
  <2>1. m \in 0..Len(p) /\ ~ (m <= top)
    BY <1>1, <1>6, <1>7
  <2> QED  BY <1>3, <1>5, <2>1
<1>8. ASSUME NEW m \in 1..Len(p)
      PROVE  /\ Upto(p, m - 1) \in DOMAIN t.kids /\ Upto(p, m) = Append(Upto(p, m - 1), p[m])
             /\ p[m] \in Sym /\ Upto(p, m) \in DOMAIN t.node
  <2>1. m \in 0..Len(p) /\ m - 1 \in 0..Len(p) - 1 /\ m - 1 \in 0..Len(p)
    BY <1>1
  <2>2. Upto(p, m - 1) \notin Ends(t) /\ Upto(p, m - 1) \in DOMAIN t.node /\ Upto(p, m) \in DOMAIN t.node
    BY <1>1, <2>1, WellPaths
  <2>3. Upto(p, m - 1) \in DOMAIN t.kids
    BY <2>2 DEF Well
  <2> QED  BY <1>1, <2>2, <2>3, UptoNext
<1>9. Branch(p, top) = {Upto(p, m) : m \in top..Len(p)} /\ p \in Branch(p, top)
  <2>1. Branch(p, top) = {Upto(p, m) : m \in top..Len(p)}
    BY <1>1, <1>6, BranchIs
  <2>2. Len(p) \in top..Len(p) /\ Len(p) \in 0..Len(p)
    BY <1>1, <1>6
  <2>3. Upto(p, Len(p)) = p
    BY <1>1, <2>2, UptoIs
  <2> QED  BY <2>1, <2>2, <2>3
<1> QED  BY <1>1, <1>6, <1>7, <1>8, <1>9

\* Every node that goes through the first node of the branch is a node of the branch.
LEMMA BranchAlone ==
  ASSUME NEW t, Well(t), NEW p \in Ends(t), NEW top, top = Max(Top(t, p)),
         NEW x \in DOMAIN t.node, top <= Len(x), Upto(x, top) = Upto(p, top)
  PROVE  x \in Branch(p, top)
<1>1. /\ p \in Leaves /\ p \in Seq(Sym) /\ Len(p) \in Nat \ {0} /\ top \in 0..Len(p) /\ top \in Nat
      /\ \A m \in 1..Len(p) : /\ Upto(p, m - 1) \in DOMAIN t.kids /\ Upto(p, m) = Append(Upto(p, m - 1), p[m])
                              /\ p[m] \in Sym /\ Upto(p, m) \in DOMAIN t.node
                              /\ m > top => ~ HasSibling(t, Upto(p, m))
      /\ Branch(p, top) = {Upto(p, m) : m \in top..Len(p)}
  BY TopIs
<1>2. /\ x \in Seq(Sym) /\ Len(x) \in Nat /\ \A n \in 0..Len(x) : Upto(x, n) \in DOMAIN t.node
  BY WellPaths
<1> DEFINE N == {n \in Nat : top + n <= Len(x) => top + n <= Len(p) /\ Upto(x, top + n) = Upto(p, top + n)}
<1>3. 0 \in N
  BY <1>1
<1>4. ASSUME NEW n \in Nat, n \in N, top + (n + 1) <= Len(x)
      PROVE  top + (n + 1) <= Len(p) /\ Upto(x, top + (n + 1)) = Upto(p, top + (n + 1))
  <2>0. PICK m : m = top + n
    OBVIOUS
  <2>1. m \in Nat /\ m + 1 <= Len(x) /\ m <= Len(p) /\ Upto(x, m) = Upto(p, m) /\ m + 1 = top + (n + 1) /\ m <= Len(x)
    BY <1>1, <1>2, <1>4, <2>0
  <2>2. m # Len(p)
    <3> SUFFICES ASSUME m = Len(p)  PROVE FALSE
      OBVIOUS
    <3>1. Upto(p, m) = p
      BY <1>1, <2>1, UptoIs
    <3>2. PICK e \in Ends(t) : \E j \in 0..Len(e) : x = Upto(e, j)
      BY WellPaths
    <3>3. PICK j \in 0..Len(e) : x = Upto(e, j)
      BY <3>2
    <3>4. e \in Leaves /\ e \in Seq(Sym) /\ Len(e) \in Nat
      BY LeavesTyped DEF Well
    <3>5. Len(x) = j
      BY <3>3, <3>4, UptoIs
    <3>6. m \in 0..j /\ m \in 0..Len(e) /\ m # Len(e)
      BY <2>1, <3>4, <3>5
    <3>7. p = Upto(e, m)
      BY <2>1, <3>1, <3>3, <3>4, <3>6, UptoUpto
    <3> QED  BY <1>1, <3>4, <3>6, <3>7, LeafApart
  <2>3. m + 1 \in 1..Len(p) /\ m + 1 \in 1..Len(x) /\ (m + 1) - 1 = m /\ m + 1 > top /\ m + 1 \in 0..Len(x)
    BY <1>1, <1>2, <2>0, <2>1, <2>2, SMTT(30)
  <2>4. PICK q, s, y : q = Upto(p, m) /\ s = p[m + 1] /\ y = x[m + 1]
    OBVIOUS
  <2>5. q \in DOMAIN t.kids /\ Upto(p, m + 1) = Append(q, s) /\ s \in Sym /\ Append(q, s) \in DOMAIN t.node
        /\ ~ HasSibling(t, Append(q, s))
    BY <1>1, <2>3, <2>4
  <2>6. y \in Sym /\ Upto(x, m + 1) = Append(q, y) /\ Append(q, y) \in DOMAIN t.node
    BY <1>2, <2>1, <2>3, <2>4, UptoNext
  <2>7. y = s
    BY <2>5, <2>6, HasSiblingIs DEF Well
  <2> QED  BY <2>1, <2>3, <2>5, <2>6, <2>7
<1>5. \A n \in Nat : n \in N => n + 1 \in N
  BY <1>4
<1>6. \A n \in Nat : n \in N
  <2> HIDE DEF N
  <2> QED  BY <1>3, <1>5, NatSetInduction
<1>7. Len(x) - top \in N /\ top + (Len(x) - top) = Len(x)
  BY <1>1, <1>2, <1>6
<1>8. Len(x) \in top..Len(p) /\ Upto(x, Len(x)) = Upto(p, Len(x))
  BY <1>1, <1>2, <1>7, SMTT(30)
<1>9. Upto(x, Len(x)) = x
  BY <1>2, UptoIs
<1> QED  BY <1>1, <1>8, <1>9

\* What links the children of r stays when none of them is removed.
LEMMA LocalWithout ==
  ASSUME NEW w, Formed(w), NEW r \in DOMAIN w.kids, Local(w, r), NEW u, u.kids[r] = w.kids[r],
         DOMAIN u.node \subseteq DOMAIN w.node, \A x \in DOMAIN u.node : u.node[x] = w.node[x],
         \A x \in Sym : Append(r, x) \in DOMAIN w.node => Append(r, x) \in DOMAIN u.node
  PROVE  Local(u, r)
<1>1. ASSUME NEW b \in 1..Buckets(w.kids[r].size)  PROVE InPlace(u, r, w.kids[r].bucket[b])
  <2>0. PICK c : c = w.kids[r].bucket[b]
    OBVIOUS
  <2>1. InPlace(w, r, c) /\ \A i \in 1..Len(c) : c[i] \in Sym
    BY <2>0, FormedParts DEF Local, Linked
  <2>2. \A i \in 1..Len(c) : Append(r, c[i]) \in DOMAIN u.node /\ u.node[Append(r, c[i])].cp = w.node[Append(r, c[i])].cp
    BY <2>1 DEF InPlace
  <2>3. InPlace(u, r, c)
    BY <2>1, <2>2, SameNodes
  <2> QED  BY <2>0, <2>3
<1>2. Linked(u, r)
  BY <1>1 DEF Local, Linked
<1>3. Complete(u, r)
  BY DEF Local, Complete
<1>4. Below(u, r) = Below(w, r)
  <2>1. r \in Seq(Sym)
    BY FormedParts
  <2>2. Below(w, r) = {p \in DOMAIN w.node : \E x \in Sym : p = Append(r, x)}
    BY <2>1, BelowIs
  <2>3. ASSUME NEW p \in Below(w, r)  PROVE p \in DOMAIN u.node
    BY <2>2
  <2> QED  BY <2>3 DEF Below
<1>5. Sized(u, r)
  BY <1>4 DEF Local, Sized
<1> QED  BY <1>2, <1>3, <1>5 DEF Local

\* The children of q but for the one of the symbol s, which is taken out and removed.
LEMMA LocalWithoutOne ==
  ASSUME NEW t, Formed(t), NEW q \in DOMAIN t.kids, Local(t, q), NEW s \in Sym, Append(q, s) \in DOMAIN t.node,
         NEW w, w = Unlink(t, Append(q, s)), NEW u, u.kids[q] = w.kids[q],
         DOMAIN u.node \subseteq DOMAIN w.node, \A x \in DOMAIN u.node : u.node[x] = w.node[x],
         \A x \in Sym : Append(q, x) \in DOMAIN w.node => (Append(q, x) \in DOMAIN u.node <=> x # s)
  PROVE  Formed(w) /\ SameBut(t, w, q) /\ Local(u, q)
<1>1. Linked(t, q) /\ Held(t.kids[q], s) /\ q \in Seq(Sym) /\ t.kids[q].size \in Nat /\ t.kids[q].count \in Int
  BY FormedParts DEF Local, Complete
<1>2. /\ Formed(w) /\ SameBut(t, w, q) /\ Linked(w, q)
      /\ w.kids[q].size = t.kids[q].size
      /\ w.kids[q].count = IF t.kids[q].size > 0 THEN t.kids[q].count - 1 ELSE t.kids[q].count
      /\ \A x \in Sym : Held(w.kids[q], x) <=> Held(t.kids[q], x) /\ x # s
      /\ t.kids[q].size = 0 => Len(w.kids[q].bucket[1]) = Len(t.kids[q].bucket[1]) - 1
  BY <1>1, UnlinkKeeps
<1>3. DOMAIN w.node = DOMAIN t.node /\ q \in DOMAIN w.kids
  BY <1>2 DEF SameBut
<1>4. ASSUME NEW b \in 1..Buckets(w.kids[q].size)  PROVE InPlace(u, q, w.kids[q].bucket[b])
  <2>0. PICK c : c = w.kids[q].bucket[b]
    OBVIOUS
  <2>1. InPlace(w, q, c) /\ \A i \in 1..Len(c) : c[i] \in Sym /\ TrieHash(c[i], w.kids[q].size) = b
    BY <1>2, <1>3, <2>0, FormedParts DEF Linked
  <2>2. ASSUME NEW i \in 1..Len(c)
        PROVE  Append(q, c[i]) \in DOMAIN u.node /\ u.node[Append(q, c[i])].cp = w.node[Append(q, c[i])].cp
    <3>1. Chain(w.kids[q], c[i]) = c
      BY <2>0, <2>1 DEF Chain
    <3>2. Held(w.kids[q], c[i])
      BY <3>1 DEF Held, Contains
    <3>3. c[i] \in Sym /\ c[i] # s /\ Append(q, c[i]) \in DOMAIN w.node
      BY <1>2, <2>1, <3>2 DEF InPlace
    <3>4. Append(q, c[i]) \in DOMAIN u.node
      BY <3>3
    <3> QED  BY <3>4
  <2>3. InPlace(u, q, c)
    BY <2>1, <2>2, SameNodes
  <2> QED  BY <2>0, <2>3
<1>5. Linked(u, q)
  BY <1>2, <1>4 DEF Linked
<1>6. Complete(u, q)
  <2>1. ASSUME NEW x \in Sym, Append(q, x) \in DOMAIN u.node  PROVE Held(u.kids[q], x)
    <3>1. x # s /\ Append(q, x) \in DOMAIN t.node
      BY <1>3, <2>1
    <3>2. Held(t.kids[q], x)
      BY <3>1 DEF Local, Complete
    <3> QED  BY <1>2, <3>1, <3>2
  <2> QED  BY <2>1 DEF Complete
<1>7. Cardinality(Below(u, q)) = Cardinality(Below(t, q)) - 1
  <2>1. /\ Below(t, q) = {p \in DOMAIN t.node : \E x \in Sym : p = Append(q, x)}
        /\ IsFiniteSet(Below(t, q)) /\ Cardinality(Below(t, q)) \in Nat
    BY <1>1, BelowIs
  <2>2. Append(q, s) \in Below(t, q)
    BY <2>1
  <2>3. ASSUME NEW p  PROVE p \in Below(u, q) <=> p \in Below(t, q) /\ p # Append(q, s)
    <3>1. p \in Below(u, q) => p \in Below(t, q)
      BY <1>3 DEF Below
    <3>2. ASSUME p \in Below(t, q)  PROVE p \in Below(u, q) <=> p # Append(q, s)
      <4>1. PICK x \in Sym : p = Append(q, x) /\ p \in DOMAIN t.node
        BY <2>1, <3>2
      <4>2. p \in DOMAIN u.node <=> x # s
        BY <1>3, <4>1
      <4>3. p = Append(q, s) <=> x = s
        BY <1>1, <4>1, ExtendedAlike
      <4>4. p \in Below(u, q) <=> p \in DOMAIN u.node
        BY <3>2 DEF Below
      <4> QED  BY <4>2, <4>3, <4>4
    <3> QED  BY <3>1, <3>2
  <2>4. Below(u, q) = Below(t, q) \ {Append(q, s)}
    BY <2>3
  <2> QED  BY <2>1, <2>2, <2>4, FS_RemoveElement
<1>8. Sized(u, q)
  <2>1. CASE t.kids[q].size = 0
    <3>1. Len(t.kids[q].bucket[1]) <= MaxSibling
      BY <2>1 DEF Local, Sized
    <3>2. Len(t.kids[q].bucket[1]) \in Nat /\ MaxSibling \in Nat
      <4>1. 1 \in 1..Buckets(t.kids[q].size)
        BY <2>1 DEF Buckets
      <4> QED  BY <4>1, FormedParts, SizesAssumption
    <3>3. Len(u.kids[q].bucket[1]) <= MaxSibling
      BY <1>2, <2>1, <3>1, <3>2
    <3> QED  BY <1>2, <2>1, <3>3 DEF Sized
  <2>2. CASE t.kids[q].size # 0
    <3>1. t.kids[q].size > 0
      BY <1>1, <2>2
    <3>2. t.kids[q].count = Cardinality(Below(t, q))
      BY <2>2 DEF Local, Sized
    <3>3. u.kids[q].count = Cardinality(Below(u, q)) /\ u.kids[q].size # 0
      BY <1>2, <1>7, <2>2, <3>1, <3>2
    <3> QED  BY <3>3 DEF Sized
  <2> QED  BY <2>1, <2>2
<1> QED  BY <1>2, <1>5, <1>6, <1>8 DEF Local

\* delete_branch removes the branch of a leaf, and nothing of another.
LEMMA DeleteKeeps ==
  ASSUME NEW t, Well(t), NEW p \in Ends(t), NEW u, u = delete_branch(t, p)
  PROVE  /\ Well(u) /\ Ends(u) = Ends(t) \ {p} /\ DOMAIN u.node \subseteq DOMAIN t.node
         /\ \A x \in DOMAIN u.node : u.node[x].status = t.node[x].status
<1>0. PICK top, w, B : /\ top = Max(Top(t, p)) /\ w = IF top = 0 THEN t ELSE Unlink(t, SubSeq(p, 1, top))
                       /\ B = Branch(p, top)
  OBVIOUS
<1>1. u = [node |-> [x \in DOMAIN w.node \ B |-> w.node[x]], kids |-> [x \in DOMAIN w.kids \ B |-> w.kids[x]]]
  BY <1>0 DEF delete_branch, Top
<1>2. /\ DOMAIN u.node = DOMAIN w.node \ B /\ DOMAIN u.kids = DOMAIN w.kids \ B
      /\ \A x \in DOMAIN w.node \ B : u.node[x] = w.node[x]
      /\ \A x \in DOMAIN w.kids \ B : u.kids[x] = w.kids[x]
  BY <1>1
<1>3. /\ p \in Leaves /\ p \in Seq(Sym) /\ Len(p) \in Nat \ {0} /\ top \in 0..Len(p) /\ top \in Nat
      /\ top # 0 => HasSibling(t, Upto(p, top))
      /\ \A m \in 1..Len(p) : /\ Upto(p, m - 1) \in DOMAIN t.kids /\ Upto(p, m) = Append(Upto(p, m - 1), p[m])
                              /\ p[m] \in Sym /\ Upto(p, m) \in DOMAIN t.node
      /\ B = {Upto(p, m) : m \in top..Len(p)} /\ p \in B
  BY <1>0, TopIs
<1>4. ASSUME NEW x \in DOMAIN t.node, top <= Len(x), Upto(x, top) = Upto(p, top)  PROVE x \in B
  BY <1>0, <1>4, BranchAlone
<1>5. /\ Formed(t) /\ Ends(t) \subseteq Leaves /\ Ends(t) \subseteq Seq(Sym) /\ Ends(t) \subseteq DOMAIN t.node
      /\ DOMAIN t.kids = DOMAIN t.node \ Ends(t) /\ \A q \in DOMAIN t.kids : Local(t, q)
      /\ \A e \in Ends(t) : Len(e) \in Nat \ {0} /\ \A n \in 0..Len(e) : Upto(e, n) \in DOMAIN t.node
      /\ \A x \in DOMAIN t.node : \E e \in Ends(t) : \E n \in 0..Len(e) : x = Upto(e, n)
  BY WellPaths, LeavesTyped DEF Well, Ends
<1>6. ASSUME NEW e \in Ends(t), e # p, NEW n \in 0..Len(e)  PROVE Upto(e, n) \notin B
  <2> SUFFICES ASSUME Upto(e, n) \in B  PROVE FALSE
    OBVIOUS
  <2>1. PICK m \in top..Len(p) : Upto(e, n) = Upto(p, m)
    BY <1>3
  <2>2. m \in 0..Len(p) /\ e \in Seq(Sym) /\ Len(e) \in Nat /\ e \in Leaves
    BY <1>3, <1>5
  <2>3. m = n
    BY <1>3, <2>1, <2>2, UptoIs
  <2>4. top \in 0..n /\ top <= Len(e) /\ n \in 0..Len(p)
    BY <1>3, <2>2, <2>3
  <2>5. Upto(e, top) = Upto(p, top)
    <3>1. Upto(Upto(e, n), top) = Upto(e, top)
      BY <2>2, <2>4, UptoUpto
    <3>2. Upto(Upto(p, n), top) = Upto(p, top)
      BY <1>3, <2>4, UptoUpto
    <3> QED  BY <2>1, <2>3, <3>1, <3>2
  <2>6. e \in B
    BY <1>4, <1>5, <2>4, <2>5
  <2>7. PICK j \in top..Len(p) : e = Upto(p, j)
    BY <1>3, <2>6
  <2>8. j \in 0..Len(p)
    BY <1>3
  <2> QED  BY <1>3, <1>6, <2>2, <2>7, <2>8, LeafApart
<1>7. ASSUME NEW n \in 0..Len(p), n < top  PROVE \E e \in Ends(t) : e # p /\ \E j \in 0..Len(e) : Upto(p, n) = Upto(e, j)
  <2>0. PICK q, s : q = Upto(p, top - 1) /\ s = p[top]
    OBVIOUS
  <2>1. top \in 1..Len(p) /\ top # 0 /\ n \in 0..top - 1 /\ top - 1 \in 0..Len(p)
    BY <1>3, <1>7
  <2>2. q \in DOMAIN t.kids /\ Append(q, s) \in DOMAIN t.node /\ HasSibling(t, Append(q, s)) /\ s \in Sym
        /\ Upto(p, top) = Append(q, s)
    BY <1>3, <2>0, <2>1
  <2>3. PICK x \in Sym : x # s /\ Append(q, x) \in DOMAIN t.node
    BY <1>5, <2>2, HasSiblingIs
  <2>4. PICK e \in Ends(t) : \E j \in 0..Len(e) : Append(q, x) = Upto(e, j)
    BY <1>5, <2>3
  <2>5. PICK j \in 0..Len(e) : Append(q, x) = Upto(e, j)
    BY <2>4
  <2>6. e \in Seq(Sym) /\ Len(e) \in Nat /\ q \in Seq(Sym) /\ Len(q) = top - 1
    BY <1>3, <1>5, <2>0, <2>1, UptoIs
  <2>7. j = top /\ j \in 1..Len(e)
    <3>1. Len(Append(q, x)) = (top - 1) + 1
      BY <2>6, Extended
    <3>2. Len(Upto(e, j)) = j
      BY <2>6, UptoIs
    <3> QED  BY <1>3, <2>1, <2>5, <2>6, <3>1, <3>2
  <2>8. q = Upto(e, top - 1) /\ x = e[top] /\ e[top] \in Sym /\ top - 1 \in 0..Len(e)
    <3>1. e[top] \in Sym /\ top - 1 \in 0..Len(e) /\ Upto(e, top) = Append(Upto(e, top - 1), e[top])
      BY <2>6, <2>7, UptoNext
    <3>2. Upto(e, top - 1) \in Seq(Sym)
      BY <2>6, <3>1, UptoIs
    <3> QED  BY <2>3, <2>5, <2>6, <2>7, <3>1, <3>2, ExtendedAlike
  <2>9. e # p
    BY <2>0, <2>3, <2>8
  <2>10. Upto(p, n) = Upto(e, n) /\ n \in 0..Len(e)
    <3>1. Upto(Upto(p, top - 1), n) = Upto(p, n)
      BY <1>3, <2>1, UptoUpto
    <3>2. Upto(Upto(e, top - 1), n) = Upto(e, n)
      BY <2>1, <2>6, <2>8, UptoUpto
    <3>3. n \in 0..Len(e)
      BY <2>1, <2>8
    <3> QED  BY <2>0, <2>8, <3>1, <3>2, <3>3
  <2> QED  BY <2>9, <2>10
<1>8. ASSUME NEW q \in Seq(Sym), NEW x \in Sym, Append(q, x) \in B
      PROVE  (top # 0 /\ q = Upto(p, top - 1) /\ x = p[top]) \/ q \in B
  <2>1. PICK m \in top..Len(p) : Append(q, x) = Upto(p, m)
    BY <1>3, <1>8
  <2>2. m \in 0..Len(p) /\ m # 0
    <3>1. m \in 0..Len(p)
      BY <1>3
    <3>2. Append(q, x) # <<>>
      BY Extended
    <3> QED  BY <1>3, <2>1, <3>1, <3>2, UptoIs
  <2>3. m \in 1..Len(p) /\ m - 1 \in 0..Len(p)
    BY <1>3, <2>2, SMTT(30)
  <2>4. q = Upto(p, m - 1) /\ x = p[m]
    <3>1. Upto(p, m) = Append(Upto(p, m - 1), p[m]) /\ p[m] \in Sym /\ Upto(p, m - 1) \in Seq(Sym)
      BY <1>3, <2>3, UptoIs
    <3> QED  BY <2>1, <3>1, ExtendedAlike
  <2>5. CASE m = top
    BY <2>2, <2>4, <2>5
  <2>6. CASE m # top
    <3>1. m - 1 \in top..Len(p)
      BY <1>3, <2>3, <2>6
    <3> QED  BY <1>3, <2>4, <3>1
  <2> QED  BY <2>5, <2>6
<1>9. /\ Formed(w) /\ DOMAIN w.node = DOMAIN t.node /\ DOMAIN w.kids = DOMAIN t.kids
      /\ \A x \in DOMAIN t.node : w.node[x].leaf = t.node[x].leaf /\ w.node[x].status = t.node[x].status
      /\ \A q \in DOMAIN t.kids : q \notin B => Local(u, q)
  <2>1. CASE top = 0
    <3>1. w = t
      BY <1>0, <2>1
    <3>2. ASSUME NEW q \in DOMAIN t.kids, q \notin B  PROVE Local(u, q)
      <4>1. q \in Seq(Sym) /\ Local(t, q)
        BY <1>5, FormedParts
      <4>2. \A x \in Sym : Append(q, x) \in DOMAIN t.node => Append(q, x) \in DOMAIN u.node
        BY <1>2, <1>8, <2>1, <3>1, <3>2, <4>1
      <4>3. u.kids[q] = t.kids[q] /\ Formed(t)
        BY <1>2, <1>5, <3>1, <3>2
      <4>4. DOMAIN u.node \subseteq DOMAIN t.node /\ \A x \in DOMAIN u.node : u.node[x] = t.node[x]
        BY <1>2, <3>1
      <4> QED  BY <4>1, <4>2, <4>3, <4>4, LocalWithout
    <3> QED  BY <1>5, <3>1, <3>2
  <2>2. CASE top # 0
    <3>0. PICK r, s : r = Upto(p, top - 1) /\ s = p[top]
      OBVIOUS
    <3>1. top \in 1..Len(p) /\ top - 1 \in 0..Len(p)
      BY <1>3, <2>2
    <3>2. r \in DOMAIN t.kids /\ Upto(p, top) = Append(r, s) /\ s \in Sym /\ Append(r, s) \in DOMAIN t.node /\ r \in Seq(Sym)
      BY <1>3, <3>0, <3>1, UptoIs
    <3>3. w = Unlink(t, Append(r, s)) /\ Local(t, r) /\ Formed(t)
      BY <1>0, <1>5, <2>2, <3>2 DEF Upto
    <3>4. Append(r, s) \in B
      <4>1. top \in top..Len(p)
        BY <1>3
      <4> QED  BY <1>3, <3>2, <4>1
    <3>5. r \notin B
      <4> SUFFICES ASSUME NEW m \in top..Len(p), r = Upto(p, m)  PROVE FALSE
        BY <1>3
      <4>1. m \in 0..Len(p) /\ m # top - 1
        BY <1>3
      <4>2. Len(r) = top - 1
        BY <1>3, <3>0, <3>1, UptoIs
      <4>3. Len(Upto(p, m)) = m
        BY <1>3, <4>1, UptoIs
      <4> QED  BY <4>1, <4>2, <4>3
    <3>6. ASSUME NEW x \in Sym, Append(r, x) \in DOMAIN w.node  PROVE Append(r, x) \in DOMAIN u.node <=> x # s
      <4>1. Append(r, x) \in B => x = s
        BY <1>8, <3>0, <3>2, <3>5
      <4> QED  BY <1>2, <3>4, <3>6, <4>1
    <3>7. Formed(w) /\ SameBut(t, w, r) /\ DOMAIN w.kids = DOMAIN t.kids
      <4>1. Linked(t, r) /\ Held(t.kids[r], s)
        BY <3>2, <3>3 DEF Local, Complete
      <4>2. Formed(w) /\ SameBut(t, w, r)
        BY <3>2, <3>3, <4>1, UnlinkKeeps
      <4> QED  BY <4>2 DEF SameBut
    <3>8. Local(u, r)
      <4>1. u.kids[r] = w.kids[r]
        BY <1>2, <3>2, <3>5, <3>7
      <4>2. DOMAIN u.node \subseteq DOMAIN w.node /\ \A x \in DOMAIN u.node : u.node[x] = w.node[x]
        BY <1>2
      <4> QED  BY <3>2, <3>3, <3>6, <4>1, <4>2, LocalWithoutOne
    <3>9. ASSUME NEW q \in DOMAIN t.kids, q \notin B, q # r  PROVE Local(u, q)
      <4>1. q \in Seq(Sym) /\ Local(t, q)
        BY <1>5, FormedParts
      <4>2. Local(w, q) /\ q \in DOMAIN w.kids
        BY <3>2, <3>3, <3>7, <3>9, <4>1, LocalElsewhere
      <4>3. \A x \in Sym : Append(q, x) \in DOMAIN w.node => Append(q, x) \in DOMAIN u.node
        BY <1>2, <1>8, <3>0, <3>9, <4>1
      <4>4. u.kids[q] = w.kids[q]
        BY <1>2, <3>9, <4>2
      <4>5. DOMAIN u.node \subseteq DOMAIN w.node /\ \A x \in DOMAIN u.node : u.node[x] = w.node[x]
        BY <1>2
      <4> QED  BY <3>7, <4>2, <4>3, <4>4, <4>5, LocalWithout
    <3> QED  BY <3>7, <3>8, <3>9 DEF SameBut
  <2> QED  BY <2>1, <2>2
<1>10. /\ DOMAIN u.node = DOMAIN t.node \ B /\ DOMAIN u.kids = DOMAIN t.kids \ B
       /\ \A x \in DOMAIN u.node : u.node[x].leaf = t.node[x].leaf /\ u.node[x].status = t.node[x].status
  BY <1>2, <1>9
<1>11. Formed(u)
  <2>1. u.node \in [DOMAIN u.node -> NodeRecord]
    BY <1>1, <1>2, <1>9 DEF Formed
  <2>2. u.kids \in [DOMAIN u.kids -> KidsRecord]
    BY <1>1, <1>2, <1>9 DEF Formed
  <2>3. u \in [node : [DOMAIN u.node -> NodeRecord], kids : [DOMAIN u.kids -> KidsRecord]]
    BY <1>1, <2>1, <2>2
  <2>4. IsFiniteSet(DOMAIN u.node)
    BY <1>5, <1>10, FS_Subset DEF Formed
  <2>5. DOMAIN u.node \subseteq Seq(Sym) /\ DOMAIN u.kids \subseteq DOMAIN u.node
    BY <1>5, <1>10 DEF Formed
  <2>6. \A q \in DOMAIN u.kids : Len(u.kids[q].bucket) = Buckets(u.kids[q].size)
    BY <1>2, <1>9 DEF Formed
  <2> QED  BY <2>3, <2>4, <2>5, <2>6 DEF Formed
<1>12. Ends(u) = Ends(t) \ {p}
  <2>1. \A e \in Ends(t) : e \in B <=> e = p
    <3>1. ASSUME NEW e \in Ends(t), e # p  PROVE e \notin B
      <4>1. Upto(e, Len(e)) = e /\ Len(e) \in 0..Len(e)
        BY <1>5, UptoIs
      <4> QED  BY <1>6, <3>1, <4>1
    <3> QED  BY <1>3, <3>1
  <2>2. \A x : x \in Ends(u) <=> x \in Ends(t) /\ x \notin B
    BY <1>10 DEF Ends
  <2> QED  BY <2>1, <2>2
<1>13. DOMAIN u.node = UNION {Branch(e, 0) : e \in Ends(u)}
  <2>1. \A e \in Ends(u) : Branch(e, 0) = {Upto(e, m) : m \in 0..Len(e)}
    BY <1>5, <1>12, BranchIs
  <2>2. ASSUME NEW e \in Ends(u), NEW m \in 0..Len(e)  PROVE Upto(e, m) \in DOMAIN u.node
    BY <1>5, <1>6, <1>10, <1>12
  <2>3. ASSUME NEW x \in DOMAIN u.node  PROVE \E e \in Ends(u) : \E m \in 0..Len(e) : x = Upto(e, m)
    <3>1. x \in DOMAIN t.node /\ x \notin B
      BY <1>10
    <3>2. PICK e \in Ends(t) : \E m \in 0..Len(e) : x = Upto(e, m)
      BY <1>5, <3>1
    <3>3. PICK m \in 0..Len(e) : x = Upto(e, m)
      BY <3>2
    <3>4. CASE e # p
      BY <1>12, <3>3, <3>4
    <3>5. CASE e = p
      <4>1. m < top
        BY <1>3, <3>1, <3>3, <3>5
      <4>2. \E f \in Ends(t) : f # p /\ \E j \in 0..Len(f) : x = Upto(f, j)
        BY <1>7, <3>3, <3>5, <4>1
      <4> QED  BY <1>12, <4>2
    <3> QED  BY <3>4, <3>5
  <2>4. \A x : x \in DOMAIN u.node <=> \E e \in Ends(u) : x \in Branch(e, 0)
    BY <2>1, <2>2, <2>3
  <2> QED  BY <2>4
<1>14. DOMAIN u.kids = DOMAIN u.node \ Ends(u)
  <2>1. \A x \in Ends(t) : x \notin B => x \in Ends(u)
    BY <1>3, <1>12
  <2>2. \A x \in Ends(u) : x \in Ends(t)
    BY <1>12
  <2> QED  BY <1>5, <1>10, <2>1, <2>2
<1>15. \A q \in DOMAIN u.kids : Local(u, q)
  BY <1>9, <1>10
<1>16. Ends(u) \subseteq Leaves
  BY <1>5, <1>12
<1>17. Well(u)
  BY <1>11, <1>13, <1>14, <1>15, <1>16 DEF Well
<1> QED  BY <1>10, <1>12, <1>17

(* The soft removal of a leaf, its undoing, and the list of the leaves to reclaim. *)

\* Only the type and the status of a node change.
LEMMA MarkedKeeps ==
  ASSUME NEW t, Well(t), NEW p \in DOMAIN t.node, NEW y \in NodeRecord,
         y.cp = t.node[p].cp, y.leaf = t.node[p].leaf, NEW u, u = [t EXCEPT !.node[p] = y]
  PROVE  /\ Well(u) /\ DOMAIN u.node = DOMAIN t.node /\ u.node[p] = y
         /\ \A x \in DOMAIN t.node : x # p => u.node[x] = t.node[x]
<1>1. Formed(t) /\ t \in [node : [DOMAIN t.node -> NodeRecord], kids : [DOMAIN t.kids -> KidsRecord]]
  BY DEF Well, Formed
<1>2. u = [t EXCEPT !.node = [t.node EXCEPT ![p] = y]]
  BY <1>1
<1>3. /\ u.kids = t.kids /\ DOMAIN u.node = DOMAIN t.node /\ u.node[p] = y
      /\ \A x \in DOMAIN t.node : x # p => u.node[x] = t.node[x]
      /\ u \in [node : [DOMAIN t.node -> NodeRecord], kids : [DOMAIN t.kids -> KidsRecord]]
  BY <1>1, <1>2
<1>4. Formed(u)
  BY <1>1, <1>3 DEF Formed
<1>5. \A x \in DOMAIN t.node : u.node[x].cp = t.node[x].cp /\ u.node[x].leaf = t.node[x].leaf
  BY <1>3
<1>6. Ends(u) = Ends(t)
  BY <1>3, <1>5 DEF Ends
<1>7. \A q \in DOMAIN u.kids : Local(u, q)
  BY <1>3, <1>5, LocalSame DEF Well
<1>8. Well(u)
  BY <1>3, <1>4, <1>6, <1>7 DEF Well
<1> QED  BY <1>3, <1>8

\* Soft removal changes the status of its leaf only.
LEMMA DisableKeeps ==
  ASSUME NEW t, Well(t), NEW p \in DOMAIN t.node, NEW u, u = safe_delete_branch(t, p)
  PROVE  /\ Well(u) /\ DOMAIN u.node = DOMAIN t.node
         /\ \A x \in DOMAIN t.node : x # p => u.node[x].status = t.node[x].status
<1>0. PICK y : y = [t.node[p] EXCEPT !.status = t.node[p].type, !.type = "fail"]
  OBVIOUS
<1>1. t.node[p] \in NodeRecord
  BY DEF Well, Formed
<1>2. y \in NodeRecord /\ y.cp = t.node[p].cp /\ y.leaf = t.node[p].leaf
  BY <1>0, <1>1 DEF NodeRecord, Types
<1>3. u = [t EXCEPT !.node[p] = y]
  BY <1>0 DEF safe_delete_branch
<1> QED  BY <1>2, <1>3, MarkedKeeps

\* Taking a leaf back makes it valid, and changes no other.
LEMMA EnableKeeps ==
  ASSUME NEW t, Well(t), NEW p \in DOMAIN t.node, NEW u, u = undelete_branch(t, p)
  PROVE  /\ Well(u) /\ DOMAIN u.node = DOMAIN t.node /\ u.node[p].status = "valid"
         /\ \A x \in DOMAIN t.node : x # p => u.node[x].status = t.node[x].status
<1>1. CASE ~ IsDeletedNode(t, p)
  BY <1>1 DEF undelete_branch, IsDeletedNode
<1>2. CASE IsDeletedNode(t, p)
  <2>0. PICK y : y = [t.node[p] EXCEPT !.type = t.node[p].status, !.status = "valid"]
    OBVIOUS
  <2>1. t.node[p] \in NodeRecord /\ t.node \in [DOMAIN t.node -> NodeRecord] /\ t.node[p].status # "valid"
        /\ t \in [node : [DOMAIN t.node -> NodeRecord], kids : [DOMAIN t.kids -> KidsRecord]]
    BY <1>2 DEF Well, Formed, IsDeletedNode
  <2>2. y \in NodeRecord /\ y.cp = t.node[p].cp /\ y.leaf = t.node[p].leaf /\ y.status = "valid"
    BY <2>0, <2>1 DEF NodeRecord
  <2>3. u = [t EXCEPT !.node[p] = y]
    <3>1. u = [t EXCEPT !.node[p].type = t.node[p].status, !.node[p].status = "valid"]
      BY <1>2 DEF undelete_branch
    <3> QED  BY <2>0, <2>1, <3>1
  <2> QED  BY <2>2, <2>3, MarkedKeeps
<1> QED  BY <1>1, <1>2

\* What the list may hold: a node, named by its path, or one that was freed.
Entry == Seq(Sym) \union {Gone}

\* Whatever is removed and not freed is a leaf on the list.  The list holds nodes, once each, and
\* freed ones; until one was freed while it was listed, it holds leaves.
Listed(t, g, freed) ==
  /\ g \in Seq(Entry)
  /\ \A i \in DOMAIN g : g[i] \in DOMAIN t.node \/ g[i] = Gone
  /\ \A i, j \in DOMAIN g : g[i] = g[j] /\ g[i] # Gone => i = j
  /\ \A p \in DOMAIN t.node : IsDeletedNode(t, p) => p \in Leaves /\ Contains(g, p)
  /\ freed \/ \A i \in DOMAIN g : g[i] \in Leaves /\ g[i] \in DOMAIN t.node

\* A freed node is no path.
LEMMA GoneApart ==
  /\ Gone \notin Seq(Sym) /\ Gone \notin Leaves
  /\ \A t : Well(t) => Gone \notin DOMAIN t.node /\ DOMAIN t.node \subseteq Entry
<1>1. Gone \notin Seq(Sym)
  <2> SUFFICES ASSUME Gone \in Seq(Sym)  PROVE FALSE
    OBVIOUS
  <2>1. Len(Gone) = 1 /\ Gone[1].is = "freed"
    BY DEF Gone
  <2>2. Gone[1] \in Sym
    BY <2>1
  <2> QED  BY <2>1, <2>2 DEF Sym, AnySymbol
<1>2. Gone \notin Leaves
  BY <1>1, LeavesTyped
<1>3. ASSUME NEW t, Well(t)  PROVE Gone \notin DOMAIN t.node /\ DOMAIN t.node \subseteq Entry
  <2>1. \A p \in DOMAIN t.node : p \in Seq(Sym)
    BY <1>3, WellPaths
  <2> QED  BY <1>1, <2>1, Zenon DEF Entry
<1> QED  BY <1>1, <1>2, <1>3

\* What reclaim_uninterned_nr makes of the trie v at an entry p of the list.
Reclaimed(v, p) ==
  IF p \in DOMAIN v.node /\ IsDeletedNode(v, p) THEN delete_branch(v, p) ELSE v

\* f is the sequence of the tries that it goes through.
Reclaims(f, t, g, n) == f = [i \in 0..n |-> IF i = 0 THEN t ELSE Reclaimed(f[i - 1], g[i])]

\* There is such a function, for every number of leaves.
LEMMA ReclaimsSome ==
  ASSUME NEW t, NEW g, NEW n \in Nat
  PROVE  \E f : Reclaims(f, t, g, n)
<1> DEFINE N == {m \in Nat : \E f : Reclaims(f, t, g, m)}
           Next(v, i) == Reclaimed(v, g[i])
<1>1. 0 \in N
  <2>0. PICK f : f = [i \in 0..0 |-> t]
    OBVIOUS
  <2>1. \A i \in 0..0 : i = 0
    OBVIOUS
  <2>2. f = [i \in 0..0 |-> IF i = 0 THEN t ELSE Next(f[i - 1], i)]
    <3> HIDE DEF Next
    <3> QED  BY <2>0, <2>1
  <2>3. Reclaims(f, t, g, 0)
    BY <2>2 DEF Reclaims
  <2> QED  BY <2>3
<1>2. ASSUME NEW m \in Nat, m \in N  PROVE m + 1 \in N
  <2>0. PICK f : Reclaims(f, t, g, m)
    BY <1>2
  <2> DEFINE h == [i \in 0..m + 1 |-> IF i = 0 THEN t ELSE Next(f[i - 1], i)]
  <2>1. \A i \in 0..m : f[i] = IF i = 0 THEN t ELSE Next(f[i - 1], i)
    BY <2>0 DEF Reclaims
  <2>2. \A i \in 0..m + 1 : i # 0 => i - 1 \in 0..m /\ i - 1 \in 0..m + 1
    OBVIOUS
  <2>3. \A i \in 0..m + 1 : h[i] = IF i = 0 THEN t ELSE Next(f[i - 1], i)
    <3> HIDE DEF Next
    <3> QED  OBVIOUS
  <2>4. \A i \in 0..m + 1 : i # 0 => h[i - 1] = f[i - 1]
    <3> HIDE DEF h, Next
    <3> QED  BY <2>1, <2>2, <2>3
  <2>5. \A i \in 0..m + 1 : h[i] = IF i = 0 THEN t ELSE Next(h[i - 1], i)
    <3> HIDE DEF h, Next
    <3> QED  BY <2>3, <2>4
  <2>6. Reclaims(h, t, g, m + 1)
    <3>1. h = [i \in 0..m + 1 |-> h[i]]
      OBVIOUS
    <3> HIDE DEF h
    <3>2. h = [i \in 0..m + 1 |-> IF i = 0 THEN t ELSE Next(h[i - 1], i)]
      <4> HIDE DEF Next
      <4> QED  BY <2>5, <3>1
    <3> QED  BY <3>2 DEF Reclaims
  <2> HIDE DEF h
  <2> QED  BY <2>6
<1> HIDE DEF N
<1>3. n \in N
  BY <1>1, <1>2, NatSetInduction
<1> QED  BY <1>3 DEF N

\* Reclaiming frees every leaf that is still removed.  Until one was freed while it was listed, it
\* reads no entry that is not allocated.
LEMMA ReclaimsAll ==
  ASSUME NEW t, Well(t), NEW g, NEW freed, Listed(t, g, freed), NEW f, Reclaims(f, t, g, Len(g))
  PROVE  /\ Well(f[Len(g)]) /\ \A p \in DOMAIN f[Len(g)].node : ~ IsDeletedNode(f[Len(g)], p)
         /\ freed \/ \A i \in DOMAIN g : g[i] \in DOMAIN f[i - 1].node
<1>0. PICK n : n = Len(g)
  OBVIOUS
<1>1. n \in Nat /\ DOMAIN g = 1..n
  BY <1>0 DEF Listed
<1>2. /\ \A i, j \in 1..n : g[i] = g[j] /\ g[i] # Gone => i = j
      /\ freed \/ \A i \in 1..n : g[i] \in Leaves /\ g[i] \in DOMAIN t.node
  BY <1>1 DEF Listed
<1>3. \A i \in 0..n : f[i] = IF i = 0 THEN t ELSE Reclaimed(f[i - 1], g[i])
  BY <1>0, Zenon DEF Reclaims
<1> DEFINE Good(i) ==
             /\ Well(f[i])
             /\ \A p \in DOMAIN f[i].node : IsDeletedNode(f[i], p) => p \in Leaves /\ \E j \in i + 1..n : g[j] = p
             /\ freed \/ \A j \in i + 1..n : g[j] \in Leaves /\ g[j] \in DOMAIN f[i].node
           N == {i \in Nat : i <= n => Good(i)}
<1>4. 0 \in N
  <2>1. f[0] = t
    BY <1>1, <1>3
  <2>2. \A p \in DOMAIN t.node : IsDeletedNode(t, p) => p \in Leaves /\ \E j \in 1..n : g[j] = p
    BY <1>0 DEF Listed, Contains
  <2> QED  BY <1>1, <1>2, <2>1, <2>2
<1>5. ASSUME NEW i \in Nat, i \in N  PROVE i + 1 \in N
  <2> SUFFICES ASSUME i + 1 <= n  PROVE Good(i + 1)
    BY DEF N
  <2>1. /\ Good(i) /\ i + 1 \in 0..n /\ i + 1 # 0 /\ (i + 1) - 1 = i /\ i + 1 \in 1..n /\ i + 1 \in i + 1..n
        /\ \A j \in i + 1..n : j \in 1..n /\ (j # i + 1 => j \in (i + 1) + 1..n)
        /\ \A j \in (i + 1) + 1..n : j \in 1..n /\ j \in i + 1..n /\ j # i + 1
    <3> HIDE DEF Good
    <3> QED  BY <1>1, <1>5
  <2>0. PICK v, u, p : v = f[i] /\ u = f[i + 1] /\ p = g[i + 1]
    OBVIOUS
  <2>2. u = Reclaimed(v, p)
    BY <1>3, <2>0, <2>1
  <2>3. /\ Well(v)
        /\ \A x \in DOMAIN v.node : IsDeletedNode(v, x) => x \in Leaves /\ \E j \in i + 1..n : g[j] = x
        /\ freed \/ \A j \in i + 1..n : g[j] \in Leaves /\ g[j] \in DOMAIN v.node
    BY <2>0, <2>1
  <2>5. CASE ~ (p \in DOMAIN v.node /\ IsDeletedNode(v, p))
    <3>1. u = v
      BY <2>2, <2>5 DEF Reclaimed
    <3>2. ASSUME NEW x \in DOMAIN v.node, IsDeletedNode(v, x)  PROVE x \in Leaves /\ \E j \in (i + 1) + 1..n : g[j] = x
      <4>1. PICK j \in i + 1..n : g[j] = x
        BY <2>3, <3>2
      <4>2. j # i + 1
        BY <2>0, <2>5, <3>2, <4>1
      <4> QED  BY <2>1, <2>3, <3>2, <4>1, <4>2
    <3>3. freed \/ \A j \in (i + 1) + 1..n : g[j] \in Leaves /\ g[j] \in DOMAIN u.node
      BY <2>1, <2>3, <3>1
    <3> QED  BY <2>0, <2>3, <3>1, <3>2, <3>3
  <2>6. CASE p \in DOMAIN v.node /\ IsDeletedNode(v, p)
    <3>0. p \in Ends(v) /\ p \in Leaves
      BY <2>3, <2>6, WellPaths
    <3>1. /\ Well(u) /\ Ends(u) = Ends(v) \ {p} /\ DOMAIN u.node \subseteq DOMAIN v.node
          /\ \A x \in DOMAIN u.node : u.node[x].status = v.node[x].status
      <4>1. u = delete_branch(v, p)
        BY <2>2, <2>6 DEF Reclaimed
      <4> QED  BY <2>3, <3>0, <4>1, DeleteKeeps
    <3>2. p \notin DOMAIN u.node
      BY <3>0, <3>1, WellPaths
    <3>3. ASSUME NEW x \in DOMAIN u.node, IsDeletedNode(u, x)  PROVE x \in Leaves /\ \E j \in (i + 1) + 1..n : g[j] = x
      <4>1. x \in DOMAIN v.node /\ IsDeletedNode(v, x) /\ x # p
        BY <3>1, <3>2, <3>3 DEF IsDeletedNode
      <4>2. PICK j \in i + 1..n : g[j] = x
        BY <2>3, <4>1
      <4>3. j # i + 1
        BY <2>0, <4>1, <4>2
      <4> QED  BY <2>1, <2>3, <4>1, <4>2, <4>3
    <3>4. ASSUME ~ freed, NEW j \in (i + 1) + 1..n  PROVE g[j] \in Leaves /\ g[j] \in DOMAIN u.node
      <4>1. g[j] \in Leaves /\ g[j] \in DOMAIN v.node
        BY <2>1, <2>3, <3>4
      <4>2. g[j] # p
        <5>1. p # Gone
          BY <3>0, GoneApart
        <5> QED  BY <1>2, <2>0, <2>1, <5>1
      <4>3. g[j] \in Ends(v)
        BY <2>3, <4>1, WellPaths
      <4>4. g[j] \in Ends(u)
        BY <3>1, <4>2, <4>3
      <4> QED  BY <4>1, <4>4 DEF Ends
    <3> QED  BY <2>0, <3>1, <3>3, <3>4
  <2> QED  BY <2>5, <2>6
<1>6. \A i \in 0..n : Good(i)
  <2> HIDE DEF N
  <2>1. \A i \in Nat : i \in N
    BY <1>4, <1>5, NatSetInduction
  <2> HIDE DEF Good
  <2> QED  BY <1>1, <2>1 DEF N
<1>7. Well(f[n]) /\ \A p \in DOMAIN f[n].node : ~ IsDeletedNode(f[n], p)
  <2>1. n \in 0..n /\ \A j \in n + 1..n : FALSE
    BY <1>1
  <2> QED  BY <1>6, <2>1
<1>8. ASSUME ~ freed, NEW i \in 1..n  PROVE g[i] \in DOMAIN f[i - 1].node
  <2>1. i - 1 \in 0..n /\ i \in (i - 1) + 1..n
    BY <1>1
  <2> QED  BY <1>6, <1>8, <2>1
<1> QED  BY <1>0, <1>1, <1>7, <1>8

(* The inductive invariant. *)

\* It is Well that makes ChoicesMatchPlaces and NothingLeaksOrDangles inductive.
TrieInv ==
  /\ Well(trie)
  /\ Listed(trie, garbage, stale)
  /\ stale \in BOOLEAN /\ corrupt \in BOOLEAN
  /\ corrupt => stale

\* A new trie is well, and nothing is to be reclaimed.
LEMMA InitInv == newtrie => TrieInv
<1> SUFFICES ASSUME newtrie  PROVE TrieInv
  OBVIOUS
<1>1. trie = EmptyTrie /\ garbage = <<>> /\ stale = FALSE /\ corrupt = FALSE
  BY DEF newtrie
<1>2. Listed(trie, garbage, stale)
  <2>1. garbage \in Seq(Entry) /\ DOMAIN garbage = {}
    BY <1>1
  <2> QED  BY <1>1, <2>1, EmptyWell DEF Listed
<1> QED  BY <1>1, <1>2, EmptyWell DEF TrieInv

\* Interning keeps the list: an entry that was freed may be given to a new node.
LEMMA ReusedListed ==
  ASSUME NEW t, NEW u, Well(t), Well(u), NEW g, NEW freed, Listed(t, g, freed),
         DOMAIN t.node \subseteq DOMAIN u.node,
         \A x \in DOMAIN u.node : IsDeletedNode(u, x) => x \in DOMAIN t.node /\ IsDeletedNode(t, x),
         NEW h, DOMAIN h = DOMAIN g,
         \A i \in DOMAIN g : h[i] = g[i] \/ (g[i] = Gone /\ h[i] \in DOMAIN u.node),
         \A i \in DOMAIN g : \A j \in DOMAIN g \ {i} : h[i] # h[j] \/ h[i] = Gone,
         h \in Seq(Entry)
  PROVE  Listed(u, h, freed)
<1>1. \A i \in DOMAIN g : g[i] \in DOMAIN t.node => h[i] = g[i]
  BY GoneApart
<1>2. \A i \in DOMAIN h : h[i] \in DOMAIN u.node \/ h[i] = Gone
  BY DEF Listed
<1>3. ASSUME NEW x \in DOMAIN u.node, IsDeletedNode(u, x)  PROVE x \in Leaves /\ Contains(h, x)
  <2>1. x \in DOMAIN t.node /\ IsDeletedNode(t, x)
    BY <1>3
  <2>2. PICK i \in DOMAIN g : g[i] = x
    <3>1. Contains(g, x) /\ g \in Seq(Entry)
      BY <2>1 DEF Listed
    <3> QED  BY <3>1 DEF Contains
  <2>3. h[i] = x /\ i \in 1..Len(h)
    BY <1>1, <2>1, <2>2
  <2> QED  BY <2>1, <2>3 DEF Listed, Contains
<1>4. freed \/ \A i \in DOMAIN h : h[i] \in Leaves /\ h[i] \in DOMAIN u.node
  BY <1>1 DEF Listed
<1>5. \A i, j \in DOMAIN h : h[i] = h[j] /\ h[i] # Gone => i = j
  OBVIOUS
<1> QED  BY <1>2, <1>3, <1>4, <1>5 DEF Listed

\* Interning keeps the invariant.
LEMMA InternInv ==
  ASSUME TrieInv, NEW p \in Leaves, trie_intern(p)
  PROVE  TrieInv'
<1>0. PICK t, u, g, h : t = trie /\ u = trie' /\ g = garbage /\ h = garbage'
  OBVIOUS
<1>1. /\ Well(t) /\ Listed(t, g, stale) /\ u = whole_term_chk_ins(t, p)
      /\ stale' = stale /\ corrupt' = corrupt
  BY <1>0 DEF TrieInv, trie_intern
<1>2. /\ Well(u) /\ DOMAIN t.node \subseteq DOMAIN u.node
      /\ \A x \in DOMAIN u.node : IsDeletedNode(u, x) => x \in DOMAIN t.node /\ IsDeletedNode(t, x)
  <2>1. CASE p \in DOMAIN t.node
    <3>1. u = undelete_branch(t, p)
      BY <1>1, <2>1 DEF whole_term_chk_ins
    <3>2. /\ Well(u) /\ DOMAIN u.node = DOMAIN t.node /\ u.node[p].status = "valid"
          /\ \A x \in DOMAIN t.node : x # p => u.node[x].status = t.node[x].status
      BY <1>1, <2>1, <3>1, EnableKeeps
    <3> QED  BY <3>2 DEF IsDeletedNode
  <2>2. CASE p \notin DOMAIN t.node
    <3>1. /\ Well(u) /\ DOMAIN t.node \subseteq DOMAIN u.node
          /\ \A x \in DOMAIN u.node : u.node[x].status = IF x \in DOMAIN t.node THEN t.node[x].status ELSE "valid"
      BY <1>1, <2>2, InsertKeeps
    <3> QED  BY <3>1 DEF IsDeletedNode
  <2> QED  BY <2>1, <2>2
<1>3. h \in Reused(DOMAIN u.node \ DOMAIN t.node)
  BY <1>0 DEF trie_intern, Allocated
<1>4. /\ DOMAIN h = DOMAIN g
      /\ \A i \in DOMAIN g : h[i] = g[i] \/ (g[i] = Gone /\ h[i] \in DOMAIN u.node)
      /\ \A i \in DOMAIN g : \A j \in DOMAIN g \ {i} : h[i] # h[j] \/ h[i] = Gone
      /\ h = [i \in DOMAIN g |-> h[i]]
  BY <1>0, <1>3, Zenon DEF Reused
<1>5. h \in Seq(Entry)
  <2>1. Len(g) \in Nat /\ DOMAIN g = 1..Len(g) /\ \A i \in 1..Len(g) : g[i] \in Entry
    BY <1>1 DEF Listed
  <2>2. \A i \in 1..Len(g) : h[i] \in Entry
    BY <1>2, <1>4, <2>1, GoneApart, Zenon
  <2>3. h \in [1..Len(g) -> Entry]
    BY <1>4, <2>1, <2>2, Zenon
  <2>4. h \in UNION {[1..n -> Entry] : n \in Nat}
    BY <2>1, <2>3, Zenon
  <2> QED  BY <2>4, SeqDef, Zenon
<1>6. Listed(u, h, stale)
  BY <1>1, <1>2, <1>4, <1>5, ReusedListed
<1> QED  BY <1>0, <1>1, <1>2, <1>6 DEF TrieInv

\* Disposing of a leaf at once keeps the invariant: what is freed is gone from the list.
LEMMA DisposeInv ==
  ASSUME TrieInv, ~ corrupt, NEW p \in Leaves, trie_dispose(p)
  PROVE  TrieInv'
<1>0. PICK t, u, g, h : t = trie /\ u = trie' /\ g = garbage /\ h = garbage'
  OBVIOUS
<1>1. /\ Well(t) /\ Listed(t, g, stale) /\ p \in DOMAIN t.node /\ u = delete_branch(t, p)
      /\ h = [i \in DOMAIN g |-> IF g[i] \in DOMAIN u.node THEN g[i] ELSE Gone]
      /\ stale' = (stale \/ Contains(g, p)) /\ corrupt' = corrupt /\ corrupt \in BOOLEAN /\ stale \in BOOLEAN
  BY <1>0 DEF TrieInv, trie_dispose, Allocated
<1>2. p \in Ends(t)
  BY <1>1, WellPaths
<1>3. /\ Well(u) /\ Ends(u) = Ends(t) \ {p} /\ DOMAIN u.node \subseteq DOMAIN t.node
      /\ \A x \in DOMAIN u.node : u.node[x].status = t.node[x].status
  BY <1>1, <1>2, DeleteKeeps
<1>4. /\ Len(g) \in Nat /\ DOMAIN g = 1..Len(g) /\ \A i \in 1..Len(g) : g[i] \in Entry
      /\ DOMAIN h = 1..Len(g) /\ \A i \in 1..Len(g) : h[i] = IF g[i] \in DOMAIN u.node THEN g[i] ELSE Gone
  <2>1. Len(g) \in Nat /\ DOMAIN g = 1..Len(g) /\ \A i \in 1..Len(g) : g[i] \in Entry
    BY <1>1 DEF Listed
  <2> QED  BY <1>1, <2>1, Zenon
<1>5. h \in Seq(Entry)
  <2>1. \A i \in 1..Len(g) : h[i] \in Entry
    BY <1>4, Zenon DEF Entry
  <2>2. h \in [1..Len(g) -> Entry]
    BY <1>1, <1>4, <2>1, Zenon
  <2> QED  BY <1>4, <2>2, SeqDef, Zenon
<1>6. Len(h) = Len(g)
  BY <1>4, <1>5
<1>7. ASSUME NEW x \in DOMAIN u.node, IsDeletedNode(u, x)  PROVE x \in Leaves /\ Contains(h, x)
  <2>1. x \in DOMAIN t.node /\ IsDeletedNode(t, x)
    BY <1>3, <1>7 DEF IsDeletedNode
  <2>2. x \in Leaves /\ Contains(g, x)
    BY <1>1, <2>1 DEF Listed
  <2>3. PICK i \in 1..Len(g) : g[i] = x
    BY <2>2 DEF Contains
  <2>4. h[i] = x
    BY <1>4, <1>7, <2>3
  <2> QED  BY <1>6, <2>2, <2>3, <2>4 DEF Contains
<1>8. ASSUME ~ stale', NEW i \in 1..Len(g)  PROVE h[i] \in Leaves /\ h[i] \in DOMAIN u.node
  <2>1. ~ stale /\ ~ Contains(g, p)
    BY <1>1, <1>8
  <2>2. g[i] \in Leaves /\ g[i] \in DOMAIN t.node /\ g[i] # p
    BY <1>1, <1>4, <2>1 DEF Listed, Contains
  <2>3. g[i] \in Ends(u)
    BY <1>1, <1>3, <2>2, WellPaths
  <2> QED  BY <1>4, <2>2, <2>3 DEF Ends
<1>9. /\ \A i \in 1..Len(g) : h[i] \in DOMAIN u.node \/ h[i] = Gone
      /\ \A i, j \in 1..Len(g) : h[i] = h[j] /\ h[i] # Gone => i = j
  <2>1. \A i, j \in 1..Len(g) : g[i] = g[j] /\ g[i] # Gone => i = j
    BY <1>1, <1>4 DEF Listed
  <2> QED  BY <1>4, <2>1
<1>10. Listed(u, h, stale')
  BY <1>4, <1>5, <1>7, <1>8, <1>9 DEF Listed
<1> QED  BY <1>0, <1>1, <1>3, <1>10 DEF TrieInv

\* Disposing of a leaf for later keeps the invariant.
LEMMA DisposeLaterInv ==
  ASSUME TrieInv, NEW p \in Leaves, trie_dispose_nr(p)
  PROVE  TrieInv'
<1>0. PICK t, u, g, h : t = trie /\ u = trie' /\ g = garbage /\ h = garbage'
  OBVIOUS
<1>1. /\ Well(t) /\ Listed(t, g, stale) /\ p \in DOMAIN t.node
      /\ u = safe_delete_branch(t, p) /\ h = IF Contains(g, p) THEN g ELSE <<p>> \o g
      /\ stale' = stale /\ corrupt' = corrupt
  BY <1>0 DEF TrieInv, trie_dispose_nr, insertLeaf, Allocated
<1>2. /\ Well(u) /\ DOMAIN u.node = DOMAIN t.node
      /\ \A x \in DOMAIN t.node : x # p => u.node[x].status = t.node[x].status
  BY <1>1, DisableKeeps
<1>3. ASSUME NEW x \in DOMAIN u.node, IsDeletedNode(u, x)  PROVE x \in Leaves /\ (x = p \/ Contains(g, x))
  <2>1. x = p \/ IsDeletedNode(t, x)
    BY <1>2, <1>3 DEF IsDeletedNode
  <2> QED  BY <1>1, <1>2, <1>3, <2>1 DEF Listed
<1>4. CASE Contains(g, p)
  <2>1. h = g
    BY <1>1, <1>4
  <2>2. Listed(u, h, stale)
    BY <1>1, <1>2, <1>3, <1>4, <2>1 DEF Listed
  <2> QED  BY <1>0, <1>1, <1>2, <2>2 DEF TrieInv
<1>5. CASE ~ Contains(g, p)
  <2>1. h = <<p>> \o g /\ g \in Seq(Entry) /\ p \in Entry /\ p # Gone
    BY <1>1, <1>5, GoneApart, Zenon DEF Listed
  <2>2. /\ h \in Seq(Entry) /\ Len(h) = Len(g) + 1 /\ Len(g) \in Nat
        /\ h[1] = p /\ \A i \in 2..Len(g) + 1 : i - 1 \in 1..Len(g) /\ h[i] = g[i - 1]
        /\ \A x : Contains(h, x) <=> Contains(g, x) \/ x = p
    BY <2>1, Fronted
  <2>3. DOMAIN h = 1..Len(g) + 1 /\ DOMAIN g = 1..Len(g) /\ \A i \in 1..Len(g) + 1 : i = 1 \/ i \in 2..Len(g) + 1
    BY <2>1, <2>2
  <2>4. /\ \A i \in 1..Len(g) : g[i] \in DOMAIN t.node \/ g[i] = Gone
        /\ \A i, j \in 1..Len(g) : g[i] = g[j] /\ g[i] # Gone => i = j
        /\ \A i \in 1..Len(g) : g[i] # p
        /\ stale \/ \A i \in 1..Len(g) : g[i] \in Leaves /\ g[i] \in DOMAIN t.node
    BY <1>1, <1>5, <2>3 DEF Listed, Contains
  <2>5. \A i \in DOMAIN h : h[i] \in DOMAIN u.node \/ h[i] = Gone
    BY <1>1, <1>2, <2>2, <2>3, <2>4
  <2>6. ASSUME NEW i \in DOMAIN h, NEW j \in DOMAIN h, h[i] = h[j], h[i] # Gone  PROVE i = j
    <3>1. CASE i = 1 \/ j = 1
      BY <2>2, <2>3, <2>4, <2>6, <3>1
    <3>2. CASE i # 1 /\ j # 1
      <4>1. /\ i - 1 \in 1..Len(g) /\ h[i] = g[i - 1]
            /\ j - 1 \in 1..Len(g) /\ h[j] = g[j - 1]
        BY <2>2, <2>3, <3>2
      <4>2. i - 1 = j - 1
        BY <2>4, <2>6, <4>1
      <4> QED  BY <2>3, <4>2
    <3> QED  BY <3>1, <3>2
  <2>7. stale \/ \A i \in DOMAIN h : h[i] \in Leaves /\ h[i] \in DOMAIN u.node
    BY <1>1, <1>2, <2>2, <2>3, <2>4
  <2>8. Listed(u, h, stale)
    BY <1>3, <2>2, <2>5, <2>6, <2>7 DEF Listed
  <2> QED  BY <1>0, <1>1, <1>2, <2>8 DEF TrieInv
<1> QED  BY <1>4, <1>5

\* Taking a leaf back keeps the invariant.
LEMMA UndisposeInv ==
  ASSUME TrieInv, NEW p \in Leaves, trie_undispose(p)
  PROVE  TrieInv'
<1>0. PICK t, u, g, h : t = trie /\ u = trie' /\ g = garbage /\ h = Tail(garbage)
  OBVIOUS
<1>1. /\ Well(t) /\ Listed(t, g, stale) /\ p \in DOMAIN t.node /\ g # <<>> /\ h = Tail(g)
      /\ u = undelete_branch(t, p) /\ garbage' = IF Head(g) = p THEN h ELSE g
      /\ stale' = stale /\ corrupt' = corrupt
  BY <1>0 DEF TrieInv, trie_undispose, Allocated
<1>2. /\ Well(u) /\ DOMAIN u.node = DOMAIN t.node /\ u.node[p].status = "valid"
      /\ \A x \in DOMAIN t.node : x # p => u.node[x].status = t.node[x].status
  BY <1>1, EnableKeeps
<1>3. ASSUME NEW x \in DOMAIN u.node, IsDeletedNode(u, x)  PROVE x # p /\ x \in Leaves /\ Contains(g, x)
  <2>1. x # p /\ IsDeletedNode(t, x) /\ x \in DOMAIN t.node
    BY <1>2, <1>3 DEF IsDeletedNode
  <2> QED  BY <1>1, <2>1 DEF Listed
<1>4. CASE Head(g) # p
  <2>1. garbage' = g
    BY <1>1, <1>4
  <2>2. Listed(u, g, stale)
    BY <1>1, <1>2, <1>3 DEF Listed
  <2> QED  BY <1>0, <1>1, <1>2, <2>1, <2>2 DEF TrieInv
<1>5. CASE Head(g) = p
  <2>0. PICK n : n = Len(g)
    OBVIOUS
  <2>1. /\ garbage' = h /\ g \in Seq(Entry) /\ n \in Nat \ {0} /\ g[1] = p /\ DOMAIN g = 1..n
        /\ \A i, j \in 1..n : g[i] = g[j] /\ g[i] # Gone => i = j
        /\ \A i \in 1..n : g[i] \in DOMAIN t.node \/ g[i] = Gone
        /\ stale \/ \A i \in 1..n : g[i] \in Leaves /\ g[i] \in DOMAIN t.node
    <3>1. garbage' = h /\ g \in Seq(Entry) /\ g # <<>> /\ g[1] = p
      BY <1>1, <1>5 DEF Listed
    <3>2. n \in Nat \ {0} /\ DOMAIN g = 1..n
      BY <2>0, <3>1
    <3> QED  BY <1>1, <3>1, <3>2 DEF Listed
  <2>2. h \in Seq(Entry) /\ Len(h) = n - 1 /\ DOMAIN h = 1..n - 1 /\ \A i \in 1..n - 1 : h[i] = g[i + 1] /\ i + 1 \in 1..n
    <3>1. h \in Seq(Entry) /\ Len(h) = n - 1 /\ \A i \in 1..Len(h) : h[i] = g[i + 1]
      BY <1>1, <2>0, <2>1, HeadTailProperties
    <3> QED  BY <2>1, <3>1
  <2>3. ASSUME NEW i \in 1..n - 1, NEW j \in 1..n - 1, h[i] = h[j], h[i] # Gone  PROVE i = j
    <3>1. g[i + 1] = g[j + 1] /\ g[i + 1] # Gone /\ i + 1 \in 1..n /\ j + 1 \in 1..n
      BY <2>2, <2>3
    <3>2. i + 1 = j + 1
      BY <2>1, <3>1
    <3> QED  BY <3>2
  <2>4. ASSUME NEW x, Contains(g, x), x # p  PROVE Contains(h, x)
    <3>1. PICK i \in 1..n : g[i] = x
      BY <2>0, <2>1, <2>4 DEF Contains
    <3>2. i - 1 \in 1..n - 1 /\ (i - 1) + 1 = i
      BY <2>1, <2>4, <3>1
    <3>3. h[i - 1] = x
      BY <2>2, <3>1, <3>2
    <3> QED  BY <2>2, <3>2, <3>3 DEF Contains
  <2>5. \A x \in DOMAIN u.node : IsDeletedNode(u, x) => x \in Leaves /\ Contains(h, x)
    BY <1>3, <2>4
  <2>6. /\ \A i \in 1..n - 1 : h[i] \in DOMAIN u.node \/ h[i] = Gone
        /\ stale \/ \A i \in 1..n - 1 : h[i] \in Leaves /\ h[i] \in DOMAIN u.node
    BY <1>2, <2>1, <2>2
  <2>7. Listed(u, h, stale)
    BY <2>2, <2>3, <2>5, <2>6 DEF Listed
  <2> QED  BY <1>0, <1>1, <1>2, <2>1, <2>7 DEF TrieInv
<1> QED  BY <1>4, <1>5

\* Reclaiming keeps the invariant: an entry is misread only when one was freed while listed.
LEMMA ReclaimInv ==
  ASSUME TrieInv, ~ corrupt, reclaim_uninterned_nr
  PROVE  TrieInv'
<1>1. Well(trie) /\ Listed(trie, garbage, stale) /\ Len(garbage) \in Nat /\ stale \in BOOLEAN /\ corrupt \in BOOLEAN
  BY DEF TrieInv, Listed
<1> DEFINE f == CHOOSE f : f = [n \in 0..Len(garbage) |->
                   IF n = 0 THEN trie
                   ELSE IF /\ garbage[n] \in DOMAIN f[n - 1].node
                           /\ IsDeletedNode(f[n - 1], garbage[n])
                          THEN delete_branch(f[n - 1], garbage[n]) ELSE f[n - 1]]
<1>2. \E h : h = [n \in 0..Len(garbage) |->
                   IF n = 0 THEN trie
                   ELSE IF /\ garbage[n] \in DOMAIN h[n - 1].node
                           /\ IsDeletedNode(h[n - 1], garbage[n])
                          THEN delete_branch(h[n - 1], garbage[n]) ELSE h[n - 1]]
  <2>1. \E h : Reclaims(h, trie, garbage, Len(garbage))
    BY <1>1, ReclaimsSome
  <2> QED  BY <2>1, Zenon DEF Reclaims, Reclaimed
<1>3. Reclaims(f, trie, garbage, Len(garbage))
  BY <1>2 DEF Reclaims, Reclaimed
<1>4. \/ trie' = f[Len(garbage)] /\ garbage' = <<>> /\ stale' = FALSE /\ corrupt' = corrupt
      \/ /\ \E n \in DOMAIN garbage : garbage[n] \notin DOMAIN f[n - 1].node
         /\ corrupt' = TRUE /\ trie' = trie /\ garbage' = garbage /\ stale' = stale
  BY DEF reclaim_uninterned_nr
<1> HIDE DEF f
<1>5. /\ Well(f[Len(garbage)])
      /\ \A p \in DOMAIN f[Len(garbage)].node : ~ IsDeletedNode(f[Len(garbage)], p)
      /\ stale \/ \A n \in DOMAIN garbage : garbage[n] \in DOMAIN f[n - 1].node
  BY <1>1, <1>3, ReclaimsAll
<1>6. CASE trie' = f[Len(garbage)] /\ garbage' = <<>> /\ stale' = FALSE /\ corrupt' = corrupt
  <2>1. <<>> \in Seq(Entry) /\ DOMAIN <<>> = {}
    OBVIOUS
  <2>2. Listed(trie', garbage', stale')
    BY <1>5, <1>6, <2>1 DEF Listed
  <2> QED  BY <1>1, <1>5, <1>6, <2>2 DEF TrieInv
<1>7. CASE /\ \E n \in DOMAIN garbage : garbage[n] \notin DOMAIN f[n - 1].node
           /\ corrupt' = TRUE /\ trie' = trie /\ garbage' = garbage /\ stale' = stale
  <2>1. stale
    BY <1>5, <1>7
  <2> QED  BY <1>1, <1>7, <2>1 DEF TrieInv
<1> QED  BY <1>4, <1>6, <1>7

\* The inductive invariant: the trie is linked as its leaves say, and the list holds what is removed.
THEOREM TrieInvariant == TrieSpec => []TrieInv
<1>1. newtrie => TrieInv
  BY InitInv
<1>2. TrieInv /\ [TrieNext]_trieVars => TrieInv'
  <2> SUFFICES ASSUME TrieInv, [TrieNext]_trieVars  PROVE TrieInv'
    OBVIOUS
  <2>1. ASSUME NEW p \in Leaves, trie_intern(p)  PROVE TrieInv'
    BY <2>1, InternInv
  <2>2. ASSUME ~ corrupt, NEW p \in Leaves, trie_dispose(p)  PROVE TrieInv'
    BY <2>2, DisposeInv
  <2>3. ASSUME NEW p \in Leaves, trie_dispose_nr(p)  PROVE TrieInv'
    BY <2>3, DisposeLaterInv
  <2>4. ASSUME NEW p \in Leaves, trie_undispose(p)  PROVE TrieInv'
    BY <2>4, UndisposeInv
  <2>5. CASE ~ corrupt /\ reclaim_uninterned_nr
    BY <2>5, ReclaimInv
  <2>6. CASE UNCHANGED trieVars
    BY <2>6 DEF TrieInv, trieVars
  <2> QED  BY <2>1, <2>2, <2>3, <2>4, <2>5, <2>6 DEF TrieNext
<1> QED  BY <1>1, <1>2, PTL DEF TrieSpec

\* The instructions and the statuses of the nodes, and the garbage list, are well typed.
THEOREM TrieTyped == TrieSpec => []TrieTypeOK
<1>1. TrieInv => TrieTypeOK
  <2> SUFFICES ASSUME TrieInv  PROVE TrieTypeOK
    OBVIOUS
  <2>1. \A p \in Allocated : trie.node[p] \in NodeRecord
    BY DEF TrieInv, Well, Formed, Allocated
  <2>2. /\ \A i \in DOMAIN garbage : garbage[i] \in Allocated \union {Gone}
        /\ \A i, j \in DOMAIN garbage : garbage[i] = garbage[j] /\ garbage[i] # Gone => i = j
        /\ stale \in BOOLEAN /\ corrupt \in BOOLEAN
    BY DEF TrieInv, Listed, Allocated
  <2> QED  BY <2>1, <2>2 DEF TrieTypeOK, NodeRecord
<1> QED  BY <1>1, TrieInvariant, PTL

\* A chain is run with one choice point: the choice point part of every instruction is the
\* one of its place in its chain, whatever was inserted, removed, hashed or expanded before
\* (TN_ResetInstrCPs, TrieHT_InsertNode, delete_branch).
THEOREM ChoicesAreOfPlaces == TrieSpec => []ChoicesMatchPlaces
<1>1. TrieInv => ChoicesMatchPlaces
  <2> SUFFICES ASSUME TrieInv, NEW q \in DOMAIN trie.kids, NEW b \in DOMAIN trie.kids[q].bucket,
                      NEW i \in DOMAIN trie.kids[q].bucket[b]
               PROVE  trie.node[Append(q, trie.kids[q].bucket[b][i])].cp = Due(i, Len(trie.kids[q].bucket[b]))
    BY DEF ChoicesMatchPlaces
  <2>1. Formed(trie) /\ Local(trie, q)
    BY DEF TrieInv, Well
  <2>2. b \in 1..Buckets(trie.kids[q].size) /\ trie.kids[q].bucket[b] \in Seq(Sym)
    BY <2>1, FormedParts
  <2>3. i \in 1..Len(trie.kids[q].bucket[b])
    BY <2>2
  <2> QED  BY <2>1, <2>2, <2>3 DEF Local, Linked, InPlace
<1> QED  BY <1>1, TrieInvariant, PTL

\* No removal leaks a node, drops a sibling or leaves a table that holds nothing
\* (delete_branch, get_prev_sibl).
THEOREM NothingEverLeaks == TrieSpec => []NothingLeaksOrDangles
<1>1. TrieInv => NothingLeaksOrDangles
  <2> SUFFICES ASSUME TrieInv  PROVE NothingLeaksOrDangles
    OBVIOUS
  <2>1. /\ Formed(trie) /\ Ends(trie) \subseteq Leaves
        /\ DOMAIN trie.node = UNION {Branch(p, 0) : p \in Ends(trie)}
        /\ DOMAIN trie.kids = DOMAIN trie.node \ Ends(trie)
        /\ \A q \in DOMAIN trie.kids : Local(trie, q)
    BY DEF TrieInv, Well
  <2>2. ASSUME NEW p \in DOMAIN trie.node \ {<<>>}  PROVE Contains(ChainOf(trie, p), Last(p))
    <3>0. PICK q, s : q = Front(p) /\ s = Last(p)
      OBVIOUS
    <3>1. p \in Seq(Sym) /\ q \in Seq(Sym) /\ s \in Sym /\ Append(q, s) = p
      <4>1. p \in Seq(Sym) /\ p # <<>>
        BY <2>1 DEF Formed
      <4> QED  BY <3>0, <4>1, Divided
    <3>2. q \in DOMAIN trie.kids
      <4>1. Well(trie)
        BY DEF TrieInv
      <4>2. PICK e \in Ends(trie) : \E n \in 0..Len(e) : p = Upto(e, n)
        BY <4>1, WellPaths
      <4>3. PICK n \in 0..Len(e) : p = Upto(e, n)
        BY <4>2
      <4>4. e \in Leaves /\ e \in Seq(Sym) /\ Len(e) \in Nat \ {0}
        BY <2>1, LeavesTyped
      <4>5. n \in 1..Len(e) /\ n - 1 \in 0..Len(e) - 1 /\ n - 1 \in 0..Len(e)
        <5>1. n # 0
          BY <4>3, <4>4, UptoIs
        <5> QED  BY <4>4, <5>1
      <4>6. q = Upto(e, n - 1)
        BY <3>0, <4>3, <4>4, <4>5, UptoNext
      <4>7. q \notin Ends(trie) /\ q \in DOMAIN trie.node
        BY <4>1, <4>4, <4>5, <4>6, WellPaths
      <4> QED  BY <2>1, <4>7
    <3>3. Held(trie.kids[q], s)
      BY <2>1, <3>1, <3>2 DEF Local, Complete
    <3>4. ChainOf(trie, p) = Chain(trie.kids[q], s)
      BY <2>1, <3>1, <3>2, ChainParts
    <3> QED  BY <3>0, <3>3, <3>4 DEF Held
  <2>3. ASSUME NEW q \in DOMAIN trie.kids, NEW b \in DOMAIN trie.kids[q].bucket
        PROVE  /\ IsInjective(trie.kids[q].bucket[b])
               /\ \A i \in DOMAIN trie.kids[q].bucket[b] :
                    /\ Append(q, trie.kids[q].bucket[b][i]) \in DOMAIN trie.node
                    /\ ChainOf(trie, Append(q, trie.kids[q].bucket[b][i])) = trie.kids[q].bucket[b]
    <3>0. PICK c : c = trie.kids[q].bucket[b]
      OBVIOUS
    <3>1. b \in 1..Buckets(trie.kids[q].size) /\ c \in Seq(Sym) /\ DOMAIN c = 1..Len(c) /\ \A i \in 1..Len(c) : c[i] \in Sym
      <4>1. b \in 1..Buckets(trie.kids[q].size) /\ c \in Seq(Sym)
        BY <2>1, <3>0, FormedParts
      <4> QED  BY <4>1
    <3>2. InPlace(trie, q, c) /\ \A i \in 1..Len(c) : TrieHash(c[i], trie.kids[q].size) = b
      BY <2>1, <3>0, <3>1 DEF Local, Linked
    <3>3. ASSUME NEW i \in 1..Len(c)  PROVE Append(q, c[i]) \in DOMAIN trie.node /\ ChainOf(trie, Append(q, c[i])) = c
      <4>1. ChainOf(trie, Append(q, c[i])) = Chain(trie.kids[q], c[i])
        BY <2>1, <3>1, ChainParts
      <4>2. Chain(trie.kids[q], c[i]) = c
        BY <3>0, <3>2 DEF Chain
      <4> QED  BY <3>2, <4>1, <4>2 DEF InPlace
    <3> QED  BY <3>0, <3>1, <3>2, <3>3 DEF InPlace
  <2>4. ASSUME NEW q \in DOMAIN trie.kids, trie.kids[q].size > 0
        PROVE  trie.kids[q].count = Cardinality(Children(q))
    <3>1. Children(q) = Below(trie, q)
      BY DEF Children, Below, Allocated
    <3>2. trie.kids[q].size # 0
      BY <2>1, <2>4, FormedParts
    <3> QED  BY <2>1, <3>1, <3>2 DEF Local, Sized
  <2> QED  BY <2>1, <2>2, <2>3, <2>4 DEF NothingLeaksOrDangles, Allocated, Ends
<1> QED  BY <1>1, TrieInvariant, PTL

\* A leaf that is removed and not freed is always on the garbage list, so that reclaiming
\* frees it, whatever else was called.  Unless a leaf was freed while it was listed, everything
\* on the list is a leaf that is still allocated, and reclaiming reads no freed node
\* (insertLeaf, trie_undispose, delete_branch, reclaim_uninterned_nr).
THEOREM RemovedIsListed == TrieSpec => []RemovedLeavesAreReclaimable
<1>1. TrieInv => RemovedLeavesAreReclaimable
  BY DEF TrieInv, Listed, RemovedLeavesAreReclaimable, Allocated
<1> QED  BY <1>1, TrieInvariant, PTL

=================================================================================
