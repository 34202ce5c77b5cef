------------------------------- MODULE TrieCode -------------------------------
(***************************************************************************)
(* The instructions in the nodes of a trie, run by the engine to find the  *)
(* terms that unify with a query.                                          *)
(*                                                                         *)
(* A walk is a record: pc, what is run next; regs, the subterms still to   *)
(* be unified, the next one last (reg_array); vars, what the variables of  *)
(* the path stand for (var_regs); sub, the bindings; fresh, the next free  *)
(* variable of the heap; cps, the choice points.  A choice point holds the *)
(* registers and the bindings of its creation, and where failing into it   *)
(* resumes, alt; that of a hash table also holds whether the subterm was   *)
(* free and the last bucket explored.                                      *)
(***************************************************************************)
EXTENDS Tries, TrieTerms

At(op, p) == [op |-> op, path |-> p]
\* The code is lost: a null pointer is taken for an instruction, hash_handle gives
\* up, or a node is run with a choice point or with registers not its own.
Nowhere == At("crash", <<>>)

FIRST_HASH_NODE == 0

\* opsucc, the child field of p, and opfail, its sibling field.
Child(trie, p) ==
  IF p \notin DOMAIN trie.kids THEN Nowhere
  ELSE IF trie.kids[p].size > 0 THEN At("hash_opcode", p)
       ELSE At("node", Append(p, Head(trie.kids[p].bucket[1])))
Sibling(trie, p) ==
  LET chain == ChainOf(trie, p)
      at == Position(trie, p)
  IN  IF at = Len(chain) THEN Nowhere ELSE At("sibling", Append(Front(p), chain[at + 1]))

Fail(w) == [w EXCEPT !.pc = IF w.cps = <<>> THEN At("done", <<>>) ELSE Last(w.cps).alt]

save_choicepoint(w, alt, free) ==
  Append(w.cps, [regs |-> w.regs, vars |-> w.vars, sub |-> w.sub, fresh |-> w.fresh,
                 alt |-> alt, free |-> free, bucket |-> FIRST_HASH_NODE])
restore_regs_and_vars(w) ==
  LET cp == Last(w.cps)
  IN  [w EXCEPT !.regs = cp.regs, !.vars = cp.vars, !.sub = cp.sub, !.fresh = cp.fresh]
Popped(w) == [w EXCEPT !.cps = Front(@)]

\* The choice point part of the instruction at p.
ChoicePart(trie, w, p) ==
  CASE trie.node[p].cp = NoCP -> w
    [] trie.node[p].cp = Try ->
         [w EXCEPT !.cps = save_choicepoint(w, Sibling(trie, p), FALSE)]
    [] trie.node[p].cp = Retry ->
         [restore_regs_and_vars(w) EXCEPT !.cps[Len(w.cps)].alt = Sibling(trie, p)]
    [] trie.node[p].cp = Trust -> Popped(restore_regs_and_vars(w))

\* The bindings and registers after the symbol s, of an instruction of the
\* given type, has met the last register: none when they do not unify.
UnifyPart(w, type, s) ==
  LET reg == Deref(Last(w.regs), w.sub)
      rest == Front(w.regs)
      args == [i \in 1..s.n |-> Var(w.fresh + i)]
      Matched == reg.is = s.is /\ reg.name = s.name /\ reg.n = s.n
  IN  CASE type = "fail" -> {}
        [] type \in {"con", "con_succ"} /\ reg.is = "var" ->
             {[w EXCEPT !.regs = rest, !.sub = Bind(@, reg.n, Con(s.name))]}
        [] type = "str" /\ reg.is = "var" ->
             {[w EXCEPT !.regs = rest \o Reverse(args), !.fresh = @ + s.n,
                        !.sub = Bind(@, reg.n, Str(s.name, args))]}
        [] type \in {"con", "con_succ", "str"} /\ reg.is # "var" ->
             IF Matched THEN {[w EXCEPT !.regs = rest \o Reverse(reg.args)]} ELSE {}
        [] type = "var" ->
             {[w EXCEPT !.regs = rest, !.vars = Append(SubSeq(@, 1, s.n), Last(w.regs))]}
        [] type = "val" ->
             {[w EXCEPT !.regs = rest, !.sub = u] : u \in Unify(reg, w.vars[s.n + 1], w.sub)}

\* A leaf answers; any other node goes on to its child.  A constant knows by
\* its instruction, a variable by the leaf mark.
Onward(trie, p) ==
  LET node == trie.node[p]
  IN  IF node.type = "con_succ" \/ (node.type \in {"var", "val"} /\ node.leaf)
      THEN At("answer", p) ELSE Child(trie, p)

\* A node that is failed into has to restore what the choice point holds, and
\* one that is come to from its parent has none to restore.
RunNode(trie, w, p) ==
  IF (trie.node[p].cp \in {Retry, Trust}) # (w.pc.op = "sibling") THEN [w EXCEPT !.pc = Nowhere]
  ELSE LET chosen == ChoicePart(trie, w, p)
           unified == UnifyPart(chosen, trie.node[p].type, Last(p))
       IN  IF unified = {} THEN Fail(chosen)
           ELSE [CHOOSE u \in unified : TRUE EXCEPT !.pc = Onward(trie, p)]

------------------------------------------------------------------------------
hash_opcode(w, p) ==
  LET free == Deref(Last(w.regs), w.sub).is = "var"
  IN  [w EXCEPT !.cps = save_choicepoint(w, At("hash_handle", p), free),
                !.pc = At("hash_handle", p)]

FirstOf(trie, p, b) == At("node", Append(p, Head(trie.kids[p].bucket[b])))

\* A free subterm: the buckets that hold something are explored in turn, and
\* the choice point stays until they have been.
HandleFree(trie, w, p) ==
  LET cp == Last(w.cps)
      k == trie.kids[p]
      left == {b \in cp.bucket + 1 .. k.size : k.bucket[b] # <<>>}
      next == CHOOSE b \in left : \A c \in left : b <= c
      resumed == IF cp.bucket # FIRST_HASH_NODE THEN restore_regs_and_vars(w) ELSE w
  IN  IF left = {} THEN Fail(Popped(w))
      ELSE [resumed EXCEPT !.cps[Len(w.cps)].bucket = next, !.pc = FirstOf(trie, p, next)]

\* Mutant: the bucket of the variables is explored again as that of a symbol.
MutOwnBucketAfterItself(k, own) == k.bucket[own] # <<>>

\* Whether the bucket of the symbol is left to explore after the first one.
OwnBucketIsNext(k, own) == k.bucket[own] # <<>> /\ own # 1

\* A bound subterm: the bucket of the variables, then the one of its symbol.
HandleBound(trie, w, p) ==
  LET cp == Last(w.cps)
      k == trie.kids[p]
      resumed == IF cp.bucket # FIRST_HASH_NODE THEN restore_regs_and_vars(w) ELSE w
      reg == Deref(Last(resumed.regs), resumed.sub)
      own == TrieHash(Symbol(reg.is, reg.name, reg.n), k.size)
  IN  CASE cp.bucket # FIRST_HASH_NODE ->
             IF cp.bucket = own /\ k.bucket[own] # <<>>
             THEN [Popped(resumed) EXCEPT !.pc = FirstOf(trie, p, own)]
             ELSE [w EXCEPT !.pc = Nowhere]
        [] cp.bucket = FIRST_HASH_NODE /\ k.bucket[1] = <<>> ->
             IF k.bucket[own] = <<>> THEN Fail(Popped(w))
             ELSE [Popped(w) EXCEPT !.pc = FirstOf(trie, p, own)]
        [] cp.bucket = FIRST_HASH_NODE /\ k.bucket[1] # <<>> ->
             [IF OwnBucketIsNext(k, own)
              THEN [w EXCEPT !.cps[Len(w.cps)].bucket = own] ELSE Popped(w)
              EXCEPT !.pc = FirstOf(trie, p, 1)]

hash_handle(trie, w, p) ==
  IF Last(w.cps).free THEN HandleFree(trie, w, p) ELSE HandleBound(trie, w, p)

Stopped == {"answer", "done", "crash"}

\* The instructions run until a term is found or none is left.
RECURSIVE Run(_, _)
Run(trie, w) ==
  LET p == w.pc.path
  IN  CASE w.pc.op \in Stopped -> w
        [] w.pc.op \in {"node", "sibling"} -> Run(trie, RunNode(trie, w, p))
        [] w.pc.op = "hash_opcode" -> Run(trie, hash_opcode(w, p))
        [] w.pc.op = "hash_handle" -> Run(trie, hash_handle(trie, w, p))


\* The first variable of the heap: above those of a query.
FirstFresh == 100

trie_interned(trie, q) ==
  LET start == [regs |-> <<q>>, vars |-> <<>>, sub |-> <<>>, fresh |-> FirstFresh,
                cps |-> <<>>, pc |-> At("done", <<>>)]
  IN  IF <<>> \notin DOMAIN trie.node THEN start
      ELSE Run(trie, [start EXCEPT !.pc = Child(trie, <<>>)])
Backtracked(trie, w) == Run(trie, Fail(w))

\* The query as the walk has bound it.
InstanceOf(w, q) == Path(Resolve(q, w.sub))
===============================================================================
