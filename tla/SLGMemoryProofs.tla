---------------------------- MODULE SLGMemoryProofs ----------------------------
(***************************************************************************)
(* Proofs about SLGMemory, for every program: the engine's invariants hold *)
(* of it, its stacks and registers are of their types, and the freeze      *)
(* registers keep exactly what suspended calls need.  A step goes on from  *)
(* a memory (Onward), which leaves all below its registers as it is, or    *)
(* goes back to a choice point (Back), which leaves the stacks but for     *)
(* what the trail undoes and does again; the registers of generators stay  *)
(* below what is run (Over, Uses) and what is pushed (Above).              *)
(***************************************************************************)
EXTENDS SLGMemoryInvariant, SLGEngineAnswerProofs

(* The trail is a tree: what Path is, by induction on frames. *)

LEMMA LeastExists ==
  ASSUME NEW K \in SUBSET Nat, K # {}
  PROVE  \E k \in K : \A j \in K : k <= j
<1>1. PICK k \in K : \A j \in K : ~ (<<j, k>> \in OpToRel(<, Nat))
  BY WFMin, NatLessThanWellFounded
<1>2. ASSUME NEW j \in K  PROVE ~ (j < k)
  <2>1. ~ (<<j, k>> \in {ss \in Nat \X Nat : ss[1] < ss[2]})
    BY <1>1, Zenon DEF OpToRel
  <2> QED  BY <2>1, <<j, k>>[1] = j, <<j, k>>[2] = k, <<j, k>> \in Nat \X Nat, Zenon
<1>3. \A j \in K : k <= j
  BY <1>2
<1> QED  BY <1>3

\* What holds of a frame when it does of all older ones holds of all.
LEMMA OldestFirst ==
  ASSUME NEW N, \A i \in Nat : (\A j \in 0..i - 1 : j \in N) => i \in N
  PROVE  \A i \in Nat : i \in N
<1> DEFINE Rest == Nat \ N
<1> SUFFICES ASSUME Rest # {}  PROVE FALSE
  OBVIOUS
<1>1. PICK k \in Rest : \A j \in Rest : k <= j
  BY LeastExists
<1>2. \A j \in 0..k - 1 : j \in N
  BY <1>1
<1> QED  BY <1>1, <1>2

\* parent leads from each of n frames but the first to an older one.
Rooted(parent, n) == n \in Nat \ {0} /\ \A i \in 2..n : parent[i] \in 1..i - 1
\* path holds, for each of n frames, what is below it.
Paths(path, parent, n) ==
  path = [i \in 1..n |-> IF i = BottomOfTrail THEN {i} ELSE {i} \cup path[parent[i]]]

LEMMA PathsExist ==
  ASSUME NEW parent, NEW n, Rooted(parent, n)
  PROVE  \E path : Paths(path, parent, n)
<1> DEFINE N == {k \in Nat : k <= n => \E path : Paths(path, parent, k)}
<1>1. ASSUME NEW k \in Nat, \A j \in 0..k - 1 : j \in N  PROVE k \in N
  <2> SUFFICES ASSUME k <= n  PROVE \E path : Paths(path, parent, k)
    OBVIOUS
  <2>1. CASE k = 0
    <3>1. Paths([i \in 1..0 |-> {}], parent, 0)
      BY DEF Paths
    <3> QED  BY <2>1, <3>1
  <2>2. CASE k # 0
    <3>1. k - 1 \in N /\ k - 1 <= n /\ n \in Nat
      BY <1>1, <2>2 DEF Rooted
    <3>2. PICK path : Paths(path, parent, k - 1)
      BY <3>1
    <3> DEFINE longer == [i \in 1..k |-> IF i = BottomOfTrail THEN {i}
                                          ELSE {i} \cup path[parent[i]]]
    <3>3. \A i \in 1..k - 1 : longer[i] = path[i]
      <4>1. \A i \in 1..k - 1 : path[i] = IF i = BottomOfTrail THEN {i} ELSE {i} \cup path[parent[i]]
        BY <3>2 DEF Paths
      <4>2. \A i \in 1..k - 1 : i \in 1..k
        OBVIOUS
      <4>3. \A i \in 1..k : longer[i] = IF i = BottomOfTrail THEN {i} ELSE {i} \cup path[parent[i]]
        OBVIOUS
      <4> QED  BY <4>1, <4>2, <4>3
    <3>4. \A i \in 1..k : i # 1 => parent[i] \in 1..k - 1
      BY <3>1 DEF Rooted
    <3>5. longer = [i \in 1..k |-> IF i = BottomOfTrail THEN {i} ELSE {i} \cup longer[parent[i]]]
      <4> HIDE DEF longer
      <4>1. \A i \in 1..k : i # BottomOfTrail => path[parent[i]] = longer[parent[i]]
        BY <3>3, <3>4 DEF BottomOfTrail
      <4> QED  BY <4>1 DEF longer
    <3> QED  BY <3>5 DEF Paths
  <2> QED  BY <2>1, <2>2
<1>2. n \in N /\ n \in Nat
  BY <1>1, OldestFirst DEF Rooted
<1> QED  BY <1>2
LEMMA PathsAgree ==
  ASSUME NEW parent, NEW n, Rooted(parent, n), NEW other, NEW m, Rooted(other, m),
         NEW p, Paths(p, parent, n), NEW q, Paths(q, other, m),
         NEW b \in Nat, b <= n, b <= m, \A i \in 2..b : other[i] = parent[i]
  PROVE  \A i \in 1..b : q[i] = p[i]
<1> DEFINE N == {k \in Nat : k \in 1..b => q[k] = p[k]}
<1>1. ASSUME NEW k \in Nat, \A j \in 0..k - 1 : j \in N  PROVE k \in N
  <2> SUFFICES ASSUME k \in 1..b  PROVE q[k] = p[k]
    OBVIOUS
  <2>1. k \in 1..n /\ k \in 1..m
    BY DEF Rooted
  <2>2. /\ p[k] = IF k = BottomOfTrail THEN {k} ELSE {k} \cup p[parent[k]]
        /\ q[k] = IF k = BottomOfTrail THEN {k} ELSE {k} \cup q[other[k]]
    BY <2>1 DEF Paths
  <2>3. CASE k # BottomOfTrail
    <3>1. k \in 2..b /\ k \in 2..n
      BY <2>1, <2>3 DEF BottomOfTrail
    <3>2. other[k] = parent[k] /\ parent[k] \in 1..k - 1
      BY <3>1 DEF Rooted
    <3>3. parent[k] \in N /\ parent[k] \in 1..b
      BY <1>1, <3>1, <3>2
    <3> QED  BY <2>2, <3>2, <3>3
  <2> QED  BY <2>2, <2>3
<1>2. \A k \in Nat : k \in N
  <2> HIDE DEF N
  <2> QED  BY <1>1, OldestFirst
<1> QED  BY <1>2

\* A path goes down, to the bottom, and from each of its frames on like any path from there.
LEMMA PathsGoDown ==
  ASSUME NEW parent, NEW n, Rooted(parent, n), NEW p, Paths(p, parent, n), NEW t \in 1..n
  PROVE  /\ t \in p[t] /\ BottomOfTrail \in p[t] /\ p[t] \subseteq 1..t
         /\ t # BottomOfTrail => p[t] = {t} \cup p[parent[t]]
         /\ \A u \in p[t] : p[u] \subseteq p[t] /\ \A v \in p[t] : v <= u => v \in p[u]
<1> DEFINE Down(i) == /\ i \in p[i] /\ BottomOfTrail \in p[i] /\ p[i] \subseteq 1..i
                      /\ \A u \in p[i] : p[u] \subseteq p[i] /\ \A v \in p[i] : v <= u => v \in p[u]
           N == {i \in Nat : i \in 1..n => Down(i)}
<1>1. \A i \in 1..n : p[i] = IF i = BottomOfTrail THEN {i} ELSE {i} \cup p[parent[i]]
  BY DEF Paths
<1>2. ASSUME NEW k \in Nat, \A j \in 0..k - 1 : j \in N  PROVE k \in N
  <2> SUFFICES ASSUME k \in 1..n  PROVE Down(k)
    OBVIOUS
  <2>1. CASE k = BottomOfTrail
    <3>1. p[k] = {k} /\ k = 1
      BY <1>1, <2>1 DEF BottomOfTrail
    <3>2. k \in p[k] /\ BottomOfTrail \in p[k] /\ p[k] \subseteq 1..k
      BY <2>1, <3>1
    <3>3. \A u \in p[k] : p[u] \subseteq p[k] /\ \A v \in p[k] : v <= u => v \in p[u]
      <4> TAKE u \in p[k]
      <4>1. u = k
        BY <3>1
      <4> QED  BY <4>1
    <3> QED  BY <3>2, <3>3
  <2>2. CASE k # BottomOfTrail
    <3> PICK j : j = parent[k]
      OBVIOUS
    <3>1. j \in 1..k - 1 /\ j \in 1..n
      BY <2>2 DEF Rooted, BottomOfTrail
    <3>2. Down(j)
      BY <1>2, <3>1
    <3>3. p[k] = {k} \cup p[j]
      BY <1>1, <2>2
    <3>4. k \in p[k] /\ BottomOfTrail \in p[k] /\ p[k] \subseteq 1..k
      BY <3>1, <3>2, <3>3
    <3>5. ASSUME NEW u \in p[k]
          PROVE  p[u] \subseteq p[k] /\ \A v \in p[k] : v <= u => v \in p[u]
      <4>1. CASE u = k
        BY <4>1
      <4>2. CASE u \in p[j]
        <5>1. u \in 1..j /\ p[u] \subseteq p[j] /\ \A v \in p[j] : v <= u => v \in p[u]
          BY <3>2, <4>2
        <5>2. ~ (k <= u)
          BY <3>1, <5>1
        <5> QED  BY <3>3, <5>1, <5>2
      <4> QED  BY <3>3, <4>1, <4>2
    <3> QED  BY <3>4, <3>5
  <2> QED  BY <2>1, <2>2
<1>3. \A i \in Nat : i \in N
  <2> HIDE DEF N
  <2> QED  BY <1>2, OldestFirst
<1>4. Down(t) /\ t \in Nat
  BY <1>3 DEF Rooted
<1> QED  BY <1>1, <1>4
Parents(m) == [i \in 1..Len(m.trail) |-> m.trail[i].parent]

LEMMA MemoryIsRooted ==
  ASSUME NEW m, IsMemory(m)
  PROVE  /\ Rooted(Parents(m), Len(m.trail)) /\ DOMAIN m.trail = 1..Len(m.trail)
         /\ m.tr \in 1..Len(m.trail) /\ m.trf \in 1..Len(m.trail)
<1>1. m.trail \in Seq(Range(m.trail)) /\ m.tr \in 1..Len(m.trail) /\ m.trf \in 1..Len(m.trail)
  BY DEF IsMemory
<1>2. Len(m.trail) \in Nat \ {0}
  BY <1>1
<1>3. \A i \in 2..Len(m.trail) : i \in 1..Len(m.trail) /\ m.trail[i].parent \in 1..i - 1
  BY <1>2 DEF IsMemory
<1> QED  BY <1>1, <1>2, <1>3 DEF Rooted, Parents

\* Path is what Paths says.
LEMMA PathIs ==
  ASSUME NEW m, IsMemory(m)
  PROVE  \E p : Paths(p, Parents(m), Len(m.trail)) /\ \A t : Path(m, t) = p[t]
<1> DEFINE path[i \in DOMAIN m.trail] ==
             IF i = BottomOfTrail THEN {i} ELSE {i} \cup path[m.trail[i].parent]
<1>1. Rooted(Parents(m), Len(m.trail)) /\ DOMAIN m.trail = 1..Len(m.trail)
  BY MemoryIsRooted
<1>2. PICK p : Paths(p, Parents(m), Len(m.trail))
  BY <1>1, PathsExist
<1>3. p = [i \in DOMAIN m.trail |-> IF i = BottomOfTrail THEN {i} ELSE {i} \cup p[m.trail[i].parent]]
  BY <1>1, <1>2 DEF Paths, Parents
<1>4. path = [i \in DOMAIN m.trail |-> IF i = BottomOfTrail THEN {i} ELSE {i} \cup path[m.trail[i].parent]]
  BY <1>3
<1>5. \A t : Path(m, t) = path[t]
  BY DEF Path
<1> HIDE DEF path
<1>6. Paths(path, Parents(m), Len(m.trail))
  BY <1>1, <1>4 DEF Paths, Parents
<1> QED  BY <1>5, <1>6

\* A path goes down to the bottom, and goes on from each of its frames as any path does.
LEMMA PathDown ==
  ASSUME NEW m, IsMemory(m), NEW t \in 1..Len(m.trail)
  PROVE  /\ t \in Path(m, t) /\ BottomOfTrail \in Path(m, t) /\ Path(m, t) \subseteq 1..t
         /\ t # BottomOfTrail => Path(m, t) = {t} \cup Path(m, m.trail[t].parent)
         /\ \A u \in Path(m, t) :
              Path(m, u) \subseteq Path(m, t) /\ \A v \in Path(m, t) : v <= u => v \in Path(m, u)
<1>1. PICK p : Paths(p, Parents(m), Len(m.trail)) /\ \A i : Path(m, i) = p[i]
  BY PathIs
<1>2. Rooted(Parents(m), Len(m.trail))
  BY MemoryIsRooted
<1>3. /\ t \in p[t] /\ BottomOfTrail \in p[t] /\ p[t] \subseteq 1..t
      /\ t # BottomOfTrail => p[t] = {t} \cup p[Parents(m)[t]]
      /\ \A u \in p[t] : p[u] \subseteq p[t] /\ \A v \in p[t] : v <= u => v \in p[u]
  BY <1>1, <1>2, PathsGoDown
<1>4. Parents(m)[t] = m.trail[t].parent
  BY DEF Parents
<1> QED  BY <1>1, <1>3, <1>4

\* A frame's path is what it was while no frame up to it is overwritten.
LEMMA PathStays ==
  ASSUME NEW m, IsMemory(m), NEW n, IsMemory(n), NEW b \in Nat,
         b <= Len(m.trail), b <= Len(n.trail), \A i \in 1..b : n.trail[i] = m.trail[i]
  PROVE  \A i \in 1..b : Path(n, i) = Path(m, i)
<1>1. PICK p : Paths(p, Parents(m), Len(m.trail)) /\ \A i : Path(m, i) = p[i]
  BY PathIs
<1>2. PICK q : Paths(q, Parents(n), Len(n.trail)) /\ \A i : Path(n, i) = q[i]
  BY PathIs
<1>3. Rooted(Parents(m), Len(m.trail)) /\ Rooted(Parents(n), Len(n.trail))
  BY MemoryIsRooted
<1>4. \A i \in 2..b : Parents(n)[i] = Parents(m)[i]
  <2> TAKE i \in 2..b
  <2>1. i \in 1..b /\ i \in 1..Len(m.trail) /\ i \in 1..Len(n.trail)
    BY <1>3 DEF Rooted
  <2> QED  BY <2>1 DEF Parents
<1>5. \A i \in 1..b : q[i] = p[i]
  BY <1>1, <1>2, <1>3, <1>4, PathsAgree
<1> QED  BY <1>1, <1>2, <1>5
(* Cells and frames: what memory stays when some are written. *)

LEMMA SeqParts ==
  ASSUME NEW f, IsSeq(f)
  PROVE  Len(f) \in Nat /\ DOMAIN f = 1..Len(f)
BY DEF IsSeq

LEMMA SeqFrom ==
  ASSUME NEW n \in Nat, NEW f, f = [i \in 1..n |-> f[i]]
  PROVE  IsSeq(f) /\ Len(f) = n
<1>1. DOMAIN f = 1..n /\ \A i \in 1..n : f[i] \in Range(f)
  BY DEF Range
<1>2. f \in [1..n -> Range(f)]
  BY <1>1
<1> QED  BY <1>2 DEF IsSeq

LEMMA PutIs ==
  ASSUME NEW f, IsSeq(f), NEW i \in 1..Len(f) + 1, NEW x
  PROVE  LET g == Put(f, i, x)
         IN  /\ IsSeq(g) /\ Len(g) = (IF i = Len(f) + 1 THEN i ELSE Len(f))
             /\ g[i] = x /\ \A j \in 1..Len(f) : j # i => g[j] = f[j]
<1>1. Len(f) \in Nat /\ DOMAIN f = 1..Len(f)
  BY SeqParts
<1> DEFINE g == Put(f, i, x)
<1>2. CASE i \in 1..Len(f)
  <2>1. g = [f EXCEPT ![i] = x]
    BY <1>1, <1>2 DEF Put
  <2>2. g = [j \in 1..Len(f) |-> g[j]] /\ g[i] = x /\ \A j \in 1..Len(f) : j # i => g[j] = f[j]
    BY <1>1, <1>2, <2>1
  <2> HIDE DEF g
  <2>3. IsSeq(g) /\ Len(g) = Len(f)
    BY <1>1, <2>2, SeqFrom
  <2>4. i # Len(f) + 1
    BY <1>1, <1>2
  <2> QED  BY <2>2, <2>3, <2>4 DEF g
<1>3. CASE i = Len(f) + 1
  <2>1. g = Append(f, x)
    <3>1. i \notin DOMAIN f
      BY <1>1, <1>3
    <3> QED  BY <3>1, Zenon DEF Put
  <2>2. f \in Seq(Range(f) \cup {x})
    BY <1>1 DEF IsSeq, Range
  <2>3. /\ g \in Seq(Range(f) \cup {x}) /\ Len(g) = Len(f) + 1 /\ g[Len(f) + 1] = x
        /\ \A j \in 1..Len(f) : g[j] = f[j]
    BY <2>1, <2>2, AppendProperties
  <2> HIDE DEF g
  <2>4. IsSeq(g)
    <3>1. g = [j \in 1..Len(f) + 1 |-> g[j]] /\ Len(f) + 1 \in Nat
      BY <1>1, <2>3
    <3> QED  BY <3>1, SeqFrom
  <2> QED  BY <1>1, <1>3, <2>3, <2>4 DEF g
<1> QED  BY <1>1, <1>2, <1>3

\* The registers and stacks of memory, one by one.
Fields(m, heap, env, trail, h, hb, hf, e, eb, ef, tr, trf, ptcp, at) ==
  m = [heap |-> heap, env |-> env, trail |-> trail, h |-> h, hb |-> hb, hf |-> hf,
       e |-> e, eb |-> eb, ef |-> ef, tr |-> tr, trf |-> trf, ptcp |-> ptcp, at |-> at]

LEMMA MemoryFields ==
  ASSUME NEW m, IsMemory(m)
  PROVE  /\ Fields(m, m.heap, m.env, m.trail, m.h, m.hb, m.hf, m.e, m.eb, m.ef, m.tr, m.trf, m.ptcp, m.at)
         /\ IsSeq(m.heap) /\ IsSeq(m.env) /\ IsSeq(m.trail)
         /\ m.h \in 1..Len(m.heap) + 1 /\ m.hb \in 1..Len(m.heap) + 1 /\ m.hf \in 1..Len(m.heap) + 1
         /\ m.e \in 1..Len(m.env) /\ m.eb \in 1..Len(m.env) /\ m.ef \in 0..Len(m.env)
         /\ m.tr \in 1..Len(m.trail) /\ m.trf \in 1..Len(m.trail)
         /\ m.ptcp \in Subgoal \cup {User} /\ m.at \in CodePoint
         /\ \A i \in 2..Len(m.trail) : m.trail[i].parent \in 1..i - 1
BY DEF IsMemory, Fields, IsSeq

LEMMA MemoryFrom ==
  ASSUME NEW n,
         Fields(n, n.heap, n.env, n.trail, n.h, n.hb, n.hf, n.e, n.eb, n.ef, n.tr, n.trf, n.ptcp, n.at),
         IsSeq(n.heap), IsSeq(n.env), IsSeq(n.trail),
         n.h \in 1..Len(n.heap) + 1, n.hb \in 1..Len(n.heap) + 1, n.hf \in 1..Len(n.heap) + 1,
         n.e \in 1..Len(n.env), n.eb \in 1..Len(n.env), n.ef \in 0..Len(n.env),
         n.tr \in 1..Len(n.trail), n.trf \in 1..Len(n.trail),
         n.ptcp \in Subgoal \cup {User}, n.at \in CodePoint,
         \A i \in 2..Len(n.trail) : n.trail[i].parent \in 1..i - 1
  PROVE  IsMemory(n)
<1>1. n.heap \in Seq(Range(n.heap)) /\ n.env \in Seq(Range(n.env)) /\ n.trail \in Seq(Range(n.trail))
  BY DEF IsSeq
<1>2. n \in [heap : Seq(Range(n.heap)), env : Seq(Range(n.env)), trail : Seq(Range(n.trail)),
             h : 1..Len(n.heap) + 1, hb : 1..Len(n.heap) + 1, hf : 1..Len(n.heap) + 1,
             e : 1..Len(n.env), eb : 1..Len(n.env), ef : 0..Len(n.env),
             tr : 1..Len(n.trail), trf : 1..Len(n.trail),
             ptcp : Subgoal \cup {User}, at : CodePoint]
  <2> DEFINE heap == n.heap  env == n.env  trail == n.trail  h == n.h  hb == n.hb  hf == n.hf  e == n.e
             eb == n.eb  ef == n.ef  tr == n.tr  trf == n.trf  ptcp == n.ptcp  at == n.at
  <2>1. /\ heap \in Seq(Range(heap)) /\ env \in Seq(Range(env)) /\ trail \in Seq(Range(trail))
        /\ h \in 1..Len(heap) + 1 /\ hb \in 1..Len(heap) + 1 /\ hf \in 1..Len(heap) + 1
        /\ e \in 1..Len(env) /\ eb \in 1..Len(env) /\ ef \in 0..Len(env)
        /\ tr \in 1..Len(trail) /\ trf \in 1..Len(trail) /\ ptcp \in Subgoal \cup {User} /\ at \in CodePoint
    BY <1>1
  <2>2. n = [heap |-> heap, env |-> env, trail |-> trail, h |-> h, hb |-> hb, hf |-> hf,
             e |-> e, eb |-> eb, ef |-> ef, tr |-> tr, trf |-> trf, ptcp |-> ptcp, at |-> at]
    BY DEF Fields
  <2> HIDE DEF heap, env, trail, h, hb, hf, e, eb, ef, tr, trf, ptcp, at
  <2>3. n \in [heap : Seq(Range(heap)), env : Seq(Range(env)), trail : Seq(Range(trail)),
             h : 1..Len(heap) + 1, hb : 1..Len(heap) + 1, hf : 1..Len(heap) + 1,
             e : 1..Len(env), eb : 1..Len(env), ef : 0..Len(env),
             tr : 1..Len(trail), trf : 1..Len(trail),
             ptcp : Subgoal \cup {User}, at : CodePoint]
    BY <2>1, <2>2
  <2> QED  BY <2>3 DEF heap, env, trail, h, hb, hf, e, eb, ef, tr, trf, ptcp, at
<1> QED  BY <1>2, Zenon DEF IsMemory

\* n is m but for its cells.
SameButCells(m, n) ==
  /\ IsMemory(n) /\ Len(n.heap) = Len(m.heap) /\ Len(n.env) = Len(m.env) /\ n.trail = m.trail
  /\ n.h = m.h /\ n.hb = m.hb /\ n.hf = m.hf /\ n.e = m.e /\ n.eb = m.eb /\ n.ef = m.ef
  /\ n.tr = m.tr /\ n.trf = m.trf /\ n.ptcp = m.ptcp /\ n.at = m.at

LEMMA CellsChanged ==
  ASSUME NEW m, IsMemory(m), NEW heap, IsSeq(heap), Len(heap) = Len(m.heap),
         NEW env, IsSeq(env), Len(env) = Len(m.env),
         NEW n, n \in {[m EXCEPT !.heap = heap, !.env = env]} \cup (IF env = m.env THEN {[m EXCEPT !.heap = heap]} ELSE {})
                      \cup (IF heap = m.heap THEN {[m EXCEPT !.env = env]} ELSE {})
  PROVE  SameButCells(m, n)
<1>1. Fields(n, heap, env, m.trail, m.h, m.hb, m.hf, m.e, m.eb, m.ef, m.tr, m.trf, m.ptcp, m.at)
  <2>1. Fields(m, m.heap, m.env, m.trail, m.h, m.hb, m.hf, m.e, m.eb, m.ef, m.tr, m.trf, m.ptcp, m.at)
    BY MemoryFields
  <2>2. CASE n = [m EXCEPT !.heap = heap, !.env = env]
    BY <2>1, <2>2 DEF Fields
  <2>3. CASE n = [m EXCEPT !.heap = heap] /\ env = m.env
    BY <2>1, <2>3 DEF Fields
  <2>4. CASE n = [m EXCEPT !.env = env] /\ heap = m.heap
    BY <2>1, <2>4 DEF Fields
  <2> QED  BY <2>2, <2>3, <2>4, Zenon
<1>2. /\ n.heap = heap /\ n.env = env /\ n.trail = m.trail /\ n.h = m.h /\ n.hb = m.hb /\ n.hf = m.hf
      /\ n.e = m.e /\ n.eb = m.eb /\ n.ef = m.ef /\ n.tr = m.tr /\ n.trf = m.trf /\ n.ptcp = m.ptcp
      /\ n.at = m.at
  BY <1>1 DEF Fields
<1>3. IsMemory(n)
  BY <1>1, <1>2, MemoryFields, MemoryFrom
<1> QED  BY <1>2, <1>3 DEF SameButCells

LEMMA StoreIs ==
  ASSUME NEW m, IsMemory(m), NEW a, NEW c
  PROVE  SameButCells(m, Store(m, a, c))
<1>0. IsSeq(m.heap) /\ IsSeq(m.env)
  BY MemoryFields
<1>1. CASE a[1] = "heap"
  <2> DEFINE f == [m.heap EXCEPT ![a[2]] = c]
  <2>1. f = [i \in 1..Len(m.heap) |-> f[i]] /\ Len(m.heap) \in Nat
    BY <1>0, SeqParts
  <2>2. Store(m, a, c) = [m EXCEPT !.heap = f]
    BY <1>1 DEF Store
  <2> HIDE DEF f
  <2>4. IsSeq(f) /\ Len(f) = Len(m.heap)
    BY <2>1, SeqFrom
  <2> QED  BY <1>0, <2>2, <2>4, CellsChanged
<1>2. CASE a[1] # "heap"
  <2> DEFINE f == [m.env EXCEPT ![a[2]].y[a[3]] = c]
  <2>1. f = [i \in 1..Len(m.env) |-> f[i]] /\ Len(m.env) \in Nat
    BY <1>0, SeqParts
  <2>2. Store(m, a, c) = [m EXCEPT !.env = f]
    BY <1>2 DEF Store
  <2> HIDE DEF f
  <2>4. IsSeq(f) /\ Len(f) = Len(m.env)
    BY <2>1, SeqFrom
  <2> QED  BY <1>0, <2>2, <2>4, CellsChanged
<1> QED  BY <1>1, <1>2

LEMMA ReboundIs ==
  ASSUME NEW m, IsMemory(m), NEW undone, NEW redone
  PROVE  SameButCells(m, Rebound(m, undone, redone))
<1>0. IsSeq(m.heap) /\ IsSeq(m.env)
  BY MemoryFields
<1> DEFINE f == [i \in DOMAIN m.heap |-> Cell(m, undone, redone, OnHeap(i), m.heap[i])]
           g == [i \in DOMAIN m.env |->
                  [m.env[i] EXCEPT !.y = [k \in DOMAIN @ |-> Cell(m, undone, redone, InFrame(i, k), @[k])]]]
<1>1. Rebound(m, undone, redone) = [m EXCEPT !.heap = f, !.env = g]
  BY DEF Rebound
<1>2. /\ f = [i \in 1..Len(m.heap) |-> f[i]] /\ Len(m.heap) \in Nat
      /\ g = [i \in 1..Len(m.env) |-> g[i]] /\ Len(m.env) \in Nat
  BY <1>0, SeqParts
<1> HIDE DEF f, g
<1>3. IsSeq(f) /\ Len(f) = Len(m.heap) /\ IsSeq(g) /\ Len(g) = Len(m.env)
  BY <1>2, SeqFrom
<1> QED  BY <1>1, <1>3, CellsChanged

(* Going on: what the engine does to memory while it runs.  It only adds above what is there. *)

\* The trail up to here is not written over.
Upto(m) == Higher(m.tr, m.trf)
\* Memory n comes after m: its stacks and trail lie above those of m.
Onward(m, n) ==
  /\ IsMemory(n)
  /\ Len(m.heap) <= Len(n.heap) /\ Len(m.env) <= Len(n.env) /\ Len(m.trail) <= Len(n.trail)
  /\ m.h <= n.h /\ m.eb <= n.eb /\ (n.hb = m.hb \/ m.h <= n.hb)
  /\ Upto(m) <= Upto(n) /\ \A i \in 1..Upto(m) : n.trail[i] = m.trail[i]
  /\ m.tr \in Path(n, n.tr)
SameFrozen(m, n) == n.hf = m.hf /\ n.ef = m.ef /\ n.trf = m.trf

LEMMA Registers ==
  ASSUME NEW m, IsMemory(m)
  PROVE  /\ Len(m.heap) \in Nat /\ Len(m.env) \in Nat /\ Len(m.trail) \in Nat
         /\ m.h \in Nat /\ m.hb \in Nat /\ m.hf \in Nat /\ m.e \in Nat /\ m.eb \in Nat /\ m.ef \in Nat
         /\ m.tr \in Nat /\ m.trf \in Nat /\ m.tr \in 1..Len(m.trail) /\ m.trf \in 1..Len(m.trail)
         /\ m.at \in CodePoint /\ m.at.n \in Nat /\ m.at.clause \in Goal \cup {Asking}
<1>1. IsSeq(m.heap) /\ IsSeq(m.env) /\ IsSeq(m.trail)
  BY MemoryFields
<1>2. Len(m.heap) \in Nat /\ Len(m.env) \in Nat /\ Len(m.trail) \in Nat
  BY <1>1, SeqParts
<1>3. m.at \in CodePoint /\ m.at.n \in Nat /\ m.at.clause \in Goal \cup {Asking}
  <2>1. m.at \in CodePoint
    BY MemoryFields
  <2> QED  BY <2>1 DEF CodePoint
<1>4. /\ m.h \in 1..Len(m.heap) + 1 /\ m.hb \in 1..Len(m.heap) + 1 /\ m.hf \in 1..Len(m.heap) + 1
      /\ m.e \in 1..Len(m.env) /\ m.eb \in 1..Len(m.env) /\ m.ef \in 0..Len(m.env)
      /\ m.tr \in 1..Len(m.trail) /\ m.trf \in 1..Len(m.trail)
  BY MemoryFields
<1>5. \A i, j : i \in 1..j \/ i \in 0..j => i \in Nat
  OBVIOUS
<1>6. m.h \in Nat /\ m.hb \in Nat /\ m.hf \in Nat
  BY <1>4, <1>5, Zenon
<1>7. m.e \in Nat /\ m.eb \in Nat /\ m.ef \in Nat /\ m.tr \in Nat /\ m.trf \in Nat
  BY <1>4, <1>5, Zenon
<1> QED  BY <1>2, <1>3, <1>4, <1>6, <1>7

LEMMA UptoIs ==
  ASSUME NEW m, IsMemory(m)
  PROVE  Upto(m) \in 1..Len(m.trail) /\ m.tr <= Upto(m) /\ m.trf <= Upto(m) /\ Upto(m) \in Nat
BY Registers DEF Upto, Higher

LEMMA AtMostTwice ==
  ASSUME NEW i \in Nat, NEW j \in Nat, NEW k \in Nat, i <= j, j <= k
  PROVE  i <= k
OBVIOUS

LEMMA OnwardTwice ==
  ASSUME NEW m, IsMemory(m), NEW n, NEW p, Onward(m, n), Onward(n, p)
  PROVE  Onward(m, p)
<1>1. IsMemory(n) /\ IsMemory(p)
  BY DEF Onward
<1>2. /\ Len(m.heap) \in Nat /\ Len(m.env) \in Nat /\ Len(m.trail) \in Nat /\ Len(n.heap) \in Nat
      /\ Len(n.env) \in Nat /\ Len(n.trail) \in Nat /\ Len(p.heap) \in Nat /\ Len(p.env) \in Nat /\ Len(p.trail) \in Nat
      /\ m.h \in Nat /\ n.h \in Nat /\ p.h \in Nat /\ m.eb \in Nat /\ n.eb \in Nat /\ p.eb \in Nat
      /\ m.hb \in Nat /\ n.hb \in Nat /\ p.hb \in Nat
      /\ Upto(m) \in Nat /\ Upto(n) \in Nat /\ Upto(p) \in Nat
  BY <1>1, Registers, UptoIs
<1>3. /\ Len(m.heap) <= Len(p.heap) /\ Len(m.env) <= Len(p.env) /\ Len(m.trail) <= Len(p.trail)
      /\ m.h <= p.h /\ m.eb <= p.eb /\ (p.hb = m.hb \/ m.h <= p.hb)
      /\ Upto(m) <= Upto(p) /\ \A i \in 1..Upto(m) : p.trail[i] = m.trail[i]
  <2>1. /\ Len(m.heap) <= Len(n.heap) /\ Len(m.env) <= Len(n.env) /\ Len(m.trail) <= Len(n.trail)
        /\ m.h <= n.h /\ m.eb <= n.eb /\ (n.hb = m.hb \/ m.h <= n.hb) /\ Upto(m) <= Upto(n)
        /\ Len(n.heap) <= Len(p.heap) /\ Len(n.env) <= Len(p.env) /\ Len(n.trail) <= Len(p.trail)
        /\ n.h <= p.h /\ n.eb <= p.eb /\ (p.hb = n.hb \/ n.h <= p.hb) /\ Upto(n) <= Upto(p)
    BY DEF Onward
  <2>2. /\ Len(m.heap) <= Len(p.heap) /\ Len(m.env) <= Len(p.env) /\ Len(m.trail) <= Len(p.trail)
        /\ m.h <= p.h /\ m.eb <= p.eb /\ Upto(m) <= Upto(p)
    <3>a. /\ Len(m.heap) \in Nat /\ Len(n.heap) \in Nat /\ Len(p.heap) \in Nat
          /\ Len(m.heap) <= Len(n.heap) /\ Len(n.heap) <= Len(p.heap)
      BY <1>2, <2>1, Zenon
    <3>1. Len(m.heap) <= Len(p.heap)
      BY <3>a, AtMostTwice, Zenon
    <3>b. /\ Len(m.env) \in Nat /\ Len(n.env) \in Nat /\ Len(p.env) \in Nat
          /\ Len(m.env) <= Len(n.env) /\ Len(n.env) <= Len(p.env)
      BY <1>2, <2>1, Zenon
    <3>2. Len(m.env) <= Len(p.env)
      BY <3>b, AtMostTwice, Zenon
    <3>c. /\ Len(m.trail) \in Nat /\ Len(n.trail) \in Nat /\ Len(p.trail) \in Nat
          /\ Len(m.trail) <= Len(n.trail) /\ Len(n.trail) <= Len(p.trail)
      BY <1>2, <2>1, Zenon
    <3>3. Len(m.trail) <= Len(p.trail)
      BY <3>c, AtMostTwice, Zenon
    <3>d. /\ m.h \in Nat /\ n.h \in Nat /\ p.h \in Nat /\ m.h <= n.h /\ n.h <= p.h
          /\ m.eb \in Nat /\ n.eb \in Nat /\ p.eb \in Nat /\ m.eb <= n.eb /\ n.eb <= p.eb
      BY <1>2, <2>1, Zenon
    <3>4. m.h <= p.h /\ m.eb <= p.eb
      BY <3>d, AtMostTwice, Zenon
    <3>5. Upto(m) <= Upto(p)
      BY <1>2, <2>1, AtMostTwice, Zenon
    <3> QED  BY <3>1, <3>2, <3>3, <3>4, <3>5, Zenon
  <2>3. p.hb = m.hb \/ m.h <= p.hb
    <3>1. CASE p.hb = n.hb
      BY <2>1, <3>1, Zenon
    <3>2. CASE n.h <= p.hb
      BY <1>2, <2>1, <3>2, AtMostTwice, Zenon
    <3> QED  BY <2>1, <3>1, <3>2, Zenon
  <2>4. ASSUME NEW i \in 1..Upto(m)  PROVE p.trail[i] = m.trail[i]
    <3>1. i \in 1..Upto(n)
      BY <1>2, <2>1
    <3> QED  BY <3>1 DEF Onward
  <2> QED  BY <2>2, <2>3, <2>4
<1>4. m.tr \in Path(p, p.tr)
  <2>1. n.tr \in Path(p, p.tr) /\ m.tr \in Path(n, n.tr) /\ p.tr \in 1..Len(p.trail) /\ n.tr \in 1..Upto(n)
    BY <1>1, Registers, UptoIs DEF Onward
  <2>2. Path(p, n.tr) = Path(n, n.tr)
    <3>1. /\ Upto(n) <= Len(n.trail) /\ Upto(n) <= Len(p.trail) /\ \A i \in 1..Upto(n) : p.trail[i] = n.trail[i]
      BY <1>1, <1>2, UptoIs DEF Onward
    <3>2. \A i \in 1..Upto(n) : Path(p, i) = Path(n, i)
      <4> PICK b \in Nat : b = Upto(n)
        BY <1>2
      <4>1. b <= Len(n.trail) /\ b <= Len(p.trail) /\ \A i \in 1..b : p.trail[i] = n.trail[i]
        BY <3>1
      <4>2. \A i \in 1..b : Path(p, i) = Path(n, i)
        BY <1>1, <4>1, PathStays, Zenon
      <4> QED  BY <4>2
    <3> QED  BY <2>1, <3>2
  <2>3. Path(p, n.tr) \subseteq Path(p, p.tr)
    BY <1>1, <2>1, PathDown
  <2> QED  BY <2>1, <2>2, <2>3
<1> QED  BY <1>1, <1>3, <1>4 DEF Onward

\* Cells or registers change and the trail does not.
LEMMA OnwardSameTrail ==
  ASSUME NEW m, IsMemory(m), NEW n, IsMemory(n), n.trail = m.trail, n.tr = m.tr, Upto(n) = Upto(m),
         Len(m.heap) <= Len(n.heap), Len(m.env) <= Len(n.env), m.h <= n.h, m.eb <= n.eb,
         n.hb = m.hb \/ m.h <= n.hb
  PROVE  Onward(m, n)
<1>1. m.tr \in Path(n, n.tr)
  BY Registers, PathDown
<1>2. Len(m.trail) \in Nat /\ Upto(m) \in Nat
  BY Registers, UptoIs
<1> QED  BY <1>1, <1>2 DEF Onward

LEMMA CellsOn ==
  ASSUME NEW m, IsMemory(m), NEW n, SameButCells(m, n)
  PROVE  Onward(m, n) /\ SameFrozen(m, n) /\ n.h = m.h /\ n.hb = m.hb /\ n.eb = m.eb /\ n.tr = m.tr
<1>1. /\ IsMemory(n) /\ n.trail = m.trail /\ n.tr = m.tr /\ Len(n.heap) = Len(m.heap)
      /\ Len(n.env) = Len(m.env) /\ n.h = m.h /\ n.eb = m.eb /\ n.hb = m.hb /\ SameFrozen(m, n)
  BY DEF SameButCells, SameFrozen
<1>2. Upto(n) = Upto(m)
  BY <1>1 DEF Upto, SameFrozen
<1>3. Len(m.heap) \in Nat /\ Len(m.env) \in Nat /\ m.h \in Nat /\ m.eb \in Nat
  BY Registers
<1> QED  BY <1>1, <1>2, <1>3, OnwardSameTrail

LEMMA BuildOn ==
  ASSUME NEW m, IsMemory(m), NEW c
  PROVE  LET n == Build(m, c) IN
         /\ Onward(m, n) /\ SameFrozen(m, n) /\ n.h = m.h + 1 /\ n.hb = m.hb /\ n.eb = m.eb /\ n.e = m.e /\ n.at = m.at
<1> DEFINE f == Put(m.heap, m.h, c)  n == Build(m, c)
<1>1. IsSeq(m.heap) /\ m.h \in 1..Len(m.heap) + 1 /\ Len(m.heap) \in Nat
  BY MemoryFields, Registers
<1>2. IsSeq(f) /\ Len(f) = IF m.h = Len(m.heap) + 1 THEN m.h ELSE Len(m.heap)
  BY <1>1, PutIs
<1>3. n = [m EXCEPT !.heap = f, !.h = m.h + 1]
  BY DEF Build
<1> HIDE DEF f, n
<1>4. Fields(m, m.heap, m.env, m.trail, m.h, m.hb, m.hf, m.e, m.eb, m.ef, m.tr, m.trf, m.ptcp, m.at)
  BY MemoryFields
<1>5. /\ Fields(n, n.heap, n.env, n.trail, n.h, n.hb, n.hf, n.e, n.eb, n.ef, n.tr, n.trf, n.ptcp, n.at)
      /\ n.heap = f /\ n.env = m.env /\ n.trail = m.trail /\ n.h = m.h + 1 /\ n.hb = m.hb /\ n.hf = m.hf
      /\ n.e = m.e /\ n.eb = m.eb /\ n.ef = m.ef /\ n.tr = m.tr /\ n.trf = m.trf /\ n.ptcp = m.ptcp
      /\ n.at = m.at
  BY <1>3, <1>4 DEF Fields
<1>6. Len(m.heap) <= Len(n.heap) /\ n.h \in 1..Len(n.heap) + 1
  BY <1>1, <1>2, <1>5
<1>7. IsMemory(n)
  <2>1. n.hb \in 1..Len(n.heap) + 1 /\ n.hf \in 1..Len(n.heap) + 1
    <3>1. Len(n.heap) \in Nat /\ m.hb \in 1..Len(m.heap) + 1 /\ m.hf \in 1..Len(m.heap) + 1
      BY <1>1, <1>2, <1>5, MemoryFields
    <3> QED  BY <1>1, <1>5, <1>6, <3>1
  <2>2. IsSeq(n.heap) /\ IsSeq(n.env) /\ IsSeq(n.trail)
    BY <1>2, <1>5, MemoryFields
  <2>3. /\ n.e \in 1..Len(n.env) /\ n.eb \in 1..Len(n.env) /\ n.ef \in 0..Len(n.env)
        /\ n.tr \in 1..Len(n.trail) /\ n.trf \in 1..Len(n.trail)
        /\ n.ptcp \in Subgoal \cup {User} /\ n.at \in CodePoint
        /\ \A i \in 2..Len(n.trail) : n.trail[i].parent \in 1..i - 1
    BY <1>5, MemoryFields
  <2> QED  BY <1>5, <1>6, <2>1, <2>2, <2>3, MemoryFrom
<1>8. Upto(n) = Upto(m) /\ Len(m.env) \in Nat /\ m.h \in Nat /\ m.eb \in Nat
  BY <1>5, Registers DEF Upto
<1>9. Onward(m, n)
  BY <1>5, <1>6, <1>7, <1>8, OnwardSameTrail
<1> QED  BY <1>5, <1>9 DEF SameFrozen, n

LEMMA PushOn ==
  ASSUME NEW m, IsMemory(m), NEW a, NEW c
  PROVE  LET n == pushtrail0(m, a, c) IN
         /\ Onward(m, n) /\ SameFrozen(m, n) /\ n.h = m.h /\ n.hb = m.hb /\ n.eb = m.eb
<1> DEFINE top == Upto(m) + 1
           x == [var |-> a, value |-> c, parent |-> m.tr]
           f == Put(m.trail, top, x)
           n == pushtrail0(m, a, c)
<1>1. /\ IsSeq(m.trail) /\ Len(m.trail) \in Nat /\ Upto(m) \in 1..Len(m.trail) /\ top \in 1..Len(m.trail) + 1
      /\ m.tr \in 1..Len(m.trail) /\ m.tr <= Upto(m) /\ m.trf <= Upto(m) /\ m.trf \in Nat /\ m.tr \in Nat
  BY MemoryFields, Registers, UptoIs
<1>2. /\ IsSeq(f) /\ Len(f) = (IF top = Len(m.trail) + 1 THEN top ELSE Len(m.trail))
      /\ f[top] = x /\ \A j \in 1..Len(m.trail) : j # top => f[j] = m.trail[j]
  BY <1>1, PutIs
<1>3. n = [m EXCEPT !.trail = f, !.tr = top]
  BY DEF pushtrail0, Upto
<1>4. x.parent = m.tr
  OBVIOUS
<1>5. \A i \in 2..Len(m.trail) : m.trail[i].parent \in 1..i - 1
  BY MemoryFields
<1>6. Fields(m, m.heap, m.env, m.trail, m.h, m.hb, m.hf, m.e, m.eb, m.ef, m.tr, m.trf, m.ptcp, m.at)
  BY MemoryFields
<1> HIDE DEF f, n, x
<1>7. /\ Fields(n, n.heap, n.env, n.trail, n.h, n.hb, n.hf, n.e, n.eb, n.ef, n.tr, n.trf, n.ptcp, n.at)
      /\ n.heap = m.heap /\ n.env = m.env /\ n.trail = f /\ n.h = m.h /\ n.hb = m.hb /\ n.hf = m.hf
      /\ n.e = m.e /\ n.eb = m.eb /\ n.ef = m.ef /\ n.tr = top /\ n.trf = m.trf /\ n.ptcp = m.ptcp
      /\ n.at = m.at
  BY <1>3, <1>6 DEF Fields
<1>8. /\ Len(f) \in Nat /\ Len(m.trail) <= Len(f) /\ top \in 1..Len(f) /\ m.trf \in 1..Len(f)
      /\ \A i \in 1..Upto(m) : f[i] = m.trail[i]
  <2>1. Len(f) \in Nat /\ Len(m.trail) <= Len(f) /\ top \in 1..Len(f)
    BY <1>1, <1>2
  <2>2. m.trf \in 1..Len(f)
    <3>1. m.trf \in 1..Len(m.trail)
      BY Registers
    <3> QED  BY <1>1, <2>1, <3>1
  <2>3. ASSUME NEW i \in 1..Upto(m)  PROVE f[i] = m.trail[i]
    <3>1. i \in 1..Len(m.trail) /\ i # top
      BY <1>1
    <3> QED  BY <1>2, <3>1
  <2> QED  BY <2>1, <2>2, <2>3
<1>9. \A i \in 2..Len(f) : f[i].parent \in 1..i - 1
  <2> TAKE i \in 2..Len(f)
  <2>1. CASE i = top
    BY <1>1, <1>2, <1>4, <2>1
  <2>2. CASE i # top
    <3>1. i \in 2..Len(m.trail) /\ i \in 1..Len(m.trail)
      BY <1>1, <1>2, <2>2
    <3> QED  BY <1>2, <1>5, <2>2, <3>1
  <2> QED  BY <2>1, <2>2
<1>10. IsMemory(n)
  <2>1. /\ IsSeq(n.heap) /\ IsSeq(n.env) /\ n.h \in 1..Len(n.heap) + 1 /\ n.hb \in 1..Len(n.heap) + 1
        /\ n.hf \in 1..Len(n.heap) + 1 /\ n.e \in 1..Len(n.env) /\ n.eb \in 1..Len(n.env) /\ n.ef \in 0..Len(n.env)
        /\ n.ptcp \in Subgoal \cup {User} /\ n.at \in CodePoint
    BY <1>7, MemoryFields
  <2>2. /\ IsSeq(n.trail) /\ n.tr \in 1..Len(n.trail) /\ n.trf \in 1..Len(n.trail)
        /\ \A i \in 2..Len(n.trail) : n.trail[i].parent \in 1..i - 1
    BY <1>2, <1>7, <1>8, <1>9
  <2> QED  BY <1>7, <2>1, <2>2, MemoryFrom
<1>11. Upto(n) = top
  BY <1>1, <1>7 DEF Upto, Higher
<1>12. m.tr \in Path(n, n.tr)
  <2>1. n.trail[top].parent = m.tr /\ top # BottomOfTrail /\ top \in 1..Len(n.trail)
    BY <1>1, <1>2, <1>4, <1>7, <1>8 DEF BottomOfTrail
  <2>2. m.tr \in 1..Len(n.trail)
    BY <1>1, <1>7, <1>8
  <2>3. Path(n, top) = {top} \cup Path(n, m.tr) /\ m.tr \in Path(n, m.tr)
    BY <1>10, <2>1, <2>2, PathDown
  <2> QED  BY <1>7, <2>3
<1>13. Onward(m, n)
  <2>1. Len(m.heap) \in Nat /\ Len(m.env) \in Nat /\ m.h \in Nat /\ m.eb \in Nat
    BY Registers
  <2> QED  BY <1>1, <1>7, <1>8, <1>10, <1>11, <1>12, <2>1 DEF Onward
<1> QED  BY <1>7, <1>13 DEF SameFrozen, n

\* Binding, with or without need to trail it.
LEMMA BindOn ==
  ASSUME NEW m, IsMemory(m), NEW a, NEW c, NEW n, n \in {bind(m, a, c), dbind(m, a, c)}
  PROVE  Onward(m, n) /\ SameFrozen(m, n) /\ n.h = m.h /\ n.hb = m.hb /\ n.eb = m.eb
<1>1. \E p : /\ p = m \/ p = pushtrail0(m, a, c)
             /\ n = Store(p, a, c)
  BY DEF bind, dbind
<1>2. PICK p : /\ p = m \/ p = pushtrail0(m, a, c)
               /\ n = Store(p, a, c)
  BY <1>1
<1>3. IsMemory(p) /\ (p = m \/ Onward(m, p)) /\ SameFrozen(m, p) /\ p.h = m.h /\ p.hb = m.hb /\ p.eb = m.eb
  <2>1. CASE p = m
    BY <2>1 DEF SameFrozen
  <2>2. CASE p = pushtrail0(m, a, c)
    BY <2>2, PushOn DEF Onward
  <2> QED  BY <1>2, <2>1, <2>2
<1>4. Onward(p, n) /\ SameFrozen(p, n) /\ n.h = p.h /\ n.hb = p.hb /\ n.eb = p.eb
  BY <1>2, <1>3, StoreIs, CellsOn
<1>5. Onward(m, n)
  BY <1>3, <1>4, OnwardTwice
<1> QED  BY <1>3, <1>4, <1>5 DEF SameFrozen

LEMMA CallingOn ==
  ASSUME NEW m, IsMemory(m), NEW s
  PROVE  LET n == calling(m, s) IN
         /\ Onward(m, n) /\ SameFrozen(m, n) /\ n.hb = m.hb /\ n.eb = m.eb
         /\ template(n, s) \in 0..Len(n.heap)
<1>1. CASE s \in Ground
  <2>1. calling(m, s) = m /\ template(m, s) = 0
    BY <1>1 DEF calling, template, NoVariable
  <2>2. Onward(m, m) /\ Len(m.heap) \in Nat
    <3>1. m.tr \in Path(m, m.tr)
      BY Registers, PathDown
    <3>2. m.h \in Nat /\ m.eb \in Nat /\ Upto(m) \in Nat /\ Len(m.heap) \in Nat /\ Len(m.env) \in Nat /\ Len(m.trail) \in Nat
      BY Registers, UptoIs
    <3> QED  BY <3>1, <3>2 DEF Onward
  <2> QED  BY <2>1, <2>2 DEF SameFrozen
<1>2. CASE s \notin Ground
  <2> DEFINE p == bind(m, InFrame(m.e, m.at.n + 1), Ref(m.h))
             n == Build(p, Free)
  <2>1. calling(m, s) = n
    BY <1>2 DEF calling
  <2>2. Onward(m, p) /\ SameFrozen(m, p) /\ p.h = m.h /\ p.hb = m.hb /\ p.eb = m.eb /\ IsMemory(p)
    BY BindOn DEF Onward
  <2> HIDE DEF p
  <2>3. Onward(p, n) /\ SameFrozen(p, n) /\ n.hb = p.hb /\ n.eb = p.eb /\ IsMemory(n)
    BY <2>2, BuildOn DEF Onward
  <2> HIDE DEF n
  <2>4. Onward(m, n) /\ SameFrozen(m, n)
    BY <2>2, <2>3, OnwardTwice DEF SameFrozen
  <2>5. template(n, s) = n.h - 1 /\ n.h \in 1..Len(n.heap) + 1 /\ Len(n.heap) \in Nat
    BY <1>2, <2>3, MemoryFields, Registers DEF template
  <2> QED  BY <2>1, <2>2, <2>3, <2>4, <2>5
<1> QED  BY <1>1, <1>2

LEMMA SaveOn ==
  ASSUME NEW m, IsMemory(m)
  PROVE  LET n == save_find_locx(m) IN
         /\ Onward(m, n) /\ SameFrozen(m, n) /\ n.h = m.h /\ n.hb = m.hb /\ n.tr = m.tr
         /\ m.ef <= n.eb /\ n.heap = m.heap
<1> DEFINE n == save_find_locx(m)
<1>1. n = [m EXCEPT !.eb = top_of_localstk(m)]
  BY DEF save_find_locx
<1>2. /\ m.e \in 1..Len(m.env) /\ m.eb \in 1..Len(m.env) /\ m.ef \in 0..Len(m.env) /\ Len(m.env) \in Nat
      /\ m.h \in Nat /\ Len(m.heap) \in Nat
  BY MemoryFields, Registers
<1>3. top_of_localstk(m) \in 1..Len(m.env) /\ m.eb <= top_of_localstk(m) /\ m.ef <= top_of_localstk(m)
  BY <1>2 DEF top_of_localstk, Higher
<1>4. Fields(m, m.heap, m.env, m.trail, m.h, m.hb, m.hf, m.e, m.eb, m.ef, m.tr, m.trf, m.ptcp, m.at)
  BY MemoryFields
<1> HIDE DEF n
<1>5. /\ Fields(n, n.heap, n.env, n.trail, n.h, n.hb, n.hf, n.e, n.eb, n.ef, n.tr, n.trf, n.ptcp, n.at)
      /\ n.heap = m.heap /\ n.env = m.env /\ n.trail = m.trail /\ n.h = m.h /\ n.hb = m.hb /\ n.hf = m.hf
      /\ n.e = m.e /\ n.eb = top_of_localstk(m) /\ n.ef = m.ef /\ n.tr = m.tr /\ n.trf = m.trf /\ n.ptcp = m.ptcp
      /\ n.at = m.at
  BY <1>1, <1>4 DEF Fields
<1>6. IsMemory(n)
  BY <1>3, <1>5, MemoryFields, MemoryFrom
<1>7. Upto(n) = Upto(m)
  BY <1>5 DEF Upto
<1>8. Onward(m, n)
  BY <1>2, <1>3, <1>5, <1>6, <1>7, OnwardSameTrail
<1> QED  BY <1>3, <1>5, <1>8 DEF SameFrozen, n

\* A frame is added; the clause's choice point, if there is one, makes hb what h is.
Entered(m, p, hb, clause, s, head) == allocate([m EXCEPT !.ptcp = p, !.hb = hb], clause, s, head)
LEMMA AllocateOn ==
  ASSUME NEW m, IsMemory(m), NEW clause \in Goal \cup {Asking}, NEW s, NEW head,
         NEW p \in Subgoal \cup {User}, NEW hb \in {m.h, m.hb}
  PROVE  LET n == Entered(m, p, hb, clause, s, head) IN
         Onward(m, n) /\ SameFrozen(m, n) /\ n.hb = hb /\ n.h = m.h
<1> DEFINE q == [m EXCEPT !.ptcp = p, !.hb = hb]
           g == top_of_localstk(m) + 1
           f == Put(m.env, g, Frame(s, head))
           at == [clause |-> clause, n |-> 0]
           n == Entered(m, p, hb, clause, s, head)
<1>1. Fields(m, m.heap, m.env, m.trail, m.h, m.hb, m.hf, m.e, m.eb, m.ef, m.tr, m.trf, m.ptcp, m.at)
  BY MemoryFields
<1>2. q.eb = m.eb /\ q.e = m.e /\ q.ef = m.ef /\ q.env = m.env
  BY <1>1 DEF Fields
<1>3. top_of_localstk(q) = top_of_localstk(m)
  BY <1>2 DEF top_of_localstk
<1>4. /\ m.e \in 1..Len(m.env) /\ m.eb \in 1..Len(m.env) /\ m.ef \in 0..Len(m.env) /\ Len(m.env) \in Nat
      /\ m.h \in 1..Len(m.heap) + 1 /\ m.hb \in 1..Len(m.heap) + 1 /\ m.h \in Nat /\ Len(m.heap) \in Nat /\ IsSeq(m.env)
  BY MemoryFields, Registers
<1>5. g \in 1..Len(m.env) + 1
  <2>1. top_of_localstk(m) \in {m.eb, m.e, m.ef} /\ top_of_localstk(m) \in 0..Len(m.env)
    <3>1. \A i, j : Higher(i, j) \in {i, j}
      BY DEF Higher
    <3>2. top_of_localstk(m) \in {m.eb, m.e, m.ef}
      BY <3>1 DEF top_of_localstk
    <3> QED  BY <1>4, <3>2
  <2> QED  BY <1>4, <2>1
<1>6. IsSeq(f) /\ Len(f) = IF g = Len(m.env) + 1 THEN g ELSE Len(m.env)
  BY <1>4, <1>5, PutIs
<1>7. n = [q EXCEPT !.env = f, !.e = g, !.at = at]
  BY <1>2, <1>3 DEF Entered, allocate
<1>8. at \in CodePoint
  BY DEF CodePoint
<1> HIDE DEF f, g, at, n
<1>9. /\ Fields(n, n.heap, n.env, n.trail, n.h, n.hb, n.hf, n.e, n.eb, n.ef, n.tr, n.trf, n.ptcp, n.at)
      /\ n.heap = m.heap /\ n.env = f /\ n.trail = m.trail /\ n.h = m.h /\ n.hb = hb /\ n.hf = m.hf
      /\ n.e = g /\ n.eb = m.eb /\ n.ef = m.ef /\ n.tr = m.tr /\ n.trf = m.trf /\ n.ptcp = p
      /\ n.at = at
  BY <1>1, <1>7 DEF Fields
<1>10. Len(m.env) <= Len(f) /\ g \in 1..Len(f) /\ m.eb \in 1..Len(f) /\ m.ef \in 0..Len(f)
  BY <1>4, <1>5, <1>6, SMTT(30)
<1>11. IsMemory(n)
  <2>1. /\ IsSeq(n.heap) /\ IsSeq(n.trail) /\ n.h \in 1..Len(n.heap) + 1 /\ n.hf \in 1..Len(n.heap) + 1
        /\ n.tr \in 1..Len(n.trail) /\ n.trf \in 1..Len(n.trail)
        /\ \A i \in 2..Len(n.trail) : n.trail[i].parent \in 1..i - 1
    BY <1>9, MemoryFields
  <2>2. /\ IsSeq(n.env) /\ n.e \in 1..Len(n.env) /\ n.eb \in 1..Len(n.env) /\ n.ef \in 0..Len(n.env)
        /\ n.ptcp \in Subgoal \cup {User} /\ n.at \in CodePoint /\ n.hb \in 1..Len(n.heap) + 1
    BY <1>4, <1>6, <1>8, <1>9, <1>10
  <2> QED  BY <1>9, <2>1, <2>2, MemoryFrom
<1>12. Upto(n) = Upto(m) /\ m.eb \in Nat
  BY <1>4, <1>9 DEF Upto
<1>13. Onward(m, n)
  BY <1>4, <1>9, <1>10, <1>11, <1>12, OnwardSameTrail
<1> QED  BY <1>9, <1>13 DEF SameFrozen, n

LEMMA AnsweredOn ==
  ASSUME NEW m, IsMemory(m)
  PROVE  LET n == Answered(m) IN
         Onward(m, n) /\ SameFrozen(m, n) /\ n.hb = m.hb
<1> DEFINE n == Answered(m)  at == [m.at EXCEPT !.n = @ + 1]
<1>1. Fields(m, m.heap, m.env, m.trail, m.h, m.hb, m.hf, m.e, m.eb, m.ef, m.tr, m.trf, m.ptcp, m.at)
  BY MemoryFields
<1>2. n = [m EXCEPT !.at = at]
  BY DEF Answered
<1>3. at \in CodePoint
  <2>1. m.at \in CodePoint
    BY Registers
  <2> QED  BY <2>1 DEF CodePoint
<1> HIDE DEF n, at
<1>4. /\ Fields(n, n.heap, n.env, n.trail, n.h, n.hb, n.hf, n.e, n.eb, n.ef, n.tr, n.trf, n.ptcp, n.at)
      /\ n.heap = m.heap /\ n.env = m.env /\ n.trail = m.trail /\ n.h = m.h /\ n.hb = m.hb /\ n.hf = m.hf
      /\ n.e = m.e /\ n.eb = m.eb /\ n.ef = m.ef /\ n.tr = m.tr /\ n.trf = m.trf /\ n.ptcp = m.ptcp
      /\ n.at = at
  BY <1>1, <1>2 DEF Fields
<1>5. IsMemory(n)
  BY <1>3, <1>4, MemoryFields, MemoryFrom
<1>6. Upto(n) = Upto(m) /\ m.h \in Nat /\ m.eb \in Nat /\ Len(m.heap) \in Nat /\ Len(m.env) \in Nat
  BY <1>4, Registers DEF Upto
<1>7. Onward(m, n)
  BY <1>4, <1>5, <1>6, OnwardSameTrail
<1> QED  BY <1>4, <1>7 DEF SameFrozen, n

\* An answer is returned, by trie code or to a consumer.
LEMMA ReturnOn ==
  ASSUME NEW m, IsMemory(m), NEW t, NEW a, NEW n, n \in {unify_with_trie(m, t, a), table_consume_answer(m, t, a)}
  PROVE  Onward(m, n) /\ SameFrozen(m, n) /\ n.hb = m.hb
<1> DEFINE b == Build(m, Term(a))
<1>1. \E p : p \in {m, bind(b, OnHeap(t), Ref(m.h)), dbind(b, OnHeap(t), Ref(m.h))} /\ n = Answered(p)
  BY DEF unify_with_trie, table_consume_answer
<1>2. PICK p : p \in {m, bind(b, OnHeap(t), Ref(m.h)), dbind(b, OnHeap(t), Ref(m.h))} /\ n = Answered(p)
  BY <1>1
<1>3. Onward(m, b) /\ SameFrozen(m, b) /\ b.hb = m.hb /\ IsMemory(b)
  BY BuildOn DEF Onward
<1> HIDE DEF b
<1>4. IsMemory(p) /\ (p = m \/ Onward(m, p)) /\ SameFrozen(m, p) /\ p.hb = m.hb
  <2>1. CASE p = m
    BY <2>1 DEF SameFrozen
  <2>2. CASE p \in {bind(b, OnHeap(t), Ref(m.h)), dbind(b, OnHeap(t), Ref(m.h))}
    <3>1. Onward(b, p) /\ SameFrozen(b, p) /\ p.hb = b.hb
      BY <1>3, <2>2, BindOn
    <3>2. Onward(m, p) /\ IsMemory(p)
      BY <1>3, <3>1, OnwardTwice DEF Onward
    <3> QED  BY <1>3, <3>1, <3>2 DEF SameFrozen
  <2> QED  BY <1>2, <2>1, <2>2
<1>5. Onward(p, n) /\ SameFrozen(p, n) /\ n.hb = p.hb
  BY <1>2, <1>4, AnsweredOn
<1>6. Onward(m, n)
  BY <1>4, <1>5, OnwardTwice
<1> QED  BY <1>4, <1>5, <1>6 DEF SameFrozen

\* A choice point is made: hb is what h is.
LEMMA ChoicePointOn ==
  ASSUME NEW m, IsMemory(m)
  PROVE  LET n == [m EXCEPT !.hb = m.h] IN
         Onward(m, n) /\ SameFrozen(m, n) /\ n.hb = m.h /\ n.h = m.h
<1> DEFINE n == [m EXCEPT !.hb = m.h]
<1>1. Fields(m, m.heap, m.env, m.trail, m.h, m.hb, m.hf, m.e, m.eb, m.ef, m.tr, m.trf, m.ptcp, m.at)
  BY MemoryFields
<1>2. /\ Fields(n, n.heap, n.env, n.trail, n.h, n.hb, n.hf, n.e, n.eb, n.ef, n.tr, n.trf, n.ptcp, n.at)
      /\ n.heap = m.heap /\ n.env = m.env /\ n.trail = m.trail /\ n.h = m.h /\ n.hb = m.h /\ n.hf = m.hf
      /\ n.e = m.e /\ n.eb = m.eb /\ n.ef = m.ef /\ n.tr = m.tr /\ n.trf = m.trf /\ n.ptcp = m.ptcp
      /\ n.at = m.at
  BY <1>1 DEF Fields
<1> HIDE DEF n
<1>3. IsMemory(n)
  BY <1>2, MemoryFields, MemoryFrom
<1>4. Upto(n) = Upto(m) /\ m.h \in Nat /\ m.eb \in Nat /\ Len(m.heap) \in Nat /\ Len(m.env) \in Nat
  BY <1>2, Registers DEF Upto
<1>5. Onward(m, n)
  BY <1>2, <1>3, <1>4, OnwardSameTrail
<1> QED  BY <1>2, <1>5 DEF SameFrozen, n

\* A consumer is made: what there is now is frozen.
LEMMA FreezeOn ==
  ASSUME NEW m, IsMemory(m)
  PROVE  LET n == freeze(m) IN
         /\ Onward(m, n) /\ n.hb = m.hb /\ n.h = m.h /\ n.eb = m.eb /\ n.tr = m.tr /\ n.heap = m.heap
         /\ n.ef = m.eb /\ n.hf = Higher(m.hf, m.h) /\ n.trf = Higher(m.trf, m.tr)
<1> DEFINE n == freeze(m)  hf == Higher(m.hf, m.h)  trf == Higher(m.trf, m.tr)
<1>1. Fields(m, m.heap, m.env, m.trail, m.h, m.hb, m.hf, m.e, m.eb, m.ef, m.tr, m.trf, m.ptcp, m.at)
  BY MemoryFields
<1>2. n = [m EXCEPT !.ef = m.eb, !.trf = trf, !.hf = hf]
  BY <1>1 DEF freeze, Fields
<1>3. hf \in {m.hf, m.h} /\ trf \in {m.trf, m.tr}
  BY DEF Higher
<1>4. Higher(m.tr, trf) = Upto(m)
  BY Registers DEF Higher, Upto
<1>5. m.eb \in 0..Len(m.env)
  BY MemoryFields
<1> HIDE DEF n, hf, trf
<1>6. /\ Fields(n, n.heap, n.env, n.trail, n.h, n.hb, n.hf, n.e, n.eb, n.ef, n.tr, n.trf, n.ptcp, n.at)
      /\ n.heap = m.heap /\ n.env = m.env /\ n.trail = m.trail /\ n.h = m.h /\ n.hb = m.hb /\ n.hf = hf
      /\ n.e = m.e /\ n.eb = m.eb /\ n.ef = m.eb /\ n.tr = m.tr /\ n.trf = trf /\ n.ptcp = m.ptcp
      /\ n.at = m.at
  BY <1>1, <1>2 DEF Fields
<1>7. IsMemory(n)
  BY <1>3, <1>5, <1>6, MemoryFields, MemoryFrom
<1>8. Upto(n) = Upto(m) /\ m.h \in Nat /\ m.eb \in Nat /\ Len(m.heap) \in Nat /\ Len(m.env) \in Nat
  BY <1>4, <1>6, Registers DEF Upto
<1>9. Onward(m, n)
  BY <1>6, <1>7, <1>8, OnwardSameTrail
<1> QED  BY <1>6, <1>9 DEF n, hf, trf

(* Going back. *)

\* Memory n has the stacks of m, and its registers but for h, tr and those of the code.
Back(m, n) ==
  /\ IsMemory(n) /\ Len(n.heap) = Len(m.heap) /\ Len(n.env) = Len(m.env) /\ n.trail = m.trail
  /\ n.hb = m.hb /\ n.eb = m.eb /\ n.hf = m.hf /\ n.ef = m.ef /\ n.trf = m.trf

\* The bindings of some frames are undone, those of others done again.
Moved(m, n, tr) == n = [m EXCEPT !.tr = tr]
LEMMA ReboundBack ==
  ASSUME NEW m, IsMemory(m), NEW tr \in 1..Len(m.trail), NEW p, SameButCells(m, p),
         NEW n, Moved(p, n, tr)
  PROVE  Back(m, n) /\ n.tr = tr /\ n.h = m.h /\ n.e = m.e /\ n.at = m.at
<1>1. SameButCells(m, p) /\ n = [p EXCEPT !.tr = tr]
  BY DEF Moved
<1>2. IsMemory(p) /\ p.trail = m.trail
  BY <1>1 DEF SameButCells
<1>3. Fields(p, p.heap, p.env, p.trail, p.h, p.hb, p.hf, p.e, p.eb, p.ef, p.tr, p.trf, p.ptcp, p.at)
  BY <1>2, MemoryFields
<1>4. /\ Fields(n, n.heap, n.env, n.trail, n.h, n.hb, n.hf, n.e, n.eb, n.ef, n.tr, n.trf, n.ptcp, n.at)
      /\ n.heap = p.heap /\ n.env = p.env /\ n.trail = p.trail /\ n.h = p.h /\ n.hb = p.hb /\ n.hf = p.hf
      /\ n.e = p.e /\ n.eb = p.eb /\ n.ef = p.ef /\ n.tr = tr /\ n.trf = p.trf /\ n.ptcp = p.ptcp
      /\ n.at = p.at
  BY <1>1, <1>3 DEF Fields
<1>5. IsMemory(n)
  BY <1>2, <1>4, MemoryFields, MemoryFrom
<1> QED  BY <1>1, <1>4, <1>5 DEF Back, SameButCells

LEMMA SwitchBack ==
  ASSUME NEW m, IsMemory(m), NEW c, saved[c].tr \in 1..Len(m.trail)
  PROVE  LET n == switch_envs(m, c) IN
         Back(m, n) /\ n.tr = saved[c].tr /\ n.h = m.h /\ n.e = m.e /\ n.at = m.at
<1> DEFINE undone == Path(m, m.tr) \ Path(m, saved[c].tr)
           redone == Path(m, saved[c].tr) \ Path(m, m.tr)
           n == switch_envs(m, c)
<1>1. n = [Rebound(m, undone, redone) EXCEPT !.tr = saved[c].tr]
  BY DEF switch_envs
<1> HIDE DEF undone, redone, n
<1>2. Back(m, n) /\ n.tr = saved[c].tr /\ n.h = m.h /\ n.e = m.e /\ n.at = m.at
  <2>1. PICK p : p = Rebound(m, undone, redone)
    OBVIOUS
  <2>2. PICK tr \in 1..Len(m.trail) : tr = saved[c].tr
    OBVIOUS
  <2>3. SameButCells(m, p) /\ Moved(p, n, tr)
    BY <1>1, <2>1, <2>2, ReboundIs DEF Moved
  <2>4. Back(m, n) /\ n.tr = tr /\ n.h = m.h /\ n.e = m.e /\ n.at = m.at
    BY <2>2, <2>3, ReboundBack
  <2> QED  BY <2>2, <2>4
<1> QED  BY <1>2 DEF n

\* The greatest of some numbers.
LEMMA GreatestIs ==
  ASSUME NEW K \in SUBSET Nat, K # {}, NEW n \in Nat, \A k \in K : k <= n
  PROVE  Greatest(K) \in K /\ \A k \in K : k <= Greatest(K)
<1> DEFINE D == {n - k : k \in K}
<1>1. D \in SUBSET Nat /\ D # {}
  <2>1. \A k \in K : k \in Nat /\ n - k \in Nat
    OBVIOUS
  <2> QED  BY <2>1
<1>2. PICK d \in D : \A j \in D : d <= j
  BY <1>1, LeastExists
<1>3. PICK g \in K : d = n - g
  BY <1>2
<1>4. \A k \in K : g >= k
  <2> TAKE k \in K
  <2>1. n - k \in D /\ k \in Nat /\ g \in Nat
    OBVIOUS
  <2>2. n - g <= n - k
    BY <1>2, <1>3, <2>1
  <2> QED  BY <2>1, <2>2
<1>5. Greatest(K) \in K /\ \A k \in K : Greatest(K) >= k
  BY <1>4 DEF Greatest
<1>6. Greatest(K) \in Nat
  BY <1>5
<1> QED  BY <1>5, <1>6

\* Along one branch of the trail: to where its path has come that far.
LEMMA UndoBack ==
  ASSUME NEW m, IsMemory(m), NEW c, saved[c].tr \in 1..Len(m.trail)
  PROVE  LET n == undo_bindings(m, c) IN
         /\ Back(m, n) /\ n.h = m.h /\ n.e = m.e /\ n.at = m.at
         /\ \A i \in Path(m, m.tr) : i <= saved[c].tr => i \in Path(m, n.tr)
<1> DEFINE old == Path(m, m.tr)
           kept == {i \in old : i <= saved[c].tr}
           g == Greatest(kept)
<1>1. m.tr \in 1..Len(m.trail) /\ Len(m.trail) \in Nat /\ saved[c].tr \in Nat /\ 1 <= saved[c].tr
  BY Registers
<1>2. old \subseteq 1..m.tr /\ BottomOfTrail \in old
  BY <1>1, PathDown
<1>3. kept \in SUBSET Nat /\ kept # {} /\ \A k \in kept : k <= saved[c].tr
  BY <1>1, <1>2 DEF BottomOfTrail
<1> HIDE DEF kept
<1>4. g \in kept /\ \A k \in kept : k <= g
  BY <1>1, <1>3, GreatestIs
<1>5. g \in old /\ g \in 1..Len(m.trail)
  BY <1>1, <1>2, <1>4 DEF kept
<1>6. undo_bindings(m, c) = [Rebound(m, old \ kept, {}) EXCEPT !.tr = g]
  BY DEF undo_bindings, kept
<1>7. \A v \in old : v <= g => v \in Path(m, g)
  BY <1>1, <1>5, PathDown
<1>8. \A i \in old : i <= saved[c].tr => i \in Path(m, g)
  BY <1>4, <1>7 DEF kept
<1> DEFINE undone == old \ kept  n == undo_bindings(m, c)
<1>9. Back(m, n) /\ n.tr = g /\ n.h = m.h /\ n.e = m.e /\ n.at = m.at
  <2> HIDE DEF undone, g, n
  <2>4. g \in 1..Len(m.trail)
    BY <1>5 DEF g
  <2>1. n = [Rebound(m, undone, {}) EXCEPT !.tr = g]
    BY <1>6 DEF n, undone, g
  <2>2. PICK p : p = Rebound(m, undone, {})
    OBVIOUS
  <2>3. SameButCells(m, p) /\ Moved(p, n, g)
    BY <2>1, <2>2, ReboundIs DEF Moved
  <2> QED  BY <2>3, <2>4, ReboundBack
<1> HIDE DEF n, old, g
<1> QED  BY <1>8, <1>9 DEF n, old

\* n is m but for registers of the code.
CodeSet(m, n, h, at, e) ==
  /\ Fields(n, n.heap, n.env, n.trail, n.h, n.hb, n.hf, n.e, n.eb, n.ef, n.tr, n.trf, n.ptcp, n.at)
  /\ n.heap = m.heap /\ n.env = m.env /\ n.trail = m.trail /\ n.h = h /\ n.hb = m.hb /\ n.hf = m.hf
  /\ n.e = e /\ n.eb = m.eb /\ n.ef = m.ef /\ n.tr = m.tr /\ n.trf = m.trf /\ n.ptcp = m.ptcp
  /\ n.at = at

LEMMA CodeFields ==
  ASSUME NEW m, IsMemory(m), NEW h, NEW at, NEW e
  PROVE  CodeSet(m, [m EXCEPT !.h = h, !.at = at, !.e = e], h, at, e)
<1>1. Fields(m, m.heap, m.env, m.trail, m.h, m.hb, m.hf, m.e, m.eb, m.ef, m.tr, m.trf, m.ptcp, m.at)
  BY MemoryFields
<1> PICK n : n = [m EXCEPT !.h = h, !.at = at, !.e = e]
  OBVIOUS
<1>2. CodeSet(m, n, h, at, e)
  BY <1>1 DEF CodeSet, Fields
<1> QED  BY <1>2

\* The choice point's own registers.
LEMMA RestoreBack ==
  ASSUME NEW m, IsMemory(m), NEW c, saved[c] \in SavedRegisters(m)
  PROVE  LET n == restore_some_wamregs(m, c) IN
         Back(m, n) /\ n.tr = m.tr /\ n.h = Higher(m.hb, m.hf)
<1> DEFINE n == restore_some_wamregs(m, c)
<1>2. PICK e \in 1..Len(m.env), at \in CodePoint : e = saved[c].e /\ at = saved[c].at
  BY DEF SavedRegisters
<1>3. PICK h \in {m.hb, m.hf} : h = Higher(m.hb, m.hf)
  BY DEF Higher
<1>4. n = [m EXCEPT !.h = h, !.at = at, !.e = e]
  BY <1>2, <1>3, Zenon DEF restore_some_wamregs
<1> HIDE DEF n
<1>1. CodeSet(m, n, h, at, e)
  BY <1>4, CodeFields
<1>5. /\ Fields(n, n.heap, n.env, n.trail, n.h, n.hb, n.hf, n.e, n.eb, n.ef, n.tr, n.trf, n.ptcp, n.at)
      /\ n.heap = m.heap /\ n.env = m.env /\ n.trail = m.trail /\ n.h = h /\ n.hb = m.hb /\ n.hf = m.hf
      /\ n.e = e /\ n.eb = m.eb /\ n.ef = m.ef /\ n.tr = m.tr /\ n.trf = m.trf /\ n.ptcp = m.ptcp
      /\ n.at = at
  BY <1>1 DEF CodeSet
<1>6. IsMemory(n)
  BY <1>2, <1>3, <1>5, MemoryFields, MemoryFrom
<1> QED  BY <1>3, <1>5, <1>6 DEF Back, n

\* A step back after another.
LEMMA BackTwice ==
  ASSUME NEW m, NEW n, NEW p, Back(m, n), Back(n, p)
  PROVE  Back(m, p)
BY DEF Back

\* The table that runs is set.
LEMMA ptcpBack ==
  ASSUME NEW m, IsMemory(m), NEW t \in Subgoal \cup {User}
  PROVE  LET n == [m EXCEPT !.ptcp = t] IN
         Back(m, n) /\ n.tr = m.tr /\ n.h = m.h /\ n.e = m.e /\ n.at = m.at
<1> DEFINE n == [m EXCEPT !.ptcp = t]
<1>1. Fields(m, m.heap, m.env, m.trail, m.h, m.hb, m.hf, m.e, m.eb, m.ef, m.tr, m.trf, m.ptcp, m.at)
  BY MemoryFields
<1>2. /\ Fields(n, n.heap, n.env, n.trail, n.h, n.hb, n.hf, n.e, n.eb, n.ef, n.tr, n.trf, n.ptcp, n.at)
      /\ n.heap = m.heap /\ n.env = m.env /\ n.trail = m.trail /\ n.h = m.h /\ n.hb = m.hb /\ n.hf = m.hf
      /\ n.e = m.e /\ n.eb = m.eb /\ n.ef = m.ef /\ n.tr = m.tr /\ n.trf = m.trf /\ n.ptcp = t
      /\ n.at = m.at
  BY <1>1 DEF Fields
<1> HIDE DEF n
<1>3. IsMemory(n)
  BY <1>2, MemoryFields, MemoryFrom
<1> QED  BY <1>2, <1>3 DEF Back, n

LEMMA HeapBack ==
  ASSUME NEW m, IsMemory(m), NEW h \in 1..Len(m.heap) + 1
  PROVE  LET n == [m EXCEPT !.h = h] IN Back(m, n) /\ n.tr = m.tr
<1> DEFINE n == [m EXCEPT !.h = h]
<1>1. Fields(m, m.heap, m.env, m.trail, m.h, m.hb, m.hf, m.e, m.eb, m.ef, m.tr, m.trf, m.ptcp, m.at)
  BY MemoryFields
<1>2. /\ Fields(n, n.heap, n.env, n.trail, n.h, n.hb, n.hf, n.e, n.eb, n.ef, n.tr, n.trf, n.ptcp, n.at)
      /\ n.heap = m.heap /\ n.env = m.env /\ n.trail = m.trail /\ n.h = h /\ n.hb = m.hb /\ n.hf = m.hf
      /\ n.e = m.e /\ n.eb = m.eb /\ n.ef = m.ef /\ n.tr = m.tr /\ n.trf = m.trf /\ n.ptcp = m.ptcp
      /\ n.at = m.at
  BY <1>1 DEF Fields
<1> HIDE DEF n
<1>3. IsMemory(n)
  BY <1>2, MemoryFields, MemoryFrom
<1> QED  BY <1>2, <1>3 DEF Back, n

\* The registers of the previous choice point: what conditional bindings are.
Bounded(m, n, hb, eb) == n \in {[m EXCEPT !.eb = eb, !.hb = hb], [m EXCEPT !.hb = hb, !.eb = eb]}
LEMMA BoundsBack ==
  ASSUME NEW m, IsMemory(m), NEW hb \in 1..Len(m.heap) + 1, NEW eb \in 1..Len(m.env),
         NEW n, Bounded(m, n, hb, eb)
  PROVE  /\ IsMemory(n) /\ n.heap = m.heap /\ n.env = m.env /\ n.trail = m.trail /\ n.tr = m.tr /\ n.h = m.h
         /\ n.hb = hb /\ n.eb = eb /\ n.hf = m.hf /\ n.ef = m.ef /\ n.trf = m.trf
<1>1. Fields(m, m.heap, m.env, m.trail, m.h, m.hb, m.hf, m.e, m.eb, m.ef, m.tr, m.trf, m.ptcp, m.at)
  BY MemoryFields
<1>2. /\ Fields(n, n.heap, n.env, n.trail, n.h, n.hb, n.hf, n.e, n.eb, n.ef, n.tr, n.trf, n.ptcp, n.at)
      /\ n.heap = m.heap /\ n.env = m.env /\ n.trail = m.trail /\ n.h = m.h /\ n.hb = hb /\ n.hf = m.hf
      /\ n.e = m.e /\ n.eb = eb /\ n.ef = m.ef /\ n.tr = m.tr /\ n.trf = m.trf /\ n.ptcp = m.ptcp
      /\ n.at = m.at
  <2>1. CASE n = [m EXCEPT !.eb = eb, !.hb = hb]
    BY <1>1, <2>1 DEF Fields
  <2>2. CASE n = [m EXCEPT !.hb = hb, !.eb = eb]
    BY <1>1, <2>2 DEF Fields
  <2> QED  BY <2>1, <2>2 DEF Bounded
<1>3. IsMemory(n)
  BY <1>2, MemoryFields, MemoryFrom
<1> QED  BY <1>2, <1>3

(* What a step leaves of the choice points' registers and of what is frozen. *)

LEMMA SavedStays ==
  ASSUME NEW m, IsMemory(m), NEW n, IsMemory(n), NEW r \in SavedRegisters(m),
         Len(m.heap) <= Len(n.heap), Len(m.env) <= Len(n.env), Len(m.trail) <= Len(n.trail)
  PROVE  r \in SavedRegisters(n)
<1>1. /\ Len(m.heap) \in Nat /\ Len(m.env) \in Nat /\ Len(m.trail) \in Nat
      /\ Len(n.heap) \in Nat /\ Len(n.env) \in Nat /\ Len(n.trail) \in Nat
  BY Registers
<1>2. /\ 1..Len(m.env) \subseteq 1..Len(n.env) /\ 1..Len(m.heap) + 1 \subseteq 1..Len(n.heap) + 1
      /\ 1..Len(m.trail) \subseteq 1..Len(n.trail) /\ 0..Len(m.env) \subseteq 0..Len(n.env)
      /\ 0..Len(m.heap) \subseteq 0..Len(n.heap)
  BY <1>1
<1> QED  BY <1>2 DEF SavedRegisters

LEMMA SavedTyped ==
  ASSUME NEW m, IsMemory(m), NEW r \in SavedRegisters(m)
  PROVE  /\ r.h \in Nat /\ r.eb \in Nat /\ r.tr \in Nat /\ r.hf \in Nat /\ r.ef \in Nat /\ r.trf \in Nat
         /\ r.tr \in 1..Len(m.trail) /\ r.h \in 1..Len(m.heap) + 1 /\ r.eb \in 1..Len(m.env)
         /\ r.hf \in 1..Len(m.heap) + 1 /\ r.ef \in 0..Len(m.env) /\ r.trf \in 1..Len(m.trail)
         /\ r.template \in 0..Len(m.heap)
BY Registers DEF SavedRegisters

LEMMA ChoicePointTyped ==
  ASSUME NEW m, IsMemory(m), NEW t \in 0..Len(m.heap)
  PROVE  LET r == ChoicePointOf(m, t) IN
         /\ r \in SavedRegisters(m)
         /\ r.h = m.h /\ r.eb = m.eb /\ r.tr = m.tr /\ r.hf = m.hf /\ r.ef = m.ef /\ r.trf = m.trf
<1>1. /\ m.h \in 1..Len(m.heap) + 1 /\ m.hf \in 1..Len(m.heap) + 1
      /\ m.e \in 1..Len(m.env) /\ m.eb \in 1..Len(m.env) /\ m.ef \in 0..Len(m.env)
      /\ m.tr \in 1..Len(m.trail) /\ m.trf \in 1..Len(m.trail) /\ m.at \in CodePoint
  BY MemoryFields
<1> QED  BY <1>1 DEF ChoicePointOf, SavedRegisters

\* Memory grows, and at most one choice point's registers are written.
LEMMA TypeStays ==
  ASSUME MemoryTypeOK, NEW n, n = mem', IsMemory(n),
         Len(mem.heap) <= Len(n.heap), Len(mem.env) <= Len(n.env), Len(mem.trail) <= Len(n.trail),
         \/ saved' = saved /\ Len(cps') <= Len(saved)
         \/ \E k \in 1..Len(saved) + 1, r \in SavedRegisters(n) : saved' = Put(saved, k, r) /\ Len(cps') <= k,
         Len(cps') \in Nat
  PROVE  MemoryTypeOK'
<1>1. IsMemory(mem) /\ IsSeq(saved) /\ Len(saved) \in Nat
  BY SeqParts DEF MemoryTypeOK
<1>2. \A c \in 1..Len(saved) : saved[c] \in SavedRegisters(n)
  BY <1>1, SavedStays DEF MemoryTypeOK
<1>3. CASE saved' = saved /\ Len(cps') <= Len(saved)
  BY <1>1, <1>2, <1>3 DEF MemoryTypeOK
<1>4. ASSUME NEW k \in 1..Len(saved) + 1, NEW r \in SavedRegisters(n), saved' = Put(saved, k, r), Len(cps') <= k
      PROVE  MemoryTypeOK'
  <2> PICK f : f = saved'
    OBVIOUS
  <2>1. /\ IsSeq(f) /\ Len(f) = (IF k = Len(saved) + 1 THEN k ELSE Len(saved))
        /\ f[k] = r /\ \A j \in 1..Len(saved) : j # k => f[j] = saved[j]
    BY <1>1, <1>4, PutIs
  <2>2. \A c \in 1..Len(f) : f[c] \in SavedRegisters(n)
    <3> TAKE c \in 1..Len(f)
    <3>1. CASE c = k
      BY <1>4, <2>1, <3>1
    <3>2. CASE c # k
      <4>1. c \in 1..Len(saved)
        BY <1>1, <2>1, <3>2
      <4> QED  BY <1>2, <2>1, <3>2, <4>1
    <3> QED  BY <3>1, <3>2
  <2>3. Len(f) >= Len(cps')
    BY <1>1, <1>4, <2>1
  <2> QED  BY <2>1, <2>2, <2>3 DEF MemoryTypeOK
<1> QED  BY <1>3, <1>4

(* Above the generators. *)

\* Memory m lies above the generators of the tables G, its stacks as hb and eb bound them,
\* and the heap as it is used.
Over(G, m) ==
  \A s \in G : Base(s).tr \in Path(m, m.tr) /\ Base(s).h <= m.hb /\ Base(s).eb <= m.eb
Uses(G, m) == \A s \in G : Base(s).h <= m.h
Generators == {s \in Subgoal : Generating(s)}

\* Where the choice points of open tables are, and what they hold.
LEMMA OpenSaved ==
  ASSUME EngineInv, MemoryTypeOK
  PROVE  /\ top_of_cpstack \in Nat /\ top_of_cpstack \in 1..Len(saved) /\ Len(saved) \in Nat
         /\ \A i \in 1..top_of_cpstack : /\ i \in 1..Len(saved) /\ saved[i] \in SavedRegisters(mem)
                                         /\ saved[i].tr \in 1..Len(mem.trail) /\ saved[i].h \in Nat
                                         /\ saved[i].eb \in Nat /\ saved[i].tr \in Nat
                                         /\ saved[i].h \in 1..Len(mem.heap) + 1 /\ saved[i].eb \in 1..Len(mem.env)
         /\ \A s \in Subgoal : OpenTable(s) =>
              /\ sf[s].cp \in 2..top_of_cpstack /\ sf[s].cp \in 1..top_of_cpstack
              /\ sf[s].frame \in 1..openreg /\ openreg \in Nat
         /\ \A c \in SuspendedCalls : c \in 1..top_of_cpstack /\ c <= bfreg
<1>1. Typed /\ StackInv /\ OrderInv
  BY DEF EngineInv, OrderInv
<1>2. top_of_cpstack \in 1..Len(cps) /\ Len(cps) \in Nat /\ IsSeq(saved) /\ Len(saved) >= Len(cps)
  BY <1>1, Tops DEF MemoryTypeOK
<1>3. top_of_cpstack \in Nat /\ top_of_cpstack \in 1..Len(saved) /\ Len(saved) \in Nat
  BY <1>2, SeqParts
<1>4. \A i \in 1..top_of_cpstack : i \in 1..Len(saved) /\ saved[i] \in SavedRegisters(mem)
  BY <1>3 DEF MemoryTypeOK
<1>5. \A i \in 1..top_of_cpstack : /\ saved[i].tr \in 1..Len(mem.trail) /\ saved[i].h \in Nat
                                   /\ saved[i].eb \in Nat /\ saved[i].tr \in Nat
                                   /\ saved[i].h \in 1..Len(mem.heap) + 1 /\ saved[i].eb \in 1..Len(mem.env)
  BY <1>4, SavedTyped DEF MemoryTypeOK
<1>6. \A s \in Subgoal : OpenTable(s) => /\ sf[s].cp \in 2..top_of_cpstack
                                         /\ sf[s].frame \in 1..openreg /\ openreg \in Nat
  BY <1>1, OpenTyped
<1>7. \A c \in SuspendedCalls : c \in 1..top_of_cpstack /\ c <= bfreg
  <2> TAKE c \in SuspendedCalls
  <2>1. PICK t \in Subgoal : OpenTable(t) /\ c \in Consumers(t)
    BY DEF SuspendedCalls
  <2>2. c \in 2..top_of_cpstack /\ c <= bfreg
    BY <1>1, <2>1, OnStack
  <2> QED  BY <2>2
<1>8. \A i \in 2..top_of_cpstack : i \in 1..top_of_cpstack
  OBVIOUS
<1> QED  BY <1>3, <1>4, <1>5, <1>6, <1>7, <1>8

LEMMA OverOnward ==
  ASSUME EngineInv, MemoryTypeOK, NEW G \in SUBSET Generators,
         NEW m, IsMemory(m), Over(G, m), Uses(G, m), NEW n, Onward(m, n)
  PROVE  Over(G, n) /\ Uses(G, n) /\ \A t \in 1..Upto(m) : Path(n, t) = Path(m, t)
<1>1. IsMemory(n) /\ m.h <= n.h /\ m.eb <= n.eb /\ (n.hb = m.hb \/ m.h <= n.hb) /\ m.tr \in Path(n, n.tr)
  BY DEF Onward
<1>2. \A t \in 1..Upto(m) : Path(n, t) = Path(m, t)
  <2>1. PICK b \in Nat : b = Upto(m)
    BY UptoIs
  <2>2. b <= Len(m.trail) /\ b <= Len(n.trail) /\ \A i \in 1..b : n.trail[i] = m.trail[i]
    <3>1. Upto(m) \in 1..Len(m.trail) /\ Upto(n) \in 1..Len(n.trail) /\ Upto(m) <= Upto(n)
      BY <1>1, UptoIs DEF Onward
    <3>2. Len(m.trail) \in Nat /\ Len(n.trail) \in Nat
      BY <1>1, Registers
    <3> QED  BY <2>1, <3>1, <3>2 DEF Onward
  <2>3. \A i \in 1..b : Path(n, i) = Path(m, i)
    BY <1>1, <2>1, <2>2, PathStays
  <2> QED  BY <2>1, <2>3
<1>3. m.tr \in 1..Upto(m) /\ Path(n, m.tr) \subseteq Path(n, n.tr)
  <2>1. m.tr \in 1..Upto(m)
    BY Registers, UptoIs
  <2>2. n.tr \in 1..Len(n.trail)
    BY <1>1, Registers
  <2>3. Path(n, m.tr) \subseteq Path(n, n.tr)
    BY <1>1, <2>2, PathDown
  <2> QED  BY <2>1, <2>3
<1>4. m.h \in Nat /\ m.hb \in Nat /\ m.eb \in Nat /\ n.h \in Nat /\ n.hb \in Nat /\ n.eb \in Nat
  BY <1>1, Registers
<1>5. ASSUME NEW s \in G
      PROVE  /\ Base(s).tr \in Path(n, n.tr) /\ Base(s).h <= n.hb /\ Base(s).eb <= n.eb /\ Base(s).h <= n.h
  <2>1. Base(s).tr \in Path(m, m.tr) /\ Base(s).h <= m.hb /\ Base(s).eb <= m.eb /\ Base(s).h <= m.h
    BY DEF Over, Uses
  <2>2. Base(s).h \in Nat /\ Base(s).eb \in Nat
    BY OpenSaved DEF Generating, Generators, Base
  <2>3. Base(s).tr \in Path(n, n.tr)
    BY <1>2, <1>3, <2>1
  <2>4. Base(s).eb <= n.eb /\ Base(s).h <= n.h
    BY <1>1, <1>4, <2>1, <2>2, AtMostTwice, Zenon
  <2>5. Base(s).h <= n.hb
    <3>1. CASE n.hb = m.hb
      BY <2>1, <3>1
    <3>2. CASE m.h <= n.hb
      BY <1>4, <2>1, <2>2, <3>2, AtMostTwice, Zenon
    <3> QED  BY <1>1, <3>1, <3>2
  <2> QED  BY <2>3, <2>4, <2>5
<1> QED  BY <1>2, <1>5 DEF Over, Uses

(* What is pushed above the generators, and what is left as it was. *)

\* The choice point that holds the registers r is above the generators of the tables G.
Above(G, m, r) == \A s \in G : Base(s).h <= r.h /\ Base(s).eb <= r.eb /\ Base(s).tr \in Path(m, r.tr)
\* Memory n comes after a choice point that holds r.
ComesAfter(n, r) == r.tr \in Path(n, n.tr) /\ r.h <= n.hb /\ r.eb <= n.eb

LEMMA AboveStays ==
  ASSUME MemoryInv, NEW n, n = mem', IsMemory(n),
         NEW T \in Nat, NEW U \in Nat, U = top_of_cpstack', T <= top_of_cpstack, U <= T + 1,
         \A i \in 1..T : saved'[i] = saved[i],
         NEW r, r.tr \in 1..Len(n.trail), U = T + 1 => saved'[T + 1] = r,
         NEW G \in SUBSET Generators, Over(G, n), Above(G, n, r), running' => Uses(G, n),
         \A s \in G : sf'[s].cp = sf[s].cp /\ sf[s].cp <= T /\ Path(n, Base(s).tr) = Path(mem, Base(s).tr),
         \A s \in Subgoal : Generating(s)' =>
           \/ s \in G
           \/ U = T + 1 /\ sf'[s].cp = T + 1 /\ ComesAfter(n, r) /\ (running' => r.h <= n.h),
         \A c \in SuspendedCalls' :
           \/ U = T + 1 /\ c = T + 1
           \/ /\ c \in 1..T /\ Path(n, saved[c].tr) = Path(mem, saved[c].tr)
              /\ c \in SuspendedCalls \/ \E t \in Generators : c = sf[t].cp
  PROVE  TrailAboveGenerators' /\ StacksAboveGenerators'
<1>1. TrailAboveGenerators /\ StacksAboveGenerators /\ top_of_cpstack \in Nat
      /\ \A s \in Generators : s \in Subgoal /\ Generating(s) /\ sf[s].cp \in 1..top_of_cpstack
  BY OpenSaved DEF MemoryInv, FreezeInv, Generators, Generating
<1>2. ASSUME NEW s \in G
      PROVE  /\ s \in Subgoal /\ Generating(s) /\ sf'[s].cp = sf[s].cp /\ sf[s].cp \in 1..T
             /\ saved'[sf'[s].cp] = Base(s) /\ Path(n, Base(s).tr) = Path(mem, Base(s).tr)
  BY <1>1 DEF Base
<1>3. ASSUME NEW s \in Subgoal, Generating(s)'
      PROVE  \/ s \in G
             \/ U = T + 1 /\ sf'[s].cp = T + 1 /\ saved'[sf'[s].cp] = r /\ ComesAfter(n, r) /\ (running' => r.h <= n.h)
  BY <1>3
<1>4. ASSUME NEW s \in Subgoal, Generating(s)'
      PROVE  LET b == saved'[sf'[s].cp] IN
             /\ b.tr \in Path(n, n.tr)
             /\ \A c \in SuspendedCalls' : sf'[s].cp < c => b.tr \in Path(n, saved'[c].tr)
             /\ \A t \in Subgoal : Generating(t)' /\ sf'[s].cp < sf'[t].cp => b.tr \in Path(n, saved'[sf'[t].cp].tr)
             /\ b.h <= n.hb /\ b.eb <= n.eb /\ (running' => b.h <= n.h)
             /\ \A i \in sf'[s].cp + 1..U : b.h <= saved'[i].h /\ b.eb <= saved'[i].eb /\ b.tr <= saved'[i].tr
  <2>1. CASE s \in G
    <3>1. /\ sf'[s].cp = sf[s].cp /\ sf[s].cp \in 1..T /\ sf[s].cp \in Nat /\ saved'[sf'[s].cp] = Base(s)
          /\ Generating(s)
      BY <1>2, <2>1
    <3>2. Base(s).tr \in Path(n, n.tr) /\ Base(s).h <= n.hb /\ Base(s).eb <= n.eb /\ (running' => Base(s).h <= n.h)
      BY <2>1 DEF Over, Uses
    <3>3. Base(s).h <= r.h /\ Base(s).eb <= r.eb /\ Base(s).tr \in Path(n, r.tr)
      BY <2>1 DEF Above
    <3>4. ASSUME NEW c \in SuspendedCalls', sf[s].cp < c
          PROVE  Base(s).tr \in Path(n, saved'[c].tr)
      <4>1. CASE U = T + 1 /\ c = T + 1
        BY <3>3, <4>1
      <4>2. CASE /\ c \in 1..T /\ Path(n, saved[c].tr) = Path(mem, saved[c].tr)
                 /\ c \in SuspendedCalls \/ \E t \in Generators : c = sf[t].cp
        <5>1. Base(s).tr \in Path(mem, saved[c].tr)
          <6>1. CASE c \in SuspendedCalls
            BY <1>1, <3>1, <3>4, <6>1 DEF TrailAboveGenerators
          <6>2. CASE \E t \in Generators : c = sf[t].cp
            BY <1>1, <3>1, <3>4, <6>2 DEF TrailAboveGenerators, Base
          <6> QED  BY <4>2, <6>1, <6>2
        <5> QED  BY <4>2, <5>1
      <4> QED  BY <4>1, <4>2
    <3>5. ASSUME NEW t \in Subgoal, Generating(t)', sf[s].cp < sf'[t].cp
          PROVE  Base(s).tr \in Path(n, saved'[sf'[t].cp].tr)
      <4>1. CASE t \in G
        BY <1>1, <1>2, <3>1, <3>5, <4>1 DEF TrailAboveGenerators
      <4>2. CASE saved'[sf'[t].cp] = r
        BY <3>3, <4>2
      <4> QED  BY <1>3, <3>5, <4>1, <4>2
    <3>6. ASSUME NEW i \in sf[s].cp + 1..U
          PROVE  Base(s).h <= saved'[i].h /\ Base(s).eb <= saved'[i].eb /\ Base(s).tr <= saved'[i].tr
      <4>1. CASE i <= T
        <5>1. i \in sf[s].cp + 1..top_of_cpstack /\ saved'[i] = saved[i]
          BY <1>1, <3>1, <4>1
        <5> QED  BY <3>1, <5>1, <1>1 DEF StacksAboveGenerators
      <4>2. CASE ~ i <= T
        <5>1. i = T + 1 /\ U = T + 1
          BY <3>1, <4>2
        <5>2. Base(s).tr <= r.tr
          <6>1. Base(s).tr \in 1..r.tr
            BY <3>3, PathDown
          <6> QED  BY <6>1
        <5> QED  BY <3>3, <5>1, <5>2
      <4> QED  BY <4>1, <4>2
    <3> QED  BY <3>1, <3>2, <3>4, <3>5, <3>6
  <2>2. CASE U = T + 1 /\ sf'[s].cp = T + 1 /\ saved'[sf'[s].cp] = r /\ ComesAfter(n, r) /\ (running' => r.h <= n.h)
    <3>1. \A c \in SuspendedCalls' : c <= T + 1 /\ c \in Nat
      OBVIOUS
    <3>2. \A t \in Subgoal : Generating(t)' => sf'[t].cp <= T + 1
      BY <1>2, <1>3
    <3>3. sf'[s].cp = T + 1 /\ U = T + 1 /\ saved'[sf'[s].cp] = r
      BY <2>2
    <3>4. \A c \in SuspendedCalls' : ~ sf'[s].cp < c
      BY <3>1, <3>3
    <3>5. \A t \in Subgoal : Generating(t)' => ~ sf'[s].cp < sf'[t].cp
      <4>1. \A t \in Subgoal : Generating(t)' => sf'[t].cp \in 1..T + 1
        BY <1>2, <1>3
      <4> QED  BY <3>3, <4>1
    <3>6. sf'[s].cp + 1..U = {}
      BY <3>3
    <3> QED  BY <2>2, <3>3, <3>4, <3>5, <3>6 DEF ComesAfter
  <2> QED  BY <1>3, <1>4, <2>1, <2>2
<1> QED  BY <1>4 DEF TrailAboveGenerators, StacksAboveGenerators, Base

\* The registers r are those of memory between m and n.
Saves(m, n, r) == \E p : Onward(m, p) /\ Onward(p, n) /\ r.h = p.h /\ r.eb = p.eb /\ r.tr = p.tr

LEMMA SavesIsAbove ==
  ASSUME EngineInv, MemoryTypeOK, NEW G \in SUBSET Generators, NEW m, IsMemory(m), Over(G, m), Uses(G, m),
         NEW n, NEW r, Saves(m, n, r)
  PROVE  Above(G, n, r) /\ r.tr \in 1..Len(n.trail) /\ r.tr \in Path(n, n.tr)
<1>1. PICK p : Onward(m, p) /\ Onward(p, n) /\ r.h = p.h /\ r.eb = p.eb /\ r.tr = p.tr
  BY DEF Saves
<1>2. IsMemory(p) /\ IsMemory(n) /\ p.tr \in Path(n, n.tr)
  BY <1>1 DEF Onward
<1>3. \A s \in G : Base(s).tr \in Path(p, p.tr) /\ Base(s).h <= p.h /\ Base(s).eb <= p.eb
  <2>1. Over(G, p) /\ Uses(G, p)
    BY <1>1, OverOnward
  <2> QED  BY <2>1 DEF Over, Uses
<1>4. p.tr \in 1..Upto(p) /\ p.tr \in Nat /\ p.tr <= Upto(p) /\ Upto(p) \in Nat
  BY <1>2, Registers, UptoIs
<1>5. Path(n, p.tr) = Path(p, p.tr) /\ p.tr \in 1..Len(n.trail)
  <2>1. Upto(p) <= Upto(n) /\ Upto(n) \in Nat /\ Upto(n) \in 1..Len(n.trail) /\ Len(n.trail) \in Nat
    BY <1>1, <1>2, UptoIs, Registers DEF Onward
  <2>2. Upto(p) <= Len(n.trail) /\ Upto(p) <= Len(p.trail)
    <3>1. Upto(p) \in 1..Len(p.trail) /\ Len(p.trail) \in Nat
      BY <1>2, UptoIs, Registers
    <3> QED  BY <2>1, <3>1
  <2>3. \A i \in 1..Upto(p) : n.trail[i] = p.trail[i]
    BY <1>1 DEF Onward
  <2>4. \A i \in 1..Upto(p) : Path(n, i) = Path(p, i)
    <3>1. PICK b \in Nat : b = Upto(p)
      BY <1>4
    <3>2. \A i \in 1..b : Path(n, i) = Path(p, i)
      BY <1>2, <2>2, <2>3, <3>1, PathStays
    <3> QED  BY <3>1, <3>2
  <2>5. p.tr \in 1..Len(n.trail)
    BY <1>4, <2>1, <2>2
  <2> QED  BY <1>4, <2>4, <2>5
<1> QED  BY <1>1, <1>2, <1>3, <1>5 DEF Above

\* The open tables stay as they are, but for generators that become consumers.
KeepsOpen ==
  \A t \in Subgoal :
    /\ OpenTable(t)' <=> OpenTable(t)
    /\ OpenTable(t) => /\ sf'[t].cp = sf[t].cp /\ sf'[t].frame = sf[t].frame /\ Consumers(t)' = Consumers(t)
                       /\ Leads(t)' <=> Leads(t)
                       /\ IsGenerator(sf[t].cp)' => IsGenerator(sf[t].cp)

LEMMA OpenKept ==
  ASSUME KeepsOpen
  PROVE  /\ SuspendedCalls' = SuspendedCalls
         /\ \A t \in Subgoal : Generating(t)' => Generating(t) /\ sf'[t].cp = sf[t].cp
<1>1. \A t \in Subgoal : Generating(t)' => Generating(t) /\ sf'[t].cp = sf[t].cp
  BY DEF KeepsOpen, Generating
<1>2. \A t \in Subgoal : /\ OpenTable(t)' <=> OpenTable(t)
                         /\ OpenTable(t) => Consumers(t)' = Consumers(t)
  BY DEF KeepsOpen
<1>3. ASSUME NEW c
      PROVE  c \in SuspendedCalls' <=> c \in SuspendedCalls
  BY <1>2 DEF SuspendedCalls
<1> QED  BY <1>1, <1>3

LEMMA FrozenStays ==
  ASSUME MemoryInv, KeepsOpen, NEW n, n = mem', SameFrozen(mem, n),
         \A i \in 1..top_of_cpstack : saved'[i] = saved[i]
  PROVE  DependentIsFrozen' /\ FreezeRegisters'
<1>1. DependentIsFrozen /\ FreezeRegisters
  BY DEF MemoryInv, FreezeInv
<1>2. \A t \in Subgoal : OpenTable(t) => sf[t].cp \in 1..top_of_cpstack
  BY OpenSaved DEF MemoryInv
<1>3. \A c \in SuspendedCalls : saved'[c] = saved[c]
  BY OpenSaved DEF MemoryInv
<1>4. /\ SuspendedCalls' = SuspendedCalls
      /\ \A t \in Subgoal : Generating(t)' => Generating(t) /\ sf'[t].cp = sf[t].cp
  BY OpenKept
<1>5. \A t \in Subgoal : OpenTable(t)' => saved'[sf'[t].cp] = Base(t)
  BY <1>2 DEF KeepsOpen, Base
<1>6. n.hf = mem.hf /\ n.ef = mem.ef /\ n.trf = mem.trf
  BY DEF SameFrozen
<1>7. DependentIsFrozen'
  <2>1. ASSUME NEW s \in Subgoal, OpenTable(s)', ~ Leads(s)'
        PROVE  /\ Frozen(s, mem.hf, mem.ef, mem.trf) /\ saved'[sf'[s].cp] = Base(s)
               /\ \A t \in Subgoal : OpenTable(t)' /\ Leads(t)' /\ sf'[s].frame < sf'[t].frame =>
                    Frozen(s, Base(t).hf, Base(t).ef, Base(t).trf) /\ saved'[sf'[t].cp] = Base(t)
    BY <1>1, <1>5, <2>1 DEF DependentIsFrozen, KeepsOpen
  <2> QED  BY <1>6, <2>1 DEF DependentIsFrozen, Frozen, Base
<1>8. FreezeRegisters'
  <2>1. Freezes(n.hf, n.ef, n.trf, SuspendedCalls)'
    BY <1>1, <1>3, <1>4, <1>6 DEF FreezeRegisters, Freezes
  <2>2. ASSUME NEW s \in Subgoal, Generating(s)'
        PROVE  Freezes(Base(s).hf, Base(s).ef, Base(s).trf, {c \in SuspendedCalls : c < sf[s].cp})'
    <3>1. /\ Generating(s) /\ sf'[s].cp = sf[s].cp /\ Base(s)' = Base(s)
          /\ Freezes(Base(s).hf, Base(s).ef, Base(s).trf, {c \in SuspendedCalls : c < sf[s].cp})
      BY <1>1, <1>4, <1>5, <2>2 DEF FreezeRegisters, Base, Generating
    <3> QED  BY <1>3, <1>4, <3>1 DEF Freezes
  <2> QED  BY <2>1, <2>2 DEF FreezeRegisters
<1> QED  BY <1>7, <1>8

LEMMA PathsKept ==
  ASSUME EngineInv, MemoryTypeOK, NEW m, IsMemory(m), m.trail = mem.trail,
         NEW n, n = m \/ Onward(m, n), NEW G \in SUBSET Generators, Over(G, m)
  PROVE  /\ \A t \in 1..m.trf : Path(n, t) = Path(mem, t)
         /\ \A s \in G : Path(n, Base(s).tr) = Path(mem, Base(s).tr)
<1>1. IsMemory(mem) /\ m.tr \in Nat /\ m.trf \in Nat /\ Upto(m) \in Nat /\ m.tr <= Upto(m) /\ m.trf <= Upto(m)
      /\ Upto(m) \in 1..Len(m.trail) /\ Len(m.trail) \in Nat
  BY Registers, UptoIs DEF MemoryTypeOK
<1>2. \A t \in 1..Upto(m) : Path(m, t) = Path(mem, t)
  <2>1. PICK b \in Nat : b = Upto(m)
    BY <1>1
  <2>2. b <= Len(m.trail) /\ b <= Len(mem.trail) /\ \A i \in 1..b : m.trail[i] = mem.trail[i]
    BY <1>1, <2>1
  <2>3. \A t \in 1..b : Path(m, t) = Path(mem, t)
    BY <1>1, <2>2, PathStays
  <2> QED  BY <2>1, <2>3
<1>3. \A t \in 1..Upto(m) : Path(n, t) = Path(m, t)
  <2>1. CASE n = m
    BY <2>1
  <2>2. CASE Onward(m, n)
    <3>1. PICK b \in Nat : b = Upto(m)
      BY <1>1
    <3>2. IsMemory(n) /\ Len(n.trail) \in Nat /\ Upto(n) \in 1..Len(n.trail) /\ b <= Upto(n)
      BY <2>2, <3>1, Registers, UptoIs DEF Onward
    <3>3. b <= Len(m.trail) /\ b <= Len(n.trail)
      BY <1>1, <3>1, <3>2
    <3>4. \A i \in 1..b : n.trail[i] = m.trail[i]
      BY <2>2, <3>1 DEF Onward
    <3>5. \A t \in 1..b : Path(n, t) = Path(m, t)
      BY <3>2, <3>3, <3>4, PathStays
    <3> QED  BY <3>1, <3>5
  <2> QED  BY <2>1, <2>2
<1>4. \A t \in 1..m.trf : Path(n, t) = Path(mem, t)
  BY <1>1, <1>2, <1>3
<1>5. ASSUME NEW s \in G
      PROVE  Base(s).tr \in 1..Upto(m)
  <2>1. m.tr \in 1..Len(m.trail)
    BY Registers
  <2>2. Base(s).tr \in 1..m.tr
    BY <2>1, PathDown DEF Over
  <2> QED  BY <1>1, <2>2
<1> QED  BY <1>2, <1>3, <1>4, <1>5

LEMMA SuspendedTrails ==
  ASSUME MemoryInv, NEW c \in SuspendedCalls
  PROVE  c \in 1..top_of_cpstack /\ saved[c].tr \in 1..mem.trf /\ saved[c].h <= mem.hf /\ saved[c].eb <= mem.ef
<1>1. c \in 1..top_of_cpstack /\ saved[c].tr \in 1..Len(mem.trail)
  BY OpenSaved DEF MemoryInv
<1>2. saved[c].tr <= mem.trf /\ saved[c].h <= mem.hf /\ saved[c].eb <= mem.ef
  BY DEF MemoryInv, FreezeInv, FreezeRegisters, Freezes
<1>3. mem.trf \in Nat /\ Len(mem.trail) \in Nat
  BY Registers DEF MemoryInv, MemoryTypeOK
<1> QED  BY <1>1, <1>2, <1>3

\* What leaves the open tables as they are: backtracking and going on from there.
LEMMA QuietFreeze ==
  ASSUME MemoryInv, KeepsOpen, NEW T \in Nat, T = top_of_cpstack, NEW U \in Nat, U = top_of_cpstack',
         \A i \in 1..T : saved'[i] = saved[i],
         NEW m, IsMemory(m), m.trail = mem.trail, SameFrozen(mem, m), Over(Generators, m), NEW n, n = mem',
         \/ n = m /\ ~ running' /\ U <= T
         \/ /\ Uses(Generators, m) /\ Onward(m, n) /\ SameFrozen(m, n)
            /\ U <= T \/ (U = T + 1 /\ Saves(m, n, saved'[T + 1]))
  PROVE  FreezeInv'
<1>1. EngineInv /\ MemoryTypeOK /\ Generators \in SUBSET Generators
  BY DEF MemoryInv
<1>2. IsMemory(n) /\ SameFrozen(mem, n) /\ Over(Generators, n) /\ (running' => Uses(Generators, n))
  <2>1. CASE n = m /\ ~ running'
    BY <2>1
  <2>2. CASE Uses(Generators, m) /\ Onward(m, n) /\ SameFrozen(m, n)
    <3>1. Over(Generators, n) /\ Uses(Generators, n)
      BY <1>1, <2>2, OverOnward
    <3> QED  BY <2>2, <3>1 DEF Onward, SameFrozen
  <2> QED  BY <2>1, <2>2
<1>3. /\ \A t \in 1..m.trf : Path(n, t) = Path(mem, t)
      /\ \A s \in Generators : Path(n, Base(s).tr) = Path(mem, Base(s).tr)
  BY <1>1, PathsKept
<1>4. m.trf = mem.trf
  BY DEF SameFrozen
<1>5. \A c \in SuspendedCalls : c \in 1..T /\ Path(n, saved[c].tr) = Path(mem, saved[c].tr)
  BY <1>3, <1>4, SuspendedTrails
<1>6. \A s \in Generators : s \in Subgoal /\ Generating(s) /\ sf[s].cp \in 1..T
  BY <1>1, OpenSaved DEF Generators, Generating
<1>7. \A s \in Generators : sf'[s].cp = sf[s].cp /\ sf[s].cp <= T
  BY <1>6 DEF KeepsOpen, Generating
<1>8. SuspendedCalls' = SuspendedCalls /\ \A s \in Subgoal : Generating(s)' => s \in Generators
  BY OpenKept DEF Generators
<1>9. PICK r : /\ r.tr \in 1..Len(n.trail) /\ Above(Generators, n, r)
               /\ U <= T \/ (U = T + 1 /\ saved'[T + 1] = r)
  <2>1. CASE U <= T
    <3>1. n.tr \in 1..Len(n.trail)
      BY <1>2, Registers
    <3>2. PICK r : r = [tr |-> n.tr, h |-> n.hb, eb |-> n.eb]
      OBVIOUS
    <3>3. Above(Generators, n, r)
      BY <1>2, <3>2 DEF Above, Over
    <3> QED  BY <2>1, <3>1, <3>2, <3>3
  <2>2. CASE ~ U <= T
    <3>1. Uses(Generators, m) /\ U = T + 1 /\ Saves(m, n, saved'[T + 1])
      BY <2>2
    <3>2. PICK r : r = saved'[T + 1]
      OBVIOUS
    <3>3. Above(Generators, n, r) /\ r.tr \in 1..Len(n.trail)
      BY <1>1, <3>1, <3>2, SavesIsAbove
    <3> QED  BY <3>1, <3>2, <3>3
  <2> QED  BY <2>1, <2>2
<1>10. TrailAboveGenerators' /\ StacksAboveGenerators'
  <2>1. T <= top_of_cpstack /\ U <= T + 1 /\ (U = T + 1 => saved'[T + 1] = r)
    BY <1>9
  <2>2. \A s \in Generators : sf'[s].cp = sf[s].cp /\ sf[s].cp <= T /\ Path(n, Base(s).tr) = Path(mem, Base(s).tr)
    BY <1>3, <1>7
  <2>3. \A c \in SuspendedCalls' : c \in 1..T /\ Path(n, saved[c].tr) = Path(mem, saved[c].tr) /\ c \in SuspendedCalls
    BY <1>5, <1>8
  <2> QED  BY <1>1, <1>2, <1>8, <1>9, <2>1, <2>2, <2>3, AboveStays
<1>11. DependentIsFrozen' /\ FreezeRegisters'
  BY <1>2, FrozenStays
<1> QED  BY <1>10, <1>11 DEF FreezeInv

(* Going back: to a choice point of the branch run, or of another one. *)

LEMMA OverNow ==
  ASSUME MemoryInv
  PROVE  /\ IsMemory(mem) /\ EngineInv /\ MemoryTypeOK /\ Over(Generators, mem) /\ (running => Uses(Generators, mem))
         /\ \A s \in Generators : /\ s \in Subgoal /\ Generating(s) /\ sf[s].cp \in 2..top_of_cpstack /\ sf[s].cp <= breg
                                  /\ sf[s].cp \in 1..Len(saved) /\ Base(s).h \in Nat /\ Base(s).eb \in Nat /\ Base(s).tr \in Nat
<1>1. /\ EngineInv /\ MemoryTypeOK /\ IsMemory(mem) /\ TrailAboveGenerators /\ StacksAboveGenerators
      /\ Typed /\ WaitsBelow(breg, top_of_cpstack)
  BY DEF MemoryInv, FreezeInv, MemoryTypeOK, EngineInv, OrderInv, StackInv, Stacked
<1>2. ASSUME NEW s \in Generators
      PROVE  /\ s \in Subgoal /\ Generating(s) /\ sf[s].cp \in 2..top_of_cpstack /\ sf[s].cp \in 1..top_of_cpstack /\ sf[s].cp \in 1..Len(saved)
             /\ Base(s).h \in Nat /\ Base(s).eb \in Nat /\ Base(s).tr \in Nat
             /\ IsGenerator(sf[s].cp)
  BY <1>1, OpenSaved DEF Generators, Generating, Base
<1>3. \A s \in Generators : sf[s].cp <= breg
  BY <1>1, <1>2 DEF WaitsBelow, Waits
<1> QED  BY <1>1, <1>2, <1>3 DEF Over, Uses, TrailAboveGenerators, StacksAboveGenerators

\* Whatever else changes.
LEMMA OverAlike ==
  ASSUME NEW G, NEW m, IsMemory(m), Over(G, m), NEW n, IsMemory(n), n.trail = m.trail, n.tr = m.tr,
         \A s \in G : Base(s).h <= n.hb /\ Base(s).eb <= n.eb
  PROVE  Over(G, n)
<1>1. m.tr \in 1..Len(m.trail) /\ Len(m.trail) \in Nat
  BY Registers
<1>2. Path(n, m.tr) = Path(m, m.tr)
  <2>1. PICK b \in Nat : b = Len(m.trail)
    BY <1>1
  <2>2. \A i \in 1..b : Path(n, i) = Path(m, i)
    BY <2>1, PathStays
  <2> QED  BY <1>1, <2>1, <2>2
<1> QED  BY <1>2 DEF Over

LEMMA SwitchedOver ==
  ASSUME MemoryInv, NEW k, k = breg, k \in SuspendedCalls \/ \E t \in Generators : k = sf[t].cp
  PROVE  LET n == switch_envs(mem, k) IN
         Back(mem, n) /\ n.tr = saved[k].tr /\ n.h = mem.h /\ Over(Generators, n) /\ saved[k] \in SavedRegisters(mem)
<1>1. k \in 1..top_of_cpstack /\ saved[k].tr \in 1..Len(mem.trail) /\ IsMemory(mem) /\ saved[k] \in SavedRegisters(mem)
  BY OverNow, OpenSaved DEF Generators, Generating
<1>2. PICK n : n = switch_envs(mem, k)
  OBVIOUS
<1>3. Back(mem, n) /\ n.tr = saved[k].tr /\ n.h = mem.h
  BY <1>1, <1>2, SwitchBack
<1>4. ASSUME NEW s \in Generators
      PROVE  Base(s).tr \in Path(mem, saved[k].tr)
  <2>1. sf[s].cp <= k /\ s \in Subgoal /\ Generating(s) /\ sf[s].cp \in Nat
    BY OverNow
  <2>2. CASE sf[s].cp = k
    BY <1>1, <2>2, PathDown DEF Base
  <2>3. CASE sf[s].cp < k
    <3>1. TrailAboveGenerators
      BY DEF MemoryInv, FreezeInv
    <3>2. CASE k \in SuspendedCalls
      BY <2>1, <2>3, <3>1, <3>2 DEF TrailAboveGenerators
    <3>3. CASE \E t \in Generators : k = sf[t].cp
      <4>1. PICK t \in Generators : k = sf[t].cp
        BY <3>3
      <4>2. t \in Subgoal /\ Generating(t)
        BY DEF Generators
      <4> QED  BY <2>1, <2>3, <3>1, <4>1, <4>2 DEF TrailAboveGenerators, Base
    <3> QED  BY <3>2, <3>3
  <2> QED  BY <1>1, <2>1, <2>2, <2>3
<1>5. Path(n, saved[k].tr) = Path(mem, saved[k].tr)
  <2>1. IsMemory(n) /\ n.trail = mem.trail
    BY <1>3 DEF Back
  <2>2. PICK b \in Nat : b = Len(mem.trail)
    BY <1>1, Registers
  <2>3. \A i \in 1..b : Path(n, i) = Path(mem, i)
    BY <1>1, <2>1, <2>2, PathStays
  <2> QED  BY <1>1, <2>2, <2>3
<1>6. n.hb = mem.hb /\ n.eb = mem.eb /\ Over(Generators, mem)
  BY <1>3, OverNow DEF Back
<1>7. Over(Generators, n)
  BY <1>3, <1>4, <1>5, <1>6 DEF Over
<1> QED  BY <1>1, <1>2, <1>3, <1>7

LEMMA UndoneOver ==
  ASSUME MemoryInv, NEW k, k = breg, k \in 1..top_of_cpstack, ~ IsGenerator(k)
  PROVE  LET n == undo_bindings(mem, k) IN
         Back(mem, n) /\ n.h = mem.h /\ Over(Generators, n) /\ saved[k] \in SavedRegisters(mem)
<1>1. saved[k].tr \in 1..Len(mem.trail) /\ IsMemory(mem) /\ saved[k] \in SavedRegisters(mem)
  BY OverNow, OpenSaved
<1>2. PICK n : n = undo_bindings(mem, k)
  OBVIOUS
<1>3. Back(mem, n) /\ n.h = mem.h /\ \A i \in Path(mem, mem.tr) : i <= saved[k].tr => i \in Path(mem, n.tr)
  BY <1>1, <1>2, UndoBack
<1>4. ASSUME NEW s \in Generators
      PROVE  Base(s).tr <= saved[k].tr
  <2>1. sf[s].cp <= k /\ sf[s].cp # k /\ s \in Subgoal /\ Generating(s) /\ sf[s].cp \in Nat
    BY OverNow DEF Generating
  <2>2. k \in sf[s].cp + 1..top_of_cpstack
    BY <2>1
  <2>3. StacksAboveGenerators
    BY DEF MemoryInv, FreezeInv
  <2> QED  BY <2>1, <2>2, <2>3 DEF StacksAboveGenerators
<1>5. n.tr \in 1..Len(mem.trail) /\ Path(n, n.tr) = Path(mem, n.tr)
  <2>1. IsMemory(n) /\ n.trail = mem.trail
    BY <1>3 DEF Back
  <2>2. PICK b \in Nat : b = Len(mem.trail)
    BY <1>1, Registers
  <2>3. n.tr \in 1..Len(n.trail)
    BY <2>1, Registers
  <2>4. \A i \in 1..b : Path(n, i) = Path(mem, i)
    BY <1>1, <2>1, <2>2, PathStays
  <2> QED  BY <2>1, <2>2, <2>3, <2>4
<1>6. n.hb = mem.hb /\ n.eb = mem.eb /\ Over(Generators, mem)
  BY <1>3, OverNow DEF Back
<1>7. Over(Generators, n)
  BY <1>3, <1>4, <1>5, <1>6 DEF Over
<1> QED  BY <1>1, <1>2, <1>3, <1>7

LEMMA RestoredOver ==
  ASSUME MemoryInv, NEW m, Back(mem, m), Over(Generators, m), NEW k, saved[k] \in SavedRegisters(mem)
  PROVE  LET n == restore_some_wamregs(m, k) IN
         Back(mem, n) /\ n.tr = m.tr /\ Over(Generators, n) /\ Uses(Generators, n)
<1>1. IsMemory(m) /\ IsMemory(mem) /\ Len(m.heap) = Len(mem.heap) /\ Len(m.env) = Len(mem.env) /\ m.trail = mem.trail
  BY OverNow DEF Back
<1>2. saved[k] \in SavedRegisters(m)
  BY <1>1 DEF SavedRegisters
<1>3. PICK n : n = restore_some_wamregs(m, k)
  OBVIOUS
<1>4. Back(m, n) /\ n.tr = m.tr /\ n.h = Higher(m.hb, m.hf)
  BY <1>1, <1>2, <1>3, RestoreBack
<1>5. IsMemory(n) /\ n.trail = m.trail /\ n.hb = m.hb /\ n.eb = m.eb
  BY <1>4 DEF Back
<1>6. Over(Generators, n)
  BY <1>1, <1>4, <1>5, OverAlike DEF Over
<1>7. Uses(Generators, n)
  <2>1. m.hb \in Nat /\ m.hf \in Nat
    BY <1>1, Registers
  <2>2. \A s \in Generators : Base(s).h <= m.hb /\ Base(s).h \in Nat
    BY OverNow DEF Over
  <2> QED  BY <1>4, <2>1, <2>2 DEF Uses, Higher
<1>8. Back(mem, n)
  BY <1>4, BackTwice
<1> QED  BY <1>3, <1>4, <1>6, <1>7, <1>8

LEMMA ptcpOver ==
  ASSUME MemoryInv, NEW m, Back(mem, m), Over(Generators, m), NEW t \in Subgoal \cup {User}
  PROVE  LET n == [m EXCEPT !.ptcp = t] IN
         Back(mem, n) /\ n.tr = m.tr /\ n.h = m.h /\ Over(Generators, n)
<1>1. IsMemory(m)
  BY DEF Back
<1>2. PICK n : n = [m EXCEPT !.ptcp = t]
  OBVIOUS
<1>3. Back(m, n) /\ n.tr = m.tr /\ n.h = m.h
  BY <1>1, <1>2, ptcpBack
<1>4. IsMemory(n) /\ n.trail = m.trail /\ n.hb = m.hb /\ n.eb = m.eb
  BY <1>3 DEF Back
<1>5. Over(Generators, n)
  BY <1>1, <1>3, <1>4, OverAlike DEF Over
<1>6. Back(mem, n)
  BY <1>3, BackTwice
<1> QED  BY <1>2, <1>3, <1>5, <1>6

\* The heap and the local stack are what they were for the choice point b.
BoundedAt(G, m, b, n) ==
  /\ G \in SUBSET Generators /\ Back(mem, m) /\ Over(G, m)
  /\ b \in 1..top_of_cpstack /\ (\A s \in G : sf[s].cp <= b)
  /\ Bounded(m, n, saved[b].h, saved[b].eb)

LEMMA BoundedOver ==
  ASSUME MemoryInv, NEW G, NEW m, NEW b, NEW n, BoundedAt(G, m, b, n)
  PROVE  /\ IsMemory(n) /\ n.trail = mem.trail /\ SameFrozen(mem, n) /\ Over(G, n) /\ n.h = m.h /\ n.tr = m.tr
         /\ n.hb = saved[b].h /\ n.eb = saved[b].eb
         /\ Len(n.heap) = Len(mem.heap) /\ Len(n.env) = Len(mem.env)
<1>0. /\ G \in SUBSET Generators /\ Back(mem, m) /\ Over(G, m)
      /\ b \in 1..top_of_cpstack /\ (\A s \in G : sf[s].cp <= b)
      /\ Bounded(m, n, saved[b].h, saved[b].eb)
  BY DEF BoundedAt
<1>1. IsMemory(m) /\ m.trail = mem.trail /\ SameFrozen(mem, m) /\ Len(m.heap) = Len(mem.heap) /\ Len(m.env) = Len(mem.env)
  BY <1>0 DEF Back, SameFrozen
<1>2. saved[b].h \in 1..Len(m.heap) + 1 /\ saved[b].eb \in 1..Len(m.env)
  BY <1>0, <1>1, OpenSaved DEF MemoryInv
<1>4. /\ IsMemory(n) /\ n.heap = m.heap /\ n.env = m.env /\ n.trail = m.trail /\ n.tr = m.tr /\ n.h = m.h
      /\ n.hb = saved[b].h /\ n.eb = saved[b].eb /\ n.hf = m.hf /\ n.ef = m.ef /\ n.trf = m.trf
  <2>1. PICK hb, eb : hb = saved[b].h /\ eb = saved[b].eb
    OBVIOUS
  <2>2. hb \in 1..Len(m.heap) + 1 /\ eb \in 1..Len(m.env) /\ Bounded(m, n, hb, eb)
    BY <1>0, <1>2, <2>1
  <2> QED  BY <1>1, <2>1, <2>2, BoundsBack
<1>5. ASSUME NEW s \in G
      PROVE  Base(s).h <= saved[b].h /\ Base(s).eb <= saved[b].eb
  <2>1. s \in Subgoal /\ Generating(s) /\ sf[s].cp \in Nat /\ sf[s].cp <= b /\ Base(s).h \in Nat /\ Base(s).eb \in Nat
    BY <1>0, OverNow
  <2>2. CASE sf[s].cp = b
    BY <2>1, <2>2 DEF Base
  <2>3. CASE sf[s].cp # b
    <3>1. b \in sf[s].cp + 1..top_of_cpstack
      BY <1>0, <2>1, <2>3
    <3>2. StacksAboveGenerators
      BY DEF MemoryInv, FreezeInv
    <3> QED  BY <2>1, <3>1, <3>2 DEF StacksAboveGenerators
  <2> QED  BY <2>2, <2>3
<1>6. Over(G, n)
  BY <1>0, <1>1, <1>4, <1>5, OverAlike
<1>7. SameFrozen(mem, n)
  BY <1>1, <1>4 DEF SameFrozen
<1>8. /\ n.trail = mem.trail /\ n.h = m.h /\ n.tr = m.tr /\ Len(n.heap) = Len(mem.heap) /\ Len(n.env) = Len(mem.env)
      /\ n.hb = saved[b].h /\ n.eb = saved[b].eb
  BY <1>1, <1>4
<1> QED  BY <1>4, <1>6, <1>7, <1>8

(* Steps after which the same tables are open, with the same suspended calls. *)

LEMMA SameOpen ==
  ASSUME Typed, StackInv, UNCHANGED <<frames, openreg>>,
         \A t \in Subgoal : /\ sf'[t].called = sf[t].called /\ sf'[t].reclaimed = sf[t].reclaimed
                            /\ sf'[t].cp = sf[t].cp /\ sf'[t].frame = sf[t].frame /\ sf'[t].asf = sf[t].asf,
         \A i \in 1..top_of_cpstack : IsGenerator(i)' => IsGenerator(i)
  PROVE  KeepsOpen
<1>1. ASSUME NEW t \in Subgoal
      PROVE  OpenTable(t)' <=> OpenTable(t)
  BY DEF OpenTable
<1>2. ASSUME NEW t \in Subgoal, OpenTable(t)
      PROVE  /\ sf'[t].cp = sf[t].cp /\ sf'[t].frame = sf[t].frame /\ Consumers(t)' = Consumers(t)
             /\ Leads(t)' <=> Leads(t)
             /\ IsGenerator(sf[t].cp)' => IsGenerator(sf[t].cp)
  <2>1. sf[t].cp \in 1..top_of_cpstack /\ sf'[t].cp = sf[t].cp /\ sf'[t].frame = sf[t].frame
    <3>1. sf[t].cp \in 2..top_of_cpstack
      BY <1>2, OpenTyped
    <3> QED  BY <3>1
  <2>2. Consumers(t)' = Consumers(t)
    BY DEF Consumers, Range
  <2>3. Leads(t)' <=> Leads(t)
    BY <2>1 DEF Leads, is_leader
  <2>4. IsGenerator(sf[t].cp)' => IsGenerator(sf[t].cp)
    BY <2>1 DEF IsGenerator
  <2> QED  BY <2>1, <2>2, <2>3, <2>4
<1> QED  BY <1>1, <1>2 DEF KeepsOpen

LEMMA QuietMemory ==
  ASSUME MemoryInv, EngineInv', KeepsOpen, NEW T \in Nat, T = top_of_cpstack,
         NEW m, IsMemory(m), m.trail = mem.trail, SameFrozen(mem, m), Over(Generators, m),
         Len(m.heap) = Len(mem.heap), Len(m.env) = Len(mem.env), NEW n, n = mem',
         \/ n = m /\ ~ running'
         \/ Uses(Generators, m) /\ Onward(m, n) /\ SameFrozen(m, n),
         \/ saved' = saved /\ Len(cps') <= Len(saved) /\ top_of_cpstack' <= T
         \/ /\ Uses(Generators, m) /\ Onward(m, n) /\ SameFrozen(m, n)
            /\ top_of_cpstack' = T + 1 /\ Len(cps') = T + 1
            /\ \E r \in SavedRegisters(n) : saved' = Put(saved, T + 1, r) /\ Saves(m, n, r)
  PROVE  MemoryInv'
<1>1. EngineInv /\ MemoryTypeOK /\ IsMemory(mem)
  BY DEF MemoryInv, MemoryTypeOK
<1>2. IsMemory(n) /\ Len(mem.heap) <= Len(n.heap) /\ Len(mem.env) <= Len(n.env) /\ Len(mem.trail) <= Len(n.trail)
  <2>1. Len(mem.heap) \in Nat /\ Len(mem.env) \in Nat /\ Len(mem.trail) \in Nat
    BY <1>1, Registers
  <2>2. CASE n = m
    BY <2>1, <2>2
  <2>3. CASE Onward(m, n)
    BY <2>3 DEF Onward
  <2> QED  BY <2>2, <2>3
<1>3. PICK U \in Nat : U = top_of_cpstack'
  <2>1. Typed'
    BY DEF EngineInv, OrderInv
  <2>2. cps' \in Seq(Entry) /\ breg' \in 1..Len(cps') /\ bfreg' \in 1..Len(cps')
    BY <2>1 DEF Typed
  <2>3. breg' \in Nat /\ bfreg' \in Nat
    BY <2>2
  <2> QED  BY <2>3 DEF top_of_cpstack, Higher
<1>4. /\ IsSeq(saved) /\ Len(saved) \in Nat /\ DOMAIN saved = 1..Len(saved) /\ T \in 1..Len(saved)
      /\ Len(cps) \in Nat
  <2>1. IsSeq(saved) /\ Typed
    BY <1>1 DEF MemoryTypeOK, EngineInv, OrderInv
  <2> QED  BY <1>1, <2>1, SeqParts, OpenSaved, Tops
<1>5. Len(cps') \in Nat
  <2>1. cps' \in Seq(Entry)
    BY DEF EngineInv, OrderInv, Typed
  <2> QED  BY <2>1
<1>6. CASE saved' = saved /\ Len(cps') <= Len(saved) /\ U <= T
  <2>1. MemoryTypeOK'
    BY <1>1, <1>2, <1>5, <1>6, TypeStays
  <2>2. FreezeInv'
    BY <1>3, <1>6, QuietFreeze
  <2> QED  BY <2>1, <2>2 DEF MemoryInv
<1>7. ASSUME Uses(Generators, m), Onward(m, n), SameFrozen(m, n), U = T + 1, Len(cps') = T + 1,
             NEW r \in SavedRegisters(n), saved' = Put(saved, T + 1, r), Saves(m, n, r)
      PROVE  MemoryInv'
  <2>1. T + 1 \in 1..Len(saved) + 1
    BY <1>4
  <2>2. MemoryTypeOK'
    BY <1>1, <1>2, <1>5, <1>7, <2>1, TypeStays
  <2>3. saved'[T + 1] = r /\ \A i \in 1..T : saved'[i] = saved[i]
    <3>1. PICK g : g = Put(saved, T + 1, r)
      OBVIOUS
    <3>2. g[T + 1] = r /\ \A j \in 1..Len(saved) : j # T + 1 => g[j] = saved[j]
      BY <1>4, <2>1, <3>1, PutIs
    <3> QED  BY <1>4, <1>7, <3>1, <3>2
  <2>4. FreezeInv'
    BY <1>3, <1>7, <2>3, QuietFreeze
  <2> QED  BY <2>2, <2>4 DEF MemoryInv
<1> QED  BY <1>3, <1>6, <1>7

LEMMA EngineTops ==
  ASSUME EngineInv
  PROVE  /\ Typed /\ StackInv /\ OrderInv /\ TablesAreSound /\ ReturnsToCall /\ top_of_cpstack \in Nat /\ top_of_cpstack \in 1..Len(cps) /\ Len(cps) \in Nat
         /\ breg \in 1..top_of_cpstack /\ bfreg \in 1..top_of_cpstack /\ breg \in Nat /\ bfreg \in Nat
         /\ top_of_cpstack = Higher(breg, bfreg)
<1>1. Typed /\ StackInv /\ OrderInv /\ TablesAreSound /\ ReturnsToCall
  BY DEF EngineInv, OrderInv
<1>2. /\ top_of_cpstack \in 1..Len(cps) /\ breg <= top_of_cpstack /\ bfreg <= top_of_cpstack
      /\ breg \in Nat /\ bfreg \in Nat /\ Len(cps) \in Nat
      /\ breg \in 1..Len(cps) /\ bfreg \in 1..Len(cps)
  BY <1>1, Tops DEF Typed
<1>3. top_of_cpstack = Higher(breg, bfreg)
  BY DEF top_of_cpstack
<1> QED  BY <1>1, <1>2, <1>3

(* The instructions that leave the open tables as they are. *)

LEMMA UserAnswerMemory == MemoryInv /\ EngineInv' /\ UserAnswerInMemory => MemoryInv'
<1> SUFFICES ASSUME MemoryInv, EngineInv', UserAnswerInMemory
             PROVE  MemoryInv'
  OBVIOUS
<1>1. IsMemory(mem) /\ Over(Generators, mem) /\ EngineInv /\ Typed /\ StackInv /\ Len(cps) <= Len(saved)
  BY OverNow, EngineTops DEF MemoryInv, MemoryTypeOK
<1>2. UNCHANGED <<program, sf, cps, breg, bfreg, frames, openreg, mem, saved>> /\ ~ running'
  BY DEF UserAnswerInMemory, UserAnswer, Fail1, memoryVars
<1>3. KeepsOpen
  BY <1>1, <1>2, SameOpen DEF IsGenerator
<1>4. top_of_cpstack' = top_of_cpstack /\ top_of_cpstack \in Nat
  BY <1>1, <1>2, EngineTops DEF top_of_cpstack
<1>5. SameFrozen(mem, mem)
  BY DEF SameFrozen
<1> QED  BY <1>1, <1>2, <1>3, <1>4, <1>5, QuietMemory

LEMMA NewAnswerMemory ==
  ASSUME MemoryInv, EngineInv', NEW s \in Subgoal, NewAnswerInMemory(s)
  PROVE  MemoryInv'
<1>1. IsMemory(mem) /\ Over(Generators, mem) /\ EngineInv /\ Typed /\ StackInv /\ Len(cps) <= Len(saved)
      /\ (running => Uses(Generators, mem))
  BY OverNow, EngineTops DEF MemoryInv, MemoryTypeOK
<1>2. saved' = saved /\ ~ running' /\ NewAnswer(s) /\ running
  BY DEF NewAnswerInMemory, NewAnswer, Fail1
<1>3. /\ UNCHANGED <<bfreg, frames, openreg>>
      /\ \/ UNCHANGED <<sf, cps, breg>>
         \/ /\ sf' = [sf EXCEPT ![s].answers = Append(@, Gives(goal)), ![s].complete = @ \/ s \in Ground]
            /\ IF s \in Ground THEN cps' = perform_early_completion(s) /\ breg' = sf[s].cp
                               ELSE UNCHANGED <<cps, breg>>
            /\ OpenTable(s)
  <2>1. OrderInv /\ AnswersAreCounted
    BY <1>1 DEF EngineInv, WorkInv
  <2> QED  BY <1>2, <2>1, NewAnswerFacts
<1>4. \A t \in Subgoal : /\ sf'[t].called = sf[t].called /\ sf'[t].reclaimed = sf[t].reclaimed
                         /\ sf'[t].cp = sf[t].cp /\ sf'[t].frame = sf[t].frame /\ sf'[t].asf = sf[t].asf
  <2>1. CASE sf' = sf
    BY <2>1
  <2>2. CASE sf' = [sf EXCEPT ![s].answers = Append(@, Gives(goal)), ![s].complete = @ \/ s \in Ground]
    <3>1. sf \in [Subgoal -> SubgoalFrame] /\ sf[s] \in SubgoalFrame
      BY <1>1 DEF Typed
    <3>2. \A t \in Subgoal : t # s => sf'[t] = sf[t]
      BY <2>2, <3>1
    <3>3. sf'[s] = [sf[s] EXCEPT !.answers = Append(@, Gives(goal)), !.complete = @ \/ s \in Ground]
      BY <2>2, <3>1
    <3>4. /\ sf'[s].called = sf[s].called /\ sf'[s].reclaimed = sf[s].reclaimed
          /\ sf'[s].cp = sf[s].cp /\ sf'[s].frame = sf[s].frame /\ sf'[s].asf = sf[s].asf
      BY <3>1, <3>3 DEF SubgoalFrame
    <3> QED  BY <3>2, <3>4
  <2> QED  BY <1>3, <2>1, <2>2
<1>5. cps' \in Seq(Entry) /\ Len(cps') = Len(cps) /\ \A i \in 1..Len(cps) : IsGenerator(i)' => IsGenerator(i)
  <2>1. CASE cps' = cps
    BY <1>1, <2>1 DEF IsGenerator, Typed
  <2>2. CASE cps' = perform_early_completion(s) /\ OpenTable(s)
    <3>1. sf[s].cp \in 1..Len(cps) /\ (IsGenerator(sf[s].cp) \/ cps[sf[s].cp].pc = "answer_return")
      <4>1. sf[s].cp \in 2..top_of_cpstack /\ sf[s].cp \in 1..Len(cps) /\ (IsGenerator(sf[s].cp) \/ sf[s].cp \in Consumers(s))
        BY <1>1, <2>2, OpenTyped
      <4>2. CASE sf[s].cp \in Consumers(s)
        <5>1. TablesAreOnStack(top_of_cpstack)
          BY <1>1 DEF StackInv, Stacked
        <5>2. cps[sf[s].cp].pc = "answer_return"
          BY <2>2, <4>2, <5>1 DEF TablesAreOnStack
        <5> QED  BY <4>1, <5>2
      <4> QED  BY <4>1, <4>2
    <3>2. cps' = [cps EXCEPT ![sf[s].cp].pc = IF @ = "answer_return" THEN @ ELSE "check_complete"]
      BY <2>2 DEF perform_early_completion
    <3>3. cps \in Seq(Entry) /\ cps[sf[s].cp] \in Entry
      BY <1>1, <3>1, EntryTyped DEF Typed
    <3>4. cps' \in Seq(Entry)
      BY <1>2 DEF EngineInv, OrderInv, Typed
    <3>5. Len(cps') = Len(cps)
      BY <3>2, <3>3
    <3>6. \A i \in 1..Len(cps) : IsGenerator(i)' => IsGenerator(i)
      <4> TAKE i \in 1..Len(cps)
      <4>1. CASE i = sf[s].cp
        BY <3>1, <3>2, <3>3, <4>1 DEF IsGenerator
      <4>2. CASE i # sf[s].cp
        <5>1. cps'[i] = cps[i]
          BY <3>2, <3>3, <4>2
        <5> QED  BY <5>1 DEF IsGenerator
      <4> QED  BY <4>1, <4>2
    <3> QED  BY <3>4, <3>5, <3>6
  <2> QED  BY <1>3, <2>1, <2>2
<1>6. top_of_cpstack \in Nat /\ top_of_cpstack <= Len(cps) /\ top_of_cpstack' <= top_of_cpstack
  <2>1. /\ top_of_cpstack \in Nat /\ top_of_cpstack \in 1..Len(cps) /\ Len(cps) \in Nat
        /\ breg \in 1..top_of_cpstack /\ bfreg \in 1..top_of_cpstack
    BY <1>1, EngineTops
  <2>2. breg' \in 1..top_of_cpstack
    <3>1. CASE breg' = sf[s].cp /\ OpenTable(s)
      <4>1. sf[s].cp \in 2..top_of_cpstack
        BY <1>1, <3>1, OpenTyped
      <4> QED  BY <3>1, <4>1, <2>1
    <3> QED  BY <1>3, <2>1, <3>1
  <2> QED  BY <1>3, <2>1, <2>2 DEF top_of_cpstack, Higher
<1>7. KeepsOpen
  BY <1>1, <1>3, <1>4, <1>5, <1>6, SameOpen
<1>8. Onward(mem, mem') /\ SameFrozen(mem, mem')
  <2>1. PICK n : n = mem'
    OBVIOUS
  <2>2. CASE s \in Ground
    <3>1. n = mem
      BY <2>1, <2>2 DEF NewAnswerInMemory
    <3>2. SameButCells(mem, mem)
      BY <1>1 DEF SameButCells
    <3> QED  BY <1>1, <2>1, <3>1, <3>2, CellsOn
  <2>3. CASE s \notin Ground
    <3>1. PICK b : b = Build(mem, Term(Gives(goal)))
      OBVIOUS
    <3>2. n = bind(b, OnHeap(mem.env[mem.e].head), Ref(mem.h))
      BY <2>1, <2>3, <3>1 DEF NewAnswerInMemory
    <3>3. Onward(mem, b) /\ SameFrozen(mem, b) /\ IsMemory(b)
      BY <1>1, <3>1, BuildOn DEF Onward
    <3>4. Onward(b, n) /\ SameFrozen(b, n)
      BY <3>2, <3>3, BindOn
    <3>5. Onward(mem, n)
      BY <1>1, <3>3, <3>4, OnwardTwice
    <3> QED  BY <2>1, <3>3, <3>4, <3>5 DEF SameFrozen
  <2> QED  BY <2>2, <2>3
<1>9. SameFrozen(mem, mem)
  BY DEF SameFrozen
<1> QED
  <2>1. PICK n : n = mem'
    OBVIOUS
  <2>2. PICK T \in Nat : T = top_of_cpstack
    BY <1>6
  <2>3. Len(cps') <= Len(saved) /\ top_of_cpstack' <= T
    BY <1>1, <1>5, <1>6, <2>2
  <2> QED  BY <1>1, <1>2, <1>7, <1>8, <1>9, <2>1, <2>2, <2>3, QuietMemory

Called(m, t) == [m EXCEPT !.ptcp = t]
\* Memory to go on with from a choice point, on its branch of the trail.
Ready(m) ==
  /\ IsMemory(m) /\ m.trail = mem.trail /\ SameFrozen(mem, m) /\ Over(Generators, m)
  /\ Len(m.heap) = Len(mem.heap) /\ Len(m.env) = Len(mem.env)

LEMMA BackIsReady ==
  ASSUME NEW m, Back(mem, m), Over(Generators, m)
  PROVE  Ready(m)
BY DEF Ready, Back, SameFrozen

LEMMA ReadyToRun ==
  ASSUME MemoryInv, NEW m, Back(mem, m), Over(Generators, m), NEW k, saved[k] \in SavedRegisters(mem),
         NEW t \in Subgoal \cup {User},
         NEW n, n = Called(restore_some_wamregs(m, k), t) \/ n = restore_some_wamregs(Called(m, t), k)
  PROVE  Ready(n) /\ Uses(Generators, n)
<1>1. CASE n = Called(restore_some_wamregs(m, k), t)
  <2>1. PICK p : p = restore_some_wamregs(m, k)
    OBVIOUS
  <2>2. Back(mem, p) /\ Over(Generators, p) /\ Uses(Generators, p)
    BY <2>1, RestoredOver
  <2>3. Back(mem, n) /\ Over(Generators, n) /\ n.h = p.h
    BY <1>1, <2>1, <2>2, ptcpOver DEF Called
  <2>4. Uses(Generators, n)
    BY <2>2, <2>3 DEF Uses
  <2> QED  BY <2>3, <2>4, BackIsReady
<1>2. CASE n = restore_some_wamregs(Called(m, t), k)
  <2>1. PICK p : p = Called(m, t)
    OBVIOUS
  <2>2. Back(mem, p) /\ Over(Generators, p)
    BY <2>1, ptcpOver DEF Called
  <2>3. Back(mem, n) /\ Over(Generators, n) /\ Uses(Generators, n)
    BY <1>2, <2>1, <2>2, RestoredOver
  <2> QED  BY <2>3, BackIsReady
<1> QED  BY <1>1, <1>2

LEMMA AllocateAlike ==
  ASSUME NEW m, IsMemory(m), NEW clause \in Goal \cup {Asking}, NEW s, NEW head
  PROVE  LET n == allocate(m, clause, s, head) IN Onward(m, n) /\ SameFrozen(m, n)
<1>1. Fields(m, m.heap, m.env, m.trail, m.h, m.hb, m.hf, m.e, m.eb, m.ef, m.tr, m.trf, m.ptcp, m.at)
      /\ m.ptcp \in Subgoal \cup {User}
  BY MemoryFields
<1>2. PICK p, hb : p = m.ptcp /\ hb = m.hb
  OBVIOUS
<1>3. [m EXCEPT !.ptcp = p, !.hb = hb] = m
  BY <1>1, <1>2 DEF Fields
<1>4. LET n == Entered(m, p, hb, clause, s, head) IN Onward(m, n) /\ SameFrozen(m, n)
  BY <1>1, <1>2, AllocateOn
<1>5. Entered(m, p, hb, clause, s, head) = allocate(m, clause, s, head)
  BY <1>3 DEF Entered
<1> QED  BY <1>4, <1>5

\* What follows when the open tables stay as they are and the choice points that are written are
\* none or one at the top.
LEMMA RunsOn ==
  ASSUME MemoryInv, EngineInv', KeepsOpen, NEW m, Ready(m), Uses(Generators, m), Onward(m, mem'), SameFrozen(m, mem'),
         NEW T \in Nat, T = top_of_cpstack,
         \/ saved' = saved /\ Len(cps') <= Len(saved) /\ top_of_cpstack' <= T
         \/ /\ top_of_cpstack' = T + 1 /\ Len(cps') = T + 1
            /\ \E r \in SavedRegisters(mem') : saved' = Put(saved, T + 1, r) /\ Saves(m, mem', r)
  PROVE  MemoryInv'
<1>1. PICK n : n = mem'
  OBVIOUS
<1> QED  BY <1>1, QuietMemory DEF Ready

LEMMA Waiting ==
  ASSUME MemoryInv, EngineInv', KeepsOpen, ~ running', Ready(mem'),
         saved' = saved, Len(cps') <= Len(saved), top_of_cpstack' <= top_of_cpstack
  PROVE  MemoryInv'
<1>1. PICK n : n = mem'
  OBVIOUS
<1>2. PICK T \in Nat : T = top_of_cpstack
  BY OverNow, EngineTops
<1> QED  BY <1>1, <1>2, QuietMemory DEF Ready

(* Retries of the program and of clauses. *)

\* What is known of the choice point backtracking goes to.
LEMMA FailsTo ==
  ASSUME MemoryInv, NEW k, k = breg
  PROVE  /\ k \in 1..top_of_cpstack /\ k \in 1..Len(cps) /\ cps[k] \in Entry /\ cps[k].ptcp \in Subgoal \cup {User}
         /\ Len(cps) \in Nat /\ Len(cps) <= Len(saved) /\ top_of_cpstack \in Nat /\ top_of_cpstack <= Len(cps)
         /\ EngineInv /\ Typed /\ StackInv
         /\ IsGenerator(k) => /\ cps[k].subgoal \in Generators /\ k = sf[cps[k].subgoal].cp /\ cps[k].subgoal \in Subgoal
         /\ cps[k].pc = "answer_return" => /\ k \in SuspendedCalls /\ k >= 2
         /\ cps[k].pc = "trie" => k >= 2 /\ ~ IsGenerator(k)
         /\ cps[k].pc = "query" => k = 1 /\ ~ IsGenerator(k)
<1>1. /\ EngineInv /\ Typed /\ StackInv /\ k \in 1..top_of_cpstack /\ k \in 1..Len(cps)
      /\ Len(cps) \in Nat /\ top_of_cpstack \in Nat /\ top_of_cpstack <= Len(cps)
  BY OverNow, EngineTops
<1>2. cps[k] \in Entry /\ cps[k].ptcp \in Subgoal \cup {User}
  BY <1>1, EntryTyped
<1>3. EntriesAreAlive(top_of_cpstack)
  BY <1>1 DEF StackInv, Stacked
<1>4. Len(cps) <= Len(saved)
  BY DEF MemoryInv, MemoryTypeOK
<1>5. /\ cps[k].pc = "query" <=> k = 1
      /\ IsGenerator(k) => /\ cps[k].subgoal \in Subgoal /\ OpenTable(cps[k].subgoal)
                           /\ sf[cps[k].subgoal].cp = k
      /\ cps[k].pc = "answer_return" => /\ cps[k].subgoal \in Subgoal /\ OpenTable(cps[k].subgoal)
                                        /\ k \in Consumers(cps[k].subgoal)
  BY <1>1, <1>3 DEF EntriesAreAlive
<1>6. IsGenerator(k) => cps[k].subgoal \in Generators /\ k = sf[cps[k].subgoal].cp /\ cps[k].subgoal \in Subgoal
  BY <1>5 DEF Generators, Generating
<1>7. cps[k].pc = "answer_return" => k \in SuspendedCalls /\ k >= 2
  BY <1>1, <1>5 DEF SuspendedCalls
<1>8. /\ cps[k].pc = "trie" => k >= 2 /\ ~ IsGenerator(k)
      /\ cps[k].pc = "query" => k = 1 /\ ~ IsGenerator(k)
  BY <1>1, <1>5 DEF IsGenerator
<1> QED  BY <1>1, <1>2, <1>4, <1>6, <1>7, <1>8

LEMMA NextQueryMemory == MemoryInv /\ EngineInv' /\ NextQueryInMemory => MemoryInv'
<1> SUFFICES ASSUME MemoryInv, EngineInv', NextQueryInMemory
             PROVE  MemoryInv'
  OBVIOUS
<1>1. PICK k : k = breg
  OBVIOUS
<1>2. /\ cps[k].pc = "query" /\ UNCHANGED <<sf, cps, breg, bfreg, frames, openreg, saved>>
      /\ mem' = allocate(Called(restore_some_wamregs(undo_bindings(mem, k), k), cps[k].ptcp), Asking, User, NoVariable)
  BY <1>1 DEF NextQueryInMemory, NextQuery, FailTo, Called
<1>3. /\ k \in 1..top_of_cpstack /\ k \in 1..Len(cps) /\ cps[k].ptcp \in Subgoal \cup {User}
      /\ Len(cps) <= Len(saved) /\ top_of_cpstack \in Nat /\ Typed /\ StackInv /\ ~ IsGenerator(k)
  BY <1>1, <1>2, FailsTo
<1>4. PICK u : u = undo_bindings(mem, k)
  OBVIOUS
<1>5. Back(mem, u) /\ Over(Generators, u) /\ saved[k] \in SavedRegisters(mem)
  BY <1>1, <1>3, <1>4, UndoneOver
<1>6. PICK m : m = Called(restore_some_wamregs(u, k), cps[k].ptcp)
  OBVIOUS
<1>7. Ready(m) /\ Uses(Generators, m)
  BY <1>3, <1>5, <1>6, ReadyToRun
<1>8. Onward(m, mem') /\ SameFrozen(m, mem')
  <2>1. IsMemory(m) /\ mem' = allocate(m, Asking, User, NoVariable)
    BY <1>2, <1>4, <1>6, <1>7 DEF Ready
  <2> QED  BY <2>1, AllocateAlike
<1>9. KeepsOpen /\ top_of_cpstack' <= top_of_cpstack
  <2>1. KeepsOpen
    BY <1>2, <1>3, SameOpen DEF IsGenerator
  <2>2. top_of_cpstack' = top_of_cpstack
    BY <1>2 DEF top_of_cpstack
  <2> QED  BY <1>3, <2>1, <2>2
<1>10. PICK T \in Nat : T = top_of_cpstack
  BY <1>3
<1>11. saved' = saved /\ Len(cps') <= Len(saved) /\ top_of_cpstack' <= T
  BY <1>2, <1>3, <1>9, <1>10
<1> QED  BY <1>7, <1>8, <1>9, <1>10, <1>11, RunsOn

LEMMA NextClauseMemory == MemoryInv /\ EngineInv' /\ NextClauseInMemory => MemoryInv'
<1> SUFFICES ASSUME MemoryInv, EngineInv', NextClauseInMemory
             PROVE  MemoryInv'
  OBVIOUS
<1>1. PICK k, c : k = breg /\ c = cps[k]
  OBVIOUS
<1>2. /\ c.pc = "tableretry" /\ UNCHANGED <<sf, breg, bfreg, frames, openreg, saved>>
      /\ mem' = allocate(Called(restore_some_wamregs(switch_envs(mem, k), k), c.subgoal),
                         Clauses(program, c.subgoal)[c.next], c.subgoal, saved[k].template)
      /\ cps' = [cps EXCEPT ![k].next = @ + 1,
                            ![k].pc = IF c.next = Len(Clauses(program, c.subgoal)) THEN "check_complete" ELSE @]
  BY <1>1 DEF NextClauseInMemory, NextClause, FailTo, Called
<1>3. /\ k \in 1..top_of_cpstack /\ k \in 1..Len(cps) /\ c \in Entry /\ IsGenerator(k)
      /\ c.subgoal \in Generators /\ k = sf[c.subgoal].cp /\ c.subgoal \in Subgoal
      /\ Len(cps) <= Len(saved) /\ Len(cps) \in Nat /\ top_of_cpstack \in Nat /\ top_of_cpstack <= Len(cps)
      /\ Typed /\ StackInv /\ EngineInv
  <2>1. IsGenerator(k)
    BY <1>1, <1>2 DEF IsGenerator
  <2> QED  BY <1>1, <2>1, FailsTo
<1>4. PICK u : u = switch_envs(mem, k)
  OBVIOUS
<1>5. Back(mem, u) /\ Over(Generators, u) /\ saved[k] \in SavedRegisters(mem)
  BY <1>1, <1>3, <1>4, SwitchedOver
<1>6. PICK m : m = Called(restore_some_wamregs(u, k), c.subgoal)
  OBVIOUS
<1>7. Ready(m) /\ Uses(Generators, m)
  BY <1>3, <1>5, <1>6, ReadyToRun
<1>8. Onward(m, mem') /\ SameFrozen(m, mem')
  <2>1. Clauses(program, c.subgoal)[c.next] \in Goal
    <3>1. 2 <= k
      BY <1>3, OpenSaved, OverNow
    <3>2. c.next \in 2..Len(Clauses(program, c.subgoal))
      <4>1. k \in 2..top_of_cpstack /\ OrderInv
        BY <1>3, <3>1, EngineTops
      <4> QED  BY <1>1, <1>2, <4>1, EntriesAre
    <3>3. Clauses(program, c.subgoal) \in Seq(Goal)
      BY <1>3, ProgramAssumption DEF Typed
    <3>4. c.next \in 1..Len(Clauses(program, c.subgoal))
      BY <3>2
    <3> QED  BY <3>3, <3>4
  <2>2. /\ IsMemory(m)
        /\ mem' = allocate(m, Clauses(program, c.subgoal)[c.next], c.subgoal, saved[k].template)
    BY <1>2, <1>4, <1>6, <1>7 DEF Ready
  <2> QED  BY <2>1, <2>2, AllocateAlike
<1>9. Len(cps') = Len(cps) /\ \A i \in 1..top_of_cpstack : IsGenerator(i)' => IsGenerator(i)
  <2>1. cps \in Seq(Entry) /\ cps' \in Seq(Entry)
    BY <1>3 DEF EngineInv, OrderInv, Typed
  <2>2. Len(cps') = Len(cps)
    BY <1>2, <2>1
  <2>3. \A i \in 1..Len(cps) : i # k => cps'[i] = cps[i]
    BY <1>2, <2>1
  <2> QED  BY <1>3, <2>2, <2>3 DEF IsGenerator
<1>10. KeepsOpen /\ top_of_cpstack' = top_of_cpstack
  BY <1>2, <1>3, <1>9, SameOpen DEF top_of_cpstack
<1>11. PICK T \in Nat : T = top_of_cpstack
  BY <1>3
<1>12. saved' = saved /\ Len(cps') <= Len(saved) /\ top_of_cpstack' <= T
  <2>1. saved' = saved
    BY <1>2
  <2>2. Len(cps') <= Len(saved)
    BY <1>3, <1>9
  <2>3. top_of_cpstack' <= T
    BY <1>10, <1>11
  <2> QED  BY <2>1, <2>2, <2>3
<1> QED  BY <1>7, <1>8, <1>10, <1>11, <1>12, RunsOn

(* The next answer, of a completed table or for a suspended call. *)

LEMMA PrevRestored ==
  ASSUME MemoryInv, NEW k, k = breg, k >= 2, ~ IsGenerator(k), NEW m, Back(mem, m), Over(Generators, m),
         NEW b, b = cps[k].prev, NEW n, n = restore_trail_condition_registers(m, b)
  PROVE  Ready(n) /\ n.h = m.h /\ b \in 1..top_of_cpstack
<1>1. EngineInv /\ Typed /\ StackInv /\ k \in Nat
  BY OverNow, EngineTops
<1>2. b \in 1..top_of_cpstack /\ \A q \in 1..top_of_cpstack : IsGenerator(q) => q <= b
  BY <1>1, Backs
<1>3. \A s \in Generators : sf[s].cp <= b
  <2>1. \A s \in Generators : sf[s].cp \in 1..top_of_cpstack /\ IsGenerator(sf[s].cp)
    BY <1>1, OverNow, OpenSaved DEF Generating
  <2> QED  BY <1>2, <2>1
<1>4. CASE cps[b].pc = "check_complete"
  <2>1. n = m
    BY <1>4 DEF restore_trail_condition_registers
  <2> QED  BY <1>2, <2>1, BackIsReady
<1>5. CASE cps[b].pc # "check_complete"
  <2>1. Bounded(m, n, saved[b].h, saved[b].eb)
    BY <1>5 DEF restore_trail_condition_registers, Bounded
  <2>2. /\ IsMemory(n) /\ n.trail = mem.trail /\ SameFrozen(mem, n) /\ Over(Generators, n) /\ n.h = m.h
        /\ Len(n.heap) = Len(mem.heap) /\ Len(n.env) = Len(mem.env)
    <3>1. PICK p : p = n
      OBVIOUS
    <3>2. BoundedAt(Generators, m, b, p)
      BY <1>2, <1>3, <2>1, <3>1 DEF BoundedAt
    <3>3. /\ IsMemory(p) /\ p.trail = mem.trail /\ SameFrozen(mem, p) /\ Over(Generators, p) /\ p.h = m.h
          /\ Len(p.heap) = Len(mem.heap) /\ Len(p.env) = Len(mem.env)
      BY <3>2, BoundedOver
    <3> QED  BY <3>1, <3>3
  <2> QED  BY <1>2, <2>2 DEF Ready
<1> QED  BY <1>4, <1>5

LEMMA NextOfTrieMemory == MemoryInv /\ EngineInv' /\ NextOfTrieInMemory => MemoryInv'
<1> SUFFICES ASSUME MemoryInv, EngineInv', NextOfTrieInMemory
             PROVE  MemoryInv'
  OBVIOUS
<1>1. PICK k, b : k = breg /\ b = cps[k].prev
  OBVIOUS
<1>2. PICK u, m : u = undo_bindings(mem, k) /\ m = restore_some_wamregs(u, k)
  OBVIOUS
<1>3. PICK n, a : /\ n = m \/ n = restore_trail_condition_registers(m, b)
                  /\ mem' = unify_with_trie(n, saved[k].template, a)
  BY <1>1, <1>2 DEF NextOfTrieInMemory
<1>4. /\ cps[k].pc = "trie" /\ UNCHANGED <<sf, bfreg, frames, openreg, saved>>
      /\ breg' = b \/ breg' = breg
      /\ cps' = cps \/ \E x : cps' = [cps EXCEPT ![k].left = @ \ {x}]
  BY <1>1 DEF NextOfTrieInMemory, NextOfTrie, FailTo
<1>5. /\ k \in 1..top_of_cpstack /\ k >= 2 /\ ~ IsGenerator(k) /\ EngineInv /\ Typed /\ StackInv
      /\ Len(cps) \in Nat /\ Len(cps) <= Len(saved) /\ top_of_cpstack \in Nat /\ top_of_cpstack <= Len(cps)
  BY <1>1, <1>4, FailsTo
<1>6. Back(mem, u) /\ Over(Generators, u) /\ saved[k] \in SavedRegisters(mem)
  BY <1>1, <1>2, <1>5, UndoneOver
<1>7. Back(mem, m) /\ Over(Generators, m) /\ Uses(Generators, m)
  BY <1>2, <1>6, RestoredOver
<1>8. Ready(n) /\ Uses(Generators, n)
  <2>1. CASE n = m
    BY <1>7, <2>1, BackIsReady
  <2>2. CASE n = restore_trail_condition_registers(m, b)
    BY <1>1, <1>5, <1>7, <2>2, PrevRestored DEF Uses
  <2> QED  BY <1>3, <2>1, <2>2
<1>9. Onward(n, mem') /\ SameFrozen(n, mem')
  <2>1. PICK p : p = mem'
    OBVIOUS
  <2>2. p \in {unify_with_trie(n, saved[k].template, a), table_consume_answer(n, saved[k].template, a)} /\ IsMemory(n)
    BY <1>3, <1>8, <2>1 DEF Ready
  <2>3. Onward(n, p) /\ SameFrozen(n, p)
    BY <2>2, ReturnOn
  <2> QED  BY <2>1, <2>3
<1>10. Len(cps') = Len(cps) /\ \A i \in 1..top_of_cpstack : IsGenerator(i)' => IsGenerator(i)
  <2>1. cps \in Seq(Entry) /\ cps[k] \in Entry
    BY <1>1, <1>5, FailsTo DEF Typed
  <2>2. CASE cps' = cps
    BY <2>2 DEF IsGenerator
  <2>3. ASSUME NEW x, cps' = [cps EXCEPT ![k].left = @ \ {x}]
        PROVE  Len(cps') = Len(cps) /\ \A i \in 1..top_of_cpstack : IsGenerator(i)' => IsGenerator(i)
    <3>1. Len(cps') = Len(cps) /\ \A i \in 1..Len(cps) : cps'[i].pc = cps[i].pc
      BY <2>1, <2>3 DEF Entry
    <3> QED  BY <1>5, <3>1 DEF IsGenerator
  <2> QED  BY <1>4, <2>2, <2>3
<1>11. PICK T \in Nat : T = top_of_cpstack
  BY <1>5
<1>12. KeepsOpen
  BY <1>4, <1>5, <1>10, SameOpen
<1>13. saved' = saved /\ Len(cps') <= Len(saved) /\ top_of_cpstack' <= T
  <2>1. b \in 1..top_of_cpstack /\ bfreg \in 1..top_of_cpstack /\ breg \in 1..top_of_cpstack
    BY <1>1, <1>5, <1>7, PrevRestored, EngineTops
  <2> QED  BY <1>4, <1>5, <1>10, <1>11, <2>1 DEF top_of_cpstack, Higher
<1> QED  BY <1>8, <1>9, <1>11, <1>12, <1>13, RunsOn

LEMMA AnswerReturnMemory == MemoryInv /\ EngineInv' /\ AnswerReturnInMemory => MemoryInv'
<1> SUFFICES ASSUME MemoryInv, EngineInv', AnswerReturnInMemory
             PROVE  MemoryInv'
  OBVIOUS
<1>1. PICK k, c, b, list : k = breg /\ c = cps[k] /\ b = cps[k].prev /\ list = sf[c.subgoal].answers
  OBVIOUS
<1>2. PICK u, m : u = switch_envs(mem, k) /\ m = restore_some_wamregs(Called(u, c.ptcp), k)
  OBVIOUS
<1>3. /\ c.pc = "answer_return" /\ ~ running /\ UNCHANGED <<sf, bfreg, frames, openreg, saved>>
      /\ \/ /\ breg' = breg /\ cps' = [cps EXCEPT ![k].ret = @ + 1]
            /\ mem' = table_consume_answer(m, saved[k].template, list[c.ret + 1])
         \/ /\ breg' = b /\ cps' = cps /\ ~ running'
            /\ mem' = LET p == restore_trail_condition_registers(mem, b)
                      IN  [p EXCEPT !.h = Higher(p.hb, p.hf)]
  BY <1>1, <1>2 DEF AnswerReturnInMemory, AnswerReturn, FailTo, Fail1, Called
<1>4. /\ k \in 1..top_of_cpstack /\ k \in 1..Len(cps) /\ k >= 2 /\ ~ IsGenerator(k) /\ k \in SuspendedCalls
      /\ EngineInv /\ Typed /\ StackInv /\ cps \in Seq(Entry) /\ c \in Entry /\ c.ptcp \in Subgoal \cup {User}
      /\ Len(cps) \in Nat /\ Len(cps) <= Len(saved) /\ top_of_cpstack \in Nat /\ top_of_cpstack <= Len(cps)
  BY <1>1, <1>3, FailsTo DEF IsGenerator, Typed
<1>5. b \in 1..top_of_cpstack /\ bfreg \in 1..top_of_cpstack /\ breg \in 1..top_of_cpstack
  BY <1>1, <1>4, Backs, EngineTops
<1>6. PICK T \in Nat : T = top_of_cpstack
  BY <1>4
<1>7. Len(cps') = Len(cps) /\ \A i \in 1..top_of_cpstack : IsGenerator(i)' => IsGenerator(i)
  <2>1. Len(cps') = Len(cps) /\ \A i \in 1..Len(cps) : cps'[i].pc = cps[i].pc
    <3>1. CASE cps' = cps
      BY <3>1
    <3>2. CASE cps' = [cps EXCEPT ![k].ret = @ + 1]
      <4>1. \A i \in 1..Len(cps) : i # k => cps'[i] = cps[i]
        BY <1>4, <3>2
      <4>2. cps'[k] = [cps[k] EXCEPT !.ret = @ + 1] /\ Len(cps') = Len(cps)
        BY <1>4, <3>2
      <4>3. cps'[k].pc = cps[k].pc
        BY <1>1, <1>4, <4>2 DEF Entry
      <4> QED  BY <4>1, <4>2, <4>3
    <3> QED  BY <1>3, <3>1, <3>2
  <2> QED  BY <1>4, <2>1 DEF IsGenerator
<1>8. KeepsOpen
  BY <1>3, <1>4, <1>7, SameOpen
<1>9. saved' = saved /\ Len(cps') <= Len(saved) /\ top_of_cpstack' <= T
  BY <1>3, <1>4, <1>5, <1>6, <1>7 DEF top_of_cpstack, Higher
<1>10. CASE mem' = table_consume_answer(m, saved[k].template, list[c.ret + 1])
  <2>1. Back(mem, u) /\ Over(Generators, u) /\ saved[k] \in SavedRegisters(mem)
    BY <1>1, <1>2, <1>4, SwitchedOver
  <2>2. Ready(m) /\ Uses(Generators, m)
    BY <1>2, <1>4, <2>1, ReadyToRun
  <2>3. Onward(m, mem') /\ SameFrozen(m, mem')
    <3>1. PICK p, t, a : p = mem' /\ t = saved[k].template /\ a = list[c.ret + 1]
      OBVIOUS
    <3>2. p \in {unify_with_trie(m, t, a), table_consume_answer(m, t, a)} /\ IsMemory(m)
      BY <1>10, <2>2, <3>1 DEF Ready
    <3>3. Onward(m, p) /\ SameFrozen(m, p)
      BY <3>2, ReturnOn
    <3> QED  BY <3>1, <3>3
  <2> QED  BY <1>6, <1>8, <1>9, <2>2, <2>3, RunsOn
<1>11. ASSUME NEW p, p = restore_trail_condition_registers(mem, b), mem' = [p EXCEPT !.h = Higher(p.hb, p.hf)], ~ running'
       PROVE  MemoryInv'
  <2>1. Back(mem, mem) /\ Over(Generators, mem)
    BY OverNow DEF Back
  <2>2. Ready(p)
    BY <1>1, <1>4, <1>11, <2>1, PrevRestored
  <2>3. PICK h \in {p.hb, p.hf} : h = Higher(p.hb, p.hf)
    BY DEF Higher
  <2>4. PICK n : n = [p EXCEPT !.h = h]
    OBVIOUS
  <2>5. IsMemory(p) /\ h \in 1..Len(p.heap) + 1
    BY <2>2, <2>3, MemoryFields DEF Ready
  <2>6. Back(p, n) /\ n.tr = p.tr
    BY <2>4, <2>5, HeapBack
  <2>7. IsMemory(n) /\ n.trail = p.trail /\ n.hb = p.hb /\ n.eb = p.eb
    BY <2>6 DEF Back
  <2>8. Over(Generators, n)
    BY <2>2, <2>5, <2>6, <2>7, OverAlike DEF Over, Ready
  <2>9. Ready(n)
    BY <2>2, <2>6, <2>8 DEF Ready, Back, SameFrozen
  <2>10. mem' = n
    BY <1>11, <2>3, <2>4
  <2> QED  BY <1>6, <1>8, <1>9, <1>11, <2>9, <2>10, Waiting
<1> QED  BY <1>3, <1>10, <1>11

(* Scheduling suspended calls, and calls of completed tables. *)

LEMMA ScheduleMemory ==
  ASSUME MemoryInv, EngineInv', NEW s \in Subgoal, ScheduleInMemory(s)
  PROVE  MemoryInv'
<1>1. PICK k : k = breg
  OBVIOUS
<1>2. PICK u : u = switch_envs(mem, k)
  OBVIOUS
<1>3. /\ AtCheckComplete(s) /\ cps[k].pc = "check_complete" /\ ~ running' /\ UNCHANGED <<sf, bfreg, frames, openreg, saved>>
      /\ cps' = Linked(s) \/ cps' = find_fixpoint(s)
      /\ mem' = Called(u, cps[k].ptcp)
  <2>1. mem' = [u EXCEPT !.ptcp = cps[k].ptcp]
    BY <1>1, <1>2 DEF ScheduleInMemory, AtGenerator
  <2>2. CASE ScheduleOwn(s)
    BY <1>1, <2>1, <2>2 DEF ScheduleInMemory, ScheduleOwn, AtCheckComplete, FailTo, Fail1, Called
  <2>3. CASE ScheduleFollowers(s)
    BY <1>1, <2>1, <2>3 DEF ScheduleInMemory, ScheduleFollowers, AtCheckComplete, FailTo, Fail1, Called
  <2> QED  BY <2>2, <2>3 DEF ScheduleInMemory
<1>4. /\ k \in 1..top_of_cpstack /\ IsGenerator(k) /\ cps[k].subgoal \in Generators /\ k = sf[cps[k].subgoal].cp
      /\ EngineInv /\ Typed /\ StackInv /\ cps[k].ptcp \in Subgoal \cup {User} /\ breg \in Nat
      /\ Len(cps) \in Nat /\ Len(cps) <= Len(saved) /\ top_of_cpstack \in Nat /\ top_of_cpstack <= Len(cps)
  <2>1. IsGenerator(k)
    BY <1>3 DEF IsGenerator
  <2> QED  BY <1>1, <2>1, FailsTo, EngineTops
<1>5. Back(mem, u) /\ Over(Generators, u)
  BY <1>1, <1>2, <1>4, SwitchedOver
<1>6. Ready(mem')
  <2>1. PICK n : n = Called(u, cps[k].ptcp)
    OBVIOUS
  <2>2. Back(mem, n) /\ Over(Generators, n)
    BY <1>4, <1>5, <2>1, ptcpOver DEF Called
  <2>3. Ready(n)
    BY <2>2, BackIsReady
  <2> QED  BY <1>3, <2>1, <2>3
<1>7. Len(cps') = Len(cps) /\ \A i \in 1..top_of_cpstack : IsGenerator(i)' => IsGenerator(i)
  <2>1. Len(cps') = Len(cps) /\ \A i \in 1..Len(cps) : cps'[i].pc = cps[i].pc
    <3>1. PICK stack : stack = cps'
      OBVIOUS
    <3>2. Len(stack) = Len(cps) /\ \A i \in 1..Len(cps) : stack[i].pc = cps[i].pc
      BY <1>3, <1>4, <3>1, LinkedTyped
    <3> QED  BY <3>1, <3>2
  <2> QED  BY <1>4, <2>1 DEF IsGenerator
<1>8. KeepsOpen
  BY <1>3, <1>4, <1>7, SameOpen
<1>9. breg' \in SuspendedCalls
  <2>1. OpenTable(s) /\ breg \in Nat /\ openreg \in Nat
    BY <1>3, <1>4, GeneratorOnTop DEF Typed
  <2>2. CASE ScheduleOwn(s)
    <3>1. sched_answers(s) # {} /\ breg' = FirstScheduled(s)
      BY <2>2 DEF ScheduleOwn
    <3>2. FirstScheduled(s) \in Consumers(s)
      BY <1>4, <3>1, Scheduled
    <3> QED  BY <2>1, <3>1, <3>2 DEF SuspendedCalls
  <2>3. CASE ScheduleFollowers(s)
    <3>1. /\ ScheduledFrames(s) # {} /\ breg' = FirstScheduled(frames[Greatest(ScheduledFrames(s))].subgoal)
      BY <2>3 DEF ScheduleFollowers
    <3>2. \A f \in Followers(s) : f \in Nat /\ f <= openreg
      BY <1>4, <2>1, FollowersNewer
    <3>3. ScheduledFrames(s) \in SUBSET Nat /\ \A f \in ScheduledFrames(s) : f <= openreg
      BY <3>2 DEF ScheduledFrames
    <3>4. Greatest(ScheduledFrames(s)) \in ScheduledFrames(s)
      BY <2>1, <3>1, <3>3, GreatestOf
    <3>5. PICK f \in Followers(s) : f = Greatest(ScheduledFrames(s)) /\ sched_answers(frames[f].subgoal) # {}
      BY <3>4 DEF ScheduledFrames
    <3>6. PICK t : t = frames[f].subgoal
      OBVIOUS
    <3>7. t \in Subgoal /\ OpenTable(t)
      BY <1>4, <2>1, <3>5, <3>6, FollowersNewer
    <3>8. FirstScheduled(t) \in Consumers(t)
      BY <1>4, <3>5, <3>6, <3>7, Scheduled
    <3> QED  BY <3>1, <3>5, <3>6, <3>7, <3>8 DEF SuspendedCalls
  <2> QED  BY <2>2, <2>3 DEF ScheduleInMemory
<1>10. top_of_cpstack' <= top_of_cpstack
  <2>1. breg' \in 1..top_of_cpstack
    BY <1>4, <1>9, OpenSaved DEF MemoryInv
  <2>2. bfreg \in 1..top_of_cpstack
    BY <1>4, EngineTops
  <2> QED  BY <1>3, <1>4, <2>1, <2>2 DEF top_of_cpstack, Higher
<1> QED  BY <1>3, <1>4, <1>6, <1>7, <1>8, <1>10, Waiting

LEMMA SavesBefore ==
  ASSUME NEW m, IsMemory(m), NEW n, Onward(m, n), NEW p, NEW r, Saves(n, p, r)
  PROVE  Saves(m, p, r)
<1>1. PICK q : Onward(n, q) /\ Onward(q, p) /\ r.h = q.h /\ r.eb = q.eb /\ r.tr = q.tr
  BY DEF Saves
<1>2. Onward(m, q)
  BY <1>1, OnwardTwice
<1> QED  BY <1>1, <1>2 DEF Saves

LEMMA TrieTryOn ==
  ASSUME NEW m, IsMemory(m), NEW t \in 0..Len(m.heap), NEW left, NEW top, trie_try(m, t, left, top),
         NEW n, n = mem'
  PROVE  /\ Onward(m, n) /\ SameFrozen(m, n)
         /\ \/ (\E a : left = {a}) /\ saved' = saved
            \/ /\ ~ \E a : left = {a}
               /\ \E r \in SavedRegisters(n) : saved' = Put(saved, top + 1, r) /\ Saves(m, n, r)
<1>1. PICK p : p = save_find_locx(m)
  OBVIOUS
<1>2. PICK q : q = [p EXCEPT !.hb = p.h]
  OBVIOUS
<1>3. PICK a \in left :
        IF left = {a} THEN n = unify_with_trie(m, t, a) /\ saved' = saved
        ELSE n = unify_with_trie(q, t, a) /\ saved' = Put(saved, top + 1, ChoicePointOf(p, t))
  BY <1>1, <1>2 DEF trie_try
<1>4. CASE left = {a}
  <2>1. n \in {unify_with_trie(m, t, a), table_consume_answer(m, t, a)} /\ saved' = saved
    BY <1>3, <1>4
  <2>2. Onward(m, n) /\ SameFrozen(m, n)
    BY <2>1, ReturnOn
  <2> QED  BY <1>4, <2>1, <2>2
<1>5. CASE left # {a}
  <2>1. n \in {unify_with_trie(q, t, a), table_consume_answer(q, t, a)} /\ saved' = Put(saved, top + 1, ChoicePointOf(p, t))
    BY <1>3, <1>5
  <2>2. Onward(m, p) /\ SameFrozen(m, p) /\ p.heap = m.heap /\ IsMemory(p)
    BY <1>1, SaveOn DEF Onward
  <2>3. Onward(p, q) /\ SameFrozen(p, q) /\ IsMemory(q)
    BY <1>2, <2>2, ChoicePointOn DEF Onward
  <2>4. Onward(q, n) /\ SameFrozen(q, n)
    BY <2>1, <2>3, ReturnOn
  <2>5. Onward(p, n) /\ IsMemory(n)
    <3>1. Onward(p, n)
      BY <2>2, <2>3, <2>4, OnwardTwice
    <3> QED  BY <3>1 DEF Onward
  <2>6. Onward(m, n)
    BY <2>2, <2>5, OnwardTwice
  <2>7. SameFrozen(m, n)
    BY <2>2, <2>3, <2>4 DEF SameFrozen
  <2>8. PICK r : r = ChoicePointOf(p, t)
    OBVIOUS
  <2>9. r \in SavedRegisters(p) /\ r.h = p.h /\ r.eb = p.eb /\ r.tr = p.tr
    <3>1. t \in 0..Len(p.heap)
      BY <2>2
    <3> QED  BY <2>2, <2>8, <3>1, ChoicePointTyped
  <2>10. r \in SavedRegisters(n)
    BY <2>2, <2>5, <2>9, SavedStays DEF Onward
  <2>11. Saves(m, n, r)
    BY <2>2, <2>5, <2>9 DEF Saves
  <2>12. ~ \E x : left = {x}
    BY <1>5
  <2> QED  BY <2>1, <2>6, <2>7, <2>8, <2>10, <2>11, <2>12
<1> QED  BY <1>4, <1>5

LEMMA CallCompletedMemory ==
  ASSUME MemoryInv, EngineInv', NEW s \in Subgoal, CallCompletedInMemory(s)
  PROVE  MemoryInv'
<1>1. CallCompleted(s) /\ UNCHANGED <<sf, bfreg, frames, openreg>> /\ running
  BY DEF CallCompletedInMemory, CallCompleted, Calling
<1>2. /\ IsMemory(mem) /\ Over(Generators, mem) /\ Uses(Generators, mem) /\ EngineInv /\ Typed /\ StackInv
      /\ Len(cps) <= Len(saved) /\ Len(cps) \in Nat /\ top_of_cpstack \in Nat /\ top_of_cpstack \in 1..Len(cps)
      /\ breg \in 1..top_of_cpstack /\ bfreg \in 1..top_of_cpstack
  BY <1>1, OverNow, EngineTops DEF MemoryInv, MemoryTypeOK
<1>3. Ready(mem)
  BY <1>2 DEF Ready, SameFrozen
<1>4. PICK T \in Nat : T = top_of_cpstack
  BY <1>2
<1>5. PICK m, t : m = calling(mem, s) /\ t = template(m, s)
  OBVIOUS
<1>6. Onward(mem, m) /\ SameFrozen(mem, m) /\ t \in 0..Len(m.heap) /\ IsMemory(m)
  BY <1>2, <1>5, CallingOn DEF Onward
<1>7. PICK left : left = Range(sf[s].answers)
  OBVIOUS
<1>8. CASE sf[s].answers = <<>>
  <2>1. mem' = m /\ saved' = saved /\ cps' = cps /\ breg' = breg
    BY <1>5, <1>8 DEF CallCompletedInMemory, CallCompleted
  <2>2. KeepsOpen /\ top_of_cpstack' = top_of_cpstack
    BY <1>1, <1>2, <2>1, SameOpen DEF IsGenerator, top_of_cpstack
  <2>3. saved' = saved /\ Len(cps') <= Len(saved) /\ top_of_cpstack' <= T
    BY <1>2, <1>4, <2>1, <2>2
  <2> QED  BY <1>2, <1>3, <1>4, <1>6, <2>1, <2>2, <2>3, RunsOn
<1>9. CASE sf[s].answers # <<>>
  <2>1. PICK a \in left :
          IF left = {a}
            THEN cps' = cps /\ breg' = breg
            ELSE cps' = Push(cps, T, TrieChoicePoint(left \ {a}, goal, ptcpreg, breg)) /\ breg' = T + 1
    BY <1>1, <1>4, <1>7, <1>9 DEF CallCompleted, TrieReturn
  <2>2. \/ (\E x : left = {x}) /\ cps' = cps /\ breg' = breg
        \/ /\ ~ \E x : left = {x}
           /\ Len(cps') = T + 1 /\ breg' = T + 1 /\ \A i \in 1..T : cps'[i] = cps[i]
    <3>1. CASE left = {a}
      BY <2>1, <3>1
    <3>2. CASE left # {a}
      <4>1. cps' = Push(cps, T, TrieChoicePoint(left \ {a}, goal, ptcpreg, breg)) /\ breg' = T + 1
        BY <2>1, <3>2
      <4>2. PICK rest \in SUBSET Answer : rest = left \ {a}
        BY <1>2, <1>7, TableTyped, RangeOfSeq
      <4>3. PICK h, p, b : h = goal /\ p = ptcpreg /\ b = breg
        OBVIOUS
      <4>4. /\ h \in Goal \cup {Asking} /\ p \in Subgoal \cup {User} /\ b \in Nat
            /\ cps \in Seq(Entry) /\ T \in 0..Len(cps)
        BY <1>1, <1>2, <1>4, <4>3, CallingTyped DEF CallCompleted, Typed
      <4>5. cps' = Push(cps, T, TrieChoicePoint(rest, h, p, b))
        BY <4>1, <4>2, <4>3
      <4>6. LET new == Push(cps, T, TrieChoicePoint(rest, h, p, b)) IN
            Len(new) = T + 1 /\ \A i \in 1..T : new[i] = cps[i]
        BY <4>2, <4>4, PushedTrie
      <4>7. ~ \E x : left = {x}
        BY <3>2
      <4> QED  BY <4>1, <4>5, <4>6, <4>7
    <3> QED  BY <3>1, <3>2
  <2>3. KeepsOpen
    <3>1. \A i \in 1..top_of_cpstack : cps'[i] = cps[i]
      BY <1>4, <2>2
    <3> QED  BY <1>1, <1>2, <3>1, SameOpen DEF IsGenerator
  <2>4. trie_try(m, t, left, T)
    BY <1>4, <1>5, <1>7, <1>9 DEF CallCompletedInMemory
  <2>5. PICK n : n = mem'
    OBVIOUS
  <2>6. /\ Onward(m, n) /\ SameFrozen(m, n)
        /\ \/ (\E x : left = {x}) /\ saved' = saved
           \/ /\ ~ \E x : left = {x}
              /\ \E r \in SavedRegisters(n) : saved' = Put(saved, T + 1, r) /\ Saves(m, n, r)
    BY <1>6, <2>4, <2>5, TrieTryOn
  <2>7. Onward(mem, n) /\ SameFrozen(mem, n)
    BY <1>2, <1>6, <2>6, OnwardTwice DEF SameFrozen
  <2>8. CASE \E x : left = {x}
    <3>1. saved' = saved /\ cps' = cps /\ breg' = breg
      BY <2>2, <2>6, <2>8
    <3>2. saved' = saved /\ Len(cps') <= Len(saved) /\ top_of_cpstack' <= T
      BY <1>1, <1>2, <1>4, <3>1 DEF top_of_cpstack
    <3> QED  BY <1>2, <1>3, <1>4, <2>3, <2>5, <2>7, <3>2, RunsOn
  <2>9. CASE ~ \E x : left = {x}
    <3>1. PICK r \in SavedRegisters(n) : saved' = Put(saved, T + 1, r) /\ Saves(m, n, r)
      BY <2>6, <2>9
    <3>2. Saves(mem, n, r)
      BY <1>2, <1>6, <3>1, SavesBefore
    <3>3. top_of_cpstack' = T + 1 /\ Len(cps') = T + 1
      <4>1. Len(cps') = T + 1 /\ breg' = T + 1 /\ bfreg' = bfreg
        BY <1>1, <2>2, <2>9
      <4> QED  BY <1>2, <1>4, <4>1 DEF top_of_cpstack, Higher
    <3> QED  BY <1>2, <1>3, <1>4, <2>3, <2>5, <2>7, <3>1, <3>2, <3>3, RunsOn
  <2> QED  BY <2>8, <2>9
<1> QED  BY <1>8, <1>9

(* Calls that push a generator or suspend. *)

\* A choice point is pushed by what runs, which may be that of a new generator or consumer.
LEMMA PushesMemory ==
  ASSUME MemoryInv, EngineInv', running, NEW n, n = mem', Onward(mem, n),
         NEW T \in Nat, T = top_of_cpstack, top_of_cpstack' = T + 1, Len(cps') = T + 1,
         NEW r \in SavedRegisters(n), Saves(mem, n, r), saved' = Put(saved, T + 1, r),
         \A t \in Generators : sf'[t].cp = sf[t].cp,
         \A t \in Subgoal : Generating(t)' => \/ t \in Generators
                                              \/ sf'[t].cp = T + 1 /\ ComesAfter(n, r) /\ r.h <= n.h,
         \A c \in SuspendedCalls' : c = T + 1 \/ c \in SuspendedCalls
  PROVE  /\ MemoryTypeOK' /\ TrailAboveGenerators' /\ StacksAboveGenerators'
         /\ saved'[T + 1] = r /\ \A i \in 1..T : saved'[i] = saved[i]
         /\ Over(Generators, n) /\ Uses(Generators, n) /\ Above(Generators, n, r)
<1>1. /\ IsMemory(mem) /\ EngineInv /\ MemoryTypeOK /\ Over(Generators, mem) /\ Uses(Generators, mem)
      /\ Generators \in SUBSET Generators /\ IsMemory(n)
  BY OverNow DEF Onward
<1>2. T \in 1..Len(saved) /\ Len(saved) \in Nat /\ IsSeq(saved) /\ T + 1 \in 1..Len(saved) + 1
  BY <1>1, OpenSaved DEF MemoryTypeOK
<1>3. saved'[T + 1] = r /\ \A i \in 1..T : saved'[i] = saved[i]
  <2>1. LET g == Put(saved, T + 1, r) IN g[T + 1] = r /\ \A j \in 1..Len(saved) : j # T + 1 => g[j] = saved[j]
    BY <1>2, PutIs
  <2> QED  BY <1>2, <2>1
<1>4. MemoryTypeOK'
  <2>1. Len(cps') \in Nat /\ Len(cps') <= T + 1
    OBVIOUS
  <2>2. Len(mem.heap) <= Len(n.heap) /\ Len(mem.env) <= Len(n.env) /\ Len(mem.trail) <= Len(n.trail)
    BY DEF Onward
  <2> QED  BY <1>1, <1>2, <2>1, <2>2, TypeStays
<1>5. Over(Generators, n) /\ Uses(Generators, n)
  BY <1>1, OverOnward
<1>6. Above(Generators, n, r) /\ r.tr \in 1..Len(n.trail)
  BY <1>1, SavesIsAbove
<1>7. /\ \A t \in 1..mem.trf : Path(n, t) = Path(mem, t)
      /\ \A s \in Generators : Path(n, Base(s).tr) = Path(mem, Base(s).tr)
  BY <1>1, PathsKept
<1>8. \A s \in Generators : sf[s].cp <= T
  <2>1. \A s \in Generators : sf[s].cp \in 1..T
    BY <1>1, OpenSaved DEF Generators, Generating
  <2> QED  BY <2>1
<1>9. \A c \in SuspendedCalls : c \in 1..T /\ Path(n, saved[c].tr) = Path(mem, saved[c].tr)
  BY <1>7, SuspendedTrails
<1>10. TrailAboveGenerators' /\ StacksAboveGenerators'
  <2>1. PICK U \in Nat : U = T + 1
    OBVIOUS
  <2>2. U = top_of_cpstack' /\ T <= top_of_cpstack /\ U <= T + 1 /\ (U = T + 1 => saved'[T + 1] = r)
    BY <1>3, <2>1
  <2>3. \A s \in Generators : sf'[s].cp = sf[s].cp /\ sf[s].cp <= T /\ Path(n, Base(s).tr) = Path(mem, Base(s).tr)
    BY <1>7, <1>8
  <2>4. \A s \in Subgoal : Generating(s)' =>
          \/ s \in Generators
          \/ U = T + 1 /\ sf'[s].cp = T + 1 /\ ComesAfter(n, r) /\ (running' => r.h <= n.h)
    BY <2>1
  <2>5. \A c \in SuspendedCalls' :
           \/ U = T + 1 /\ c = T + 1
           \/ /\ c \in 1..T /\ Path(n, saved[c].tr) = Path(mem, saved[c].tr)
              /\ c \in SuspendedCalls \/ \E t \in Generators : c = sf[t].cp
    BY <1>9, <2>1
  <2> QED  BY <1>1, <1>3, <1>5, <1>6, <2>1, <2>2, <2>3, <2>4, <2>5, AboveStays
<1> QED  BY <1>3, <1>4, <1>5, <1>6, <1>10

\* The call of s builds its variable, and what the choice point saves is the memory after that.
LEMMA CallSaves ==
  ASSUME MemoryInv, running, NEW s, NEW m, m = save_find_locx(calling(mem, s)), NEW t, t = template(m, s)
  PROVE  /\ IsMemory(mem) /\ IsMemory(m) /\ Onward(mem, m) /\ SameFrozen(mem, m) /\ t \in 0..Len(m.heap)
         /\ mem.ef <= m.eb
         /\ LET r == ChoicePointOf(m, t) IN
            /\ r \in SavedRegisters(m)
            /\ r.h = m.h /\ r.eb = m.eb /\ r.tr = m.tr /\ r.hf = m.hf /\ r.ef = m.ef /\ r.trf = m.trf
<1>1. PICK a : a = calling(mem, s)
  OBVIOUS
<1>2. IsMemory(mem) /\ Onward(mem, a) /\ SameFrozen(mem, a) /\ template(a, s) \in 0..Len(a.heap) /\ IsMemory(a)
  BY <1>1, CallingOn, OverNow DEF Onward
<1>3. Onward(a, m) /\ SameFrozen(a, m) /\ m.heap = a.heap /\ m.h = a.h /\ IsMemory(m) /\ a.ef <= m.eb
  BY <1>1, <1>2, SaveOn DEF Onward
<1>4. Onward(mem, m) /\ SameFrozen(mem, m)
  BY <1>2, <1>3, OnwardTwice DEF SameFrozen
<1>5. t \in 0..Len(m.heap)
  BY <1>2, <1>3 DEF template
<1>6. mem.ef <= m.eb
  BY <1>2, <1>3 DEF SameFrozen
<1> QED  BY <1>2, <1>3, <1>4, <1>5, <1>6, ChoicePointTyped

LEMMA NewProducerMemory ==
  ASSUME MemoryInv, EngineInv', NEW s \in Subgoal, NewProducerInMemory(s)
  PROVE  MemoryInv'
<1>1. EngineInv /\ MemoryTypeOK /\ Typed /\ StackInv /\ NewProducer(s) /\ ~ OpenTable(s) /\ running
  BY OverNow, EngineTops DEF NewProducerInMemory, NewProducer, Calling, OpenTable
<1>2. PICK T \in Nat : T = top_of_cpstack
  BY <1>1, EngineTops
<1>3. PICK k : k = T + 1
  OBVIOUS
<1>4. /\ Len(cps') = k /\ \A i \in 1..T : cps'[i] = cps[i]
      /\ top_of_cpstack' = k /\ openreg' = openreg + 1 /\ level_num' = level_num + 1
      /\ \A f \in 1..openreg : frames'[f] = frames[f]
      /\ frames'[openreg + 1].subgoal = s /\ frames'[openreg + 1].level = level_num + 1
      /\ \A t \in Subgoal : t # s => sf'[t] = sf[t]
      /\ sf'[s].asf = <<>> /\ sf'[s].cp = k /\ sf'[s].frame = openreg + 1
  BY <1>1, <1>2, <1>3, NewProducerFacts
<1>5. PICK m, t : m = save_find_locx(calling(mem, s)) /\ t = template(m, s)
  OBVIOUS
<1>6. PICK r : r = ChoicePointOf(m, t)
  OBVIOUS
<1>7. PICK n : n = mem'
  OBVIOUS
<1>8. /\ IsMemory(mem) /\ IsMemory(m) /\ Onward(mem, m) /\ SameFrozen(mem, m) /\ r \in SavedRegisters(m)
      /\ r.h = m.h /\ r.eb = m.eb /\ r.tr = m.tr /\ r.hf = m.hf /\ r.ef = m.ef /\ r.trf = m.trf
  BY <1>1, <1>5, <1>6, CallSaves
<1>9. saved' = Put(saved, k, r)
      /\ n = Entered(m, s, m.h, Clauses(program, s)[1], s, t)
  BY <1>2, <1>3, <1>5, <1>6, <1>7 DEF NewProducerInMemory, Entered
<1>10. Onward(m, n) /\ SameFrozen(m, n) /\ n.hb = m.h /\ n.h = m.h
  <2>1. Clauses(program, s)[1] \in Goal
    <3>1. Clauses(program, s) \in Seq(Goal) /\ Clauses(program, s) # <<>>
      BY <1>1, ProgramAssumption DEF Typed
    <3> QED  BY <3>1
  <2>2. PICK c, hb, p, x : c = Clauses(program, s)[1] /\ hb = m.h /\ p = s /\ x = s
    OBVIOUS
  <2>3. c \in Goal \cup {Asking} /\ hb \in {m.h, m.hb} /\ p \in Subgoal \cup {User} /\ IsMemory(m)
    BY <1>8, <2>1, <2>2
  <2>4. LET q == Entered(m, p, hb, c, x, t) IN Onward(m, q) /\ SameFrozen(m, q) /\ q.hb = hb /\ q.h = m.h
    BY <2>3, AllocateOn
  <2> QED  BY <1>9, <2>2, <2>4
<1>11. Onward(mem, n) /\ SameFrozen(mem, n) /\ Saves(mem, n, r) /\ r \in SavedRegisters(n) /\ IsMemory(n)
  <2>1. Saves(mem, n, r)
    BY <1>8, <1>10 DEF Saves
  <2>2. r \in SavedRegisters(n)
    BY <1>8, <1>10, SavedStays DEF Onward
  <2> QED  BY <1>8, <1>10, <2>1, <2>2, OnwardTwice DEF SameFrozen, Onward
<1>12. ComesAfter(n, r) /\ r.h <= n.h
  <2>1. r.tr \in Path(n, n.tr) /\ r.eb <= n.eb
    BY <1>8, <1>10 DEF Onward
  <2>2. m.h \in Nat
    BY <1>8, Registers
  <2> QED  BY <1>8, <1>10, <2>1, <2>2 DEF ComesAfter
<1>13. ASSUME NEW u \in Subgoal, u # s
       PROVE  /\ OpenTable(u)' <=> OpenTable(u)
              /\ OpenTable(u) => /\ sf'[u] = sf[u] /\ Consumers(u)' = Consumers(u) /\ sf[u].cp \in 1..T
                                 /\ sf[u].frame \in 1..openreg
                                 /\ IsGenerator(sf[u].cp)' <=> IsGenerator(sf[u].cp)
                                 /\ Leads(u)' <=> Leads(u)
  <2>1. sf'[u] = sf[u]
    BY <1>4, <1>13
  <2>2. OpenTable(u)' <=> OpenTable(u)
    BY <2>1 DEF OpenTable
  <2>3. ASSUME OpenTable(u)
        PROVE  /\ sf'[u] = sf[u] /\ Consumers(u)' = Consumers(u) /\ sf[u].cp \in 1..T /\ sf[u].frame \in 1..openreg
               /\ IsGenerator(sf[u].cp)' <=> IsGenerator(sf[u].cp)
               /\ Leads(u)' <=> Leads(u)
    <3>1. sf[u].cp \in 1..T /\ sf[u].frame \in 1..openreg /\ openreg \in Nat
      BY <1>1, <1>2, <2>3, OpenSaved
    <3>2. IsGenerator(sf[u].cp)' <=> IsGenerator(sf[u].cp)
      BY <1>4, <2>1, <3>1 DEF IsGenerator
    <3>3. frames'[sf[u].frame] = frames[sf[u].frame]
      BY <1>4, <3>1
    <3>4. sf[u].frame # 1 => frames'[sf[u].frame - 1] = frames[sf[u].frame - 1]
      BY <1>4, <3>1
    <3>5. Leads(u)' <=> Leads(u)
      BY <2>1, <3>3, <3>4 DEF Leads, is_leader
    <3>6. Consumers(u)' = Consumers(u)
      BY <2>1 DEF Consumers
    <3> QED  BY <2>1, <3>1, <3>2, <3>5, <3>6
  <2> QED  BY <2>2, <2>3
<1>14. Leads(s)'
  <2>1. openreg \in Nat /\ level_num \in Nat
    BY <1>1 DEF Typed
  <2>2. CASE openreg = 0
    BY <1>4, <2>1, <2>2 DEF Leads, is_leader
  <2>3. CASE openreg # 0
    <3>1. frames[openreg].level \in 1..level_num
      BY <1>1, <2>1, <2>3 DEF StackInv, LevelsNested
    <3>2. frames'[openreg].level \in 1..level_num
      BY <1>4, <2>1, <2>3, <3>1
    <3>3. (openreg + 1) - 1 = openreg /\ openreg + 1 # 1
      BY <2>1, <2>3
    <3>4. level_num + 1 > frames'[openreg].level
      BY <2>1, <3>2
    <3> QED  BY <1>4, <3>3, <3>4 DEF Leads, is_leader
  <2> QED  BY <2>2, <2>3
<1>15. SuspendedCalls' = SuspendedCalls
  <2>1. Consumers(s)' = {}
    BY <1>4 DEF Consumers, Range
  <2> QED  BY <1>1, <1>13, <2>1 DEF SuspendedCalls
<1>16. /\ MemoryTypeOK' /\ TrailAboveGenerators' /\ StacksAboveGenerators'
       /\ saved'[k] = r /\ \A i \in 1..T : saved'[i] = saved[i]
  <2>1. \A u \in Generators : sf'[u].cp = sf[u].cp
    BY <1>1, <1>13 DEF Generators, Generating
  <2>2. \A u \in Subgoal : Generating(u)' => u \in Generators \/ (sf'[u].cp = T + 1 /\ ComesAfter(n, r) /\ r.h <= n.h)
    BY <1>3, <1>4, <1>12, <1>13 DEF Generators, Generating
  <2>3. top_of_cpstack' = T + 1 /\ Len(cps') = T + 1 /\ saved' = Put(saved, T + 1, r)
    BY <1>3, <1>4, <1>9
  <2> QED  BY <1>1, <1>2, <1>3, <1>7, <1>11, <1>15, <2>1, <2>2, <2>3, PushesMemory
<1>17. DependentIsFrozen /\ FreezeRegisters /\ n.hf = mem.hf /\ n.ef = mem.ef /\ n.trf = mem.trf
       /\ r.hf = mem.hf /\ r.ef = mem.ef /\ r.trf = mem.trf
  BY <1>8, <1>11 DEF MemoryInv, FreezeInv, SameFrozen
<1>18. \A u \in Subgoal : u # s /\ OpenTable(u) => saved'[sf'[u].cp] = Base(u)
  BY <1>13, <1>16 DEF Base
<1>19. DependentIsFrozen'
  <2>1. ASSUME NEW u \in Subgoal, OpenTable(u)', ~ Leads(u)'
        PROVE  /\ Frozen(u, mem.hf, mem.ef, mem.trf) /\ saved'[sf'[u].cp] = Base(u)
               /\ \A t1 \in Subgoal : OpenTable(t1)' /\ Leads(t1)' /\ sf'[u].frame < sf'[t1].frame =>
                    LET b == saved'[sf'[t1].cp] IN Frozen(u, b.hf, b.ef, b.trf)
    <3>1. u # s /\ OpenTable(u) /\ ~ Leads(u) /\ sf'[u] = sf[u]
      BY <1>13, <1>14, <2>1
    <3>2. Frozen(u, mem.hf, mem.ef, mem.trf)
      BY <1>17, <3>1 DEF DependentIsFrozen
    <3>3. ASSUME NEW t1 \in Subgoal, OpenTable(t1)', Leads(t1)', sf'[u].frame < sf'[t1].frame
          PROVE  LET b == saved'[sf'[t1].cp] IN Frozen(u, b.hf, b.ef, b.trf)
      <4>1. CASE t1 = s
        BY <1>4, <1>16, <1>17, <3>2, <4>1
      <4>2. CASE t1 # s
        <5>1. OpenTable(t1) /\ Leads(t1) /\ sf'[t1] = sf[t1] /\ saved'[sf'[t1].cp] = Base(t1)
          BY <1>13, <1>18, <3>3, <4>2
        <5> QED  BY <1>17, <3>1, <3>3, <5>1 DEF DependentIsFrozen
      <4> QED  BY <4>1, <4>2
    <3> QED  BY <1>18, <3>1, <3>2, <3>3
  <2> QED  BY <1>7, <1>17, <2>1 DEF DependentIsFrozen, Frozen, Base
<1>20. FreezeRegisters'
  <2>1. \A c \in SuspendedCalls : c \in 1..T /\ saved'[c] = saved[c] /\ c < k
    <3>1. \A c \in SuspendedCalls : c \in 1..T
      BY <1>1, <1>2, OpenSaved
    <3> QED  BY <1>3, <1>16, <3>1
  <2>2. Freezes(n.hf, n.ef, n.trf, SuspendedCalls)'
    BY <1>15, <1>17, <2>1 DEF FreezeRegisters, Freezes
  <2>3. ASSUME NEW u \in Subgoal, Generating(u)'
        PROVE  Freezes(Base(u).hf, Base(u).ef, Base(u).trf, {c \in SuspendedCalls : c < sf[u].cp})'
    <3>1. CASE u = s
      <4>1. Base(u)' = r /\ sf'[u].cp = k
        BY <1>4, <1>16, <3>1 DEF Base
      <4>2. {c \in SuspendedCalls : c < sf[u].cp}' = SuspendedCalls
        BY <1>15, <2>1, <4>1
      <4> QED  BY <1>17, <2>1, <4>1, <4>2 DEF FreezeRegisters, Freezes
    <3>2. CASE u # s
      <4>1. Generating(u) /\ sf'[u] = sf[u] /\ Base(u)' = Base(u)
        BY <1>13, <1>18, <2>3, <3>2 DEF Generating, Base
      <4>2. Freezes(Base(u).hf, Base(u).ef, Base(u).trf, {c \in SuspendedCalls : c < sf[u].cp})
        BY <1>17, <4>1 DEF FreezeRegisters
      <4> QED  BY <1>15, <2>1, <4>1, <4>2 DEF Freezes
    <3> QED  BY <3>1, <3>2
  <2> QED  BY <1>7, <2>2, <2>3 DEF FreezeRegisters
<1> QED  BY <1>16, <1>19, <1>20 DEF MemoryInv, FreezeInv

\* What a consumer's choice point saves is frozen.
LEMMA ConsumeSaves ==
  ASSUME MemoryInv, NEW s, ConsumeInMemory(s), running,
         NEW T, T = top_of_cpstack, NEW n, n = mem'
  PROVE  \E r \in SavedRegisters(n) :
           /\ Onward(mem, n) /\ Saves(mem, n, r) /\ saved' = Put(saved, T + 1, r)
           /\ n.hf = Higher(mem.hf, r.h) /\ n.trf = Higher(mem.trf, r.tr) /\ n.ef = r.eb /\ mem.ef <= r.eb
<1>1. PICK m, t : m = save_find_locx(calling(mem, s)) /\ t = template(m, s)
  OBVIOUS
<1>2. IsMemory(mem) /\ IsMemory(m) /\ Onward(mem, m) /\ SameFrozen(mem, m) /\ t \in 0..Len(m.heap) /\ mem.ef <= m.eb
  BY <1>1, CallSaves
<1>3. PICK p : p = freeze(m)
  OBVIOUS
<1>4. /\ Onward(m, p) /\ p.h = m.h /\ p.eb = m.eb /\ p.tr = m.tr /\ p.heap = m.heap /\ IsMemory(p)
      /\ p.ef = m.eb /\ p.hf = Higher(m.hf, m.h) /\ p.trf = Higher(m.trf, m.tr)
  BY <1>2, <1>3, FreezeOn DEF Onward
<1>5. template(p, s) = t
  BY <1>1, <1>4 DEF template
<1>6. PICK r : r = ChoicePointOf(p, t)
  OBVIOUS
<1>7. r \in SavedRegisters(p) /\ r.h = p.h /\ r.eb = p.eb /\ r.tr = p.tr
  <2>1. t \in 0..Len(p.heap)
    BY <1>2, <1>4
  <2> QED  BY <1>4, <1>6, <2>1, ChoicePointTyped
<1>8. PICK q : q = [p EXCEPT !.hb = p.h]
  OBVIOUS
<1>9. /\ saved' = Put(saved, T + 1, r)
      /\ n = p \/ n = table_consume_answer(q, t, sf[s].answers[1])
  BY <1>1, <1>3, <1>5, <1>6, <1>8 DEF ConsumeInMemory
<1>10. Onward(p, n) /\ SameFrozen(p, n) /\ IsMemory(n)
  <2>1. CASE n = p
    <3>1. SameButCells(p, p)
      BY <1>4 DEF SameButCells
    <3> QED  BY <1>4, <2>1, <3>1, CellsOn
  <2>2. CASE n = table_consume_answer(q, t, sf[s].answers[1])
    <3>1. Onward(p, q) /\ SameFrozen(p, q) /\ IsMemory(q)
      BY <1>4, <1>8, ChoicePointOn DEF Onward
    <3>2. n \in {unify_with_trie(q, t, sf[s].answers[1]), table_consume_answer(q, t, sf[s].answers[1])}
      BY <2>2
    <3>3. Onward(q, n) /\ SameFrozen(q, n)
      BY <3>1, <3>2, ReturnOn
    <3> QED  BY <1>4, <3>1, <3>3, OnwardTwice, SMTT(30) DEF SameFrozen, Onward
  <2> QED  BY <1>9, <2>1, <2>2
<1>11. Onward(mem, p) /\ Onward(mem, n)
  BY <1>2, <1>4, <1>10, OnwardTwice
<1>12. Saves(mem, n, r)
  BY <1>7, <1>10, <1>11 DEF Saves
<1>13. r \in SavedRegisters(n)
  BY <1>4, <1>7, <1>10, SavedStays DEF Onward
<1>14. n.hf = Higher(mem.hf, r.h) /\ n.trf = Higher(mem.trf, r.tr) /\ n.ef = r.eb /\ mem.ef <= r.eb
  BY <1>2, <1>4, <1>7, <1>10 DEF SameFrozen
<1> QED  BY <1>9, <1>11, <1>12, <1>13, <1>14

LEMMA ConsumeMemory ==
  ASSUME MemoryInv, EngineInv', NEW s \in Subgoal, ConsumeInMemory(s)
  PROVE  MemoryInv'
<1>1. EngineInv /\ MemoryTypeOK /\ Typed /\ StackInv /\ TablesAreSound /\ Consume(s) /\ running /\ IsMemory(mem)
  BY OverNow, EngineTops DEF ConsumeInMemory, Consume, Calling
<1>2. PICK T \in Nat : T = top_of_cpstack
  BY <1>1, EngineTops
<1>3. PICK k : k = T + 1
  OBVIOUS
<1>4. PICK g : g = sf[s].frame
  OBVIOUS
<1>5. /\ OpenTable(s) /\ Len(cps') = k /\ \A i \in 1..T : cps'[i] = cps[i]
      /\ top_of_cpstack' = k /\ openreg' = openreg
      /\ \A f \in 1..openreg : /\ f < g => frames'[f].level = frames[f].level
                               /\ g <= f => frames'[f].level = frames[g].level
      /\ \A u \in Subgoal : /\ u # s => sf'[u] = sf[u]
                            /\ OpenTable(u)' = OpenTable(u) /\ sf'[u].cp = sf[u].cp /\ sf'[u].frame = sf[u].frame
      /\ Consumers(s)' = {k} \cup Consumers(s)
  BY <1>1, <1>2, <1>3, <1>4, ConsumeFacts
<1>6. PICK n : n = mem'
  OBVIOUS
<1>7. PICK r \in SavedRegisters(n) :
           /\ Onward(mem, n) /\ Saves(mem, n, r) /\ saved' = Put(saved, T + 1, r)
           /\ n.hf = Higher(mem.hf, r.h) /\ n.trf = Higher(mem.trf, r.tr) /\ n.ef = r.eb /\ mem.ef <= r.eb
  BY <1>1, <1>2, <1>6, ConsumeSaves
<1>8. ASSUME NEW u \in Subgoal, OpenTable(u)
      PROVE  /\ sf[u].cp \in 1..T /\ sf[u].frame \in 1..openreg /\ openreg \in Nat /\ g \in 1..openreg
             /\ IsGenerator(sf[u].cp)' <=> IsGenerator(sf[u].cp)
             /\ Leads(u)' => Leads(u) /\ sf[u].frame <= g
             /\ ~ Leads(u)' => ~ Leads(u) \/ g < sf[u].frame
  <2>1. sf[u].cp \in 1..T /\ sf[u].frame \in 1..openreg /\ openreg \in Nat /\ g \in 1..openreg
    BY <1>1, <1>2, <1>4, <1>5, <1>8, OpenSaved
  <2>2. IsGenerator(sf[u].cp)' <=> IsGenerator(sf[u].cp)
    BY <1>5, <2>1 DEF IsGenerator
  <2>3. PICK f \in 1..openreg : f = sf[u].frame
    BY <2>1
  <2>4. Leads(u) <=> is_leader(f)
    BY <2>3 DEF Leads
  <2>5. Leads(u)' <=> is_leader(f)'
    BY <1>5, <2>3 DEF Leads
  <2>6. CASE f <= g
    <3>1. frames'[f].level = frames[f].level
      BY <1>5, <2>1, <2>3, <2>6
    <3>2. f # 1 => frames'[f - 1].level = frames[f - 1].level
      BY <1>5, <2>1, <2>3, <2>6
    <3>3. is_leader(f)' <=> is_leader(f)
      BY <3>1, <3>2 DEF is_leader
    <3> QED  BY <2>3, <2>4, <2>5, <2>6, <3>3, <2>1, <2>2
  <2>7. CASE g < f
    <3>1. f - 1 \in 1..openreg /\ g <= f - 1 /\ g <= f /\ f # 1
      BY <2>1, <2>3, <2>7
    <3>2. frames'[f].level = frames[g].level /\ frames'[f - 1].level = frames[g].level
      BY <1>5, <2>3, <3>1
    <3>3. frames[g].level \in Nat
      BY <1>1, <2>1, FrameTyped
    <3>4. ~ is_leader(f)'
      BY <3>1, <3>2, <3>3 DEF is_leader
    <3> QED  BY <2>1, <2>2, <2>3, <2>5, <2>7, <3>4
  <2> QED  BY <2>1, <2>3, <2>6, <2>7
<1>9. SuspendedCalls' = {k} \cup SuspendedCalls
  <2>1. \A u \in Subgoal : u # s => Consumers(u)' = Consumers(u)
    BY <1>5 DEF Consumers
  <2>2. ASSUME NEW c
        PROVE  c \in SuspendedCalls' <=> c = k \/ c \in SuspendedCalls
    BY <1>5, <2>1 DEF SuspendedCalls
  <2> QED  BY <2>2
<1>10. /\ MemoryTypeOK' /\ TrailAboveGenerators' /\ StacksAboveGenerators'
       /\ saved'[k] = r /\ \A i \in 1..T : saved'[i] = saved[i]
       /\ Above(Generators, n, r)
  <2>1. \A u \in Generators : sf'[u].cp = sf[u].cp
    BY <1>5 DEF Generators
  <2>2. \A u \in Subgoal : Generating(u)' => u \in Generators \/ (sf'[u].cp = T + 1 /\ ComesAfter(n, r) /\ r.h <= n.h)
    BY <1>5, <1>8 DEF Generators, Generating
  <2>3. top_of_cpstack' = T + 1 /\ Len(cps') = T + 1
    BY <1>3, <1>5
  <2>4. \A c \in SuspendedCalls' : c = T + 1 \/ c \in SuspendedCalls
    BY <1>3, <1>9
  <2> QED  BY <1>1, <1>2, <1>3, <1>6, <1>7, <2>1, <2>2, <2>3, <2>4, PushesMemory
<1>11. DependentIsFrozen /\ FreezeRegisters
  BY DEF MemoryInv, FreezeInv
<1>12. /\ mem.hf \in Nat /\ mem.ef \in Nat /\ mem.trf \in Nat /\ r.h \in Nat /\ r.eb \in Nat /\ r.tr \in Nat /\ IsMemory(n)
       /\ r.tr \in 1..Len(n.trail)
  <2>1. IsMemory(n)
    BY <1>7 DEF Onward
  <2> QED  BY <1>1, <1>7, <2>1, Registers, SavedTyped
<1>13. /\ mem.hf <= n.hf /\ r.h <= n.hf /\ (n.hf = mem.hf \/ n.hf = r.h)
       /\ mem.ef <= n.ef /\ r.eb <= n.ef /\ n.ef = r.eb
       /\ mem.trf <= n.trf /\ r.tr <= n.trf /\ (n.trf = mem.trf \/ n.trf = r.tr)
       /\ n.hf \in Nat /\ n.ef \in Nat /\ n.trf \in Nat
  BY <1>7, <1>12 DEF Higher
<1>14. \A u \in Subgoal : OpenTable(u) => /\ Base(u)' = Base(u) /\ Base(u).h \in Nat /\ Base(u).eb \in Nat /\ Base(u).tr \in Nat
  BY <1>1, <1>2, <1>5, <1>8, <1>10, OpenSaved DEF Base
<1>15. DependentIsFrozen'
  <2>1. ASSUME NEW u \in Subgoal, OpenTable(u)', ~ Leads(u)'
        PROVE  /\ Frozen(u, n.hf, n.ef, n.trf) /\ Base(u)' = Base(u)
               /\ \A t \in Subgoal : OpenTable(t)' /\ Leads(t)' /\ sf'[u].frame < sf'[t].frame =>
                    Frozen(u, Base(t).hf, Base(t).ef, Base(t).trf) /\ Base(t)' = Base(t)
    <3>1. OpenTable(u) /\ Base(u)' = Base(u) /\ Base(u).h \in Nat /\ Base(u).eb \in Nat /\ Base(u).tr \in Nat
      BY <1>5, <1>14, <2>1
    <3>2. Frozen(u, n.hf, n.ef, n.trf)
      <4>1. CASE ~ Leads(u)
        <5>1. Base(u).h <= mem.hf /\ Base(u).eb <= mem.ef /\ Base(u).tr <= mem.trf
          BY <1>11, <3>1, <4>1 DEF DependentIsFrozen, Frozen
        <5>2. Base(u).h <= n.hf
          <6>1. Base(u).h \in Nat /\ mem.hf \in Nat /\ n.hf \in Nat
            BY <1>12, <1>13, <3>1
          <6>2. Base(u).h <= mem.hf /\ mem.hf <= n.hf
            BY <1>13, <5>1
          <6> QED  BY <6>1, <6>2, AtMostTwice, Zenon
        <5>3. Base(u).eb <= n.ef
          <6>1. Base(u).eb \in Nat /\ mem.ef \in Nat /\ n.ef \in Nat
            BY <1>12, <1>13, <3>1
          <6>2. Base(u).eb <= mem.ef /\ mem.ef <= n.ef
            BY <1>13, <5>1
          <6> QED  BY <6>1, <6>2, AtMostTwice, Zenon
        <5>4. Base(u).tr <= n.trf
          <6>1. Base(u).tr \in Nat /\ mem.trf \in Nat /\ n.trf \in Nat
            BY <1>12, <1>13, <3>1
          <6>2. Base(u).tr <= mem.trf /\ mem.trf <= n.trf
            BY <1>13, <5>1
          <6> QED  BY <6>1, <6>2, AtMostTwice, Zenon
        <5> QED  BY <5>2, <5>3, <5>4 DEF Frozen
      <4>2. CASE Leads(u)
        <5>1. u \in Generators
          BY <1>1, <3>1, <4>2 DEF StackInv, LeadersLeaveRest, Generators, Generating
        <5>2. Base(u).h <= r.h /\ Base(u).eb <= r.eb /\ Base(u).tr \in Path(n, r.tr)
          BY <1>10, <5>1 DEF Above
        <5>3. Base(u).tr \in 1..r.tr
          BY <1>12, <5>2, PathDown
        <5>4. Base(u).tr <= r.tr
          BY <1>12, <5>3
        <5>5. Base(u).h <= n.hf
          <6>1. Base(u).h \in Nat /\ r.h \in Nat /\ n.hf \in Nat
            BY <1>12, <1>13, <3>1
          <6>2. Base(u).h <= r.h /\ r.h <= n.hf
            BY <1>13, <5>2
          <6> QED  BY <6>1, <6>2, AtMostTwice, Zenon
        <5>6. Base(u).eb <= n.ef
          <6>1. Base(u).eb \in Nat /\ r.eb \in Nat /\ n.ef \in Nat
            BY <1>12, <1>13, <3>1
          <6>2. Base(u).eb <= r.eb /\ r.eb <= n.ef
            BY <1>13, <5>2
          <6> QED  BY <6>1, <6>2, AtMostTwice, Zenon
        <5>7. Base(u).tr <= n.trf
          <6>1. Base(u).tr \in Nat /\ r.tr \in Nat /\ n.trf \in Nat
            BY <1>12, <1>13, <3>1
          <6>2. Base(u).tr <= r.tr /\ r.tr <= n.trf
            BY <1>13, <5>4
          <6> QED  BY <6>1, <6>2, AtMostTwice, Zenon
        <5> QED  BY <5>5, <5>6, <5>7 DEF Frozen
      <4> QED  BY <4>1, <4>2
    <3>3. ASSUME NEW t \in Subgoal, OpenTable(t)', Leads(t)', sf'[u].frame < sf'[t].frame
          PROVE  Frozen(u, Base(t).hf, Base(t).ef, Base(t).trf) /\ Base(t)' = Base(t)
      <4>1. OpenTable(t) /\ sf[u].frame < sf[t].frame /\ Base(t)' = Base(t)
        BY <1>5, <1>14, <3>3
      <4>2. Leads(t) /\ sf[t].frame <= g
        BY <1>8, <3>3, <4>1
      <4>3. ~ g < sf[u].frame
        BY <1>8, <3>1, <4>1, <4>2
      <4>4. ~ Leads(u)
        BY <1>8, <2>1, <3>1, <4>3
      <4> QED  BY <1>11, <3>1, <4>1, <4>2, <4>4 DEF DependentIsFrozen
    <3> QED  BY <3>1, <3>2, <3>3
  <2> QED  BY <1>6, <2>1 DEF DependentIsFrozen, Frozen
<1>16. FreezeRegisters'
  <2>1. \A c \in SuspendedCalls : c \in 1..T /\ saved'[c] = saved[c]
    BY <1>1, <1>2, <1>10, OpenSaved
  <2>2. Freezes(mem.hf, mem.ef, mem.trf, SuspendedCalls)
    BY <1>11 DEF FreezeRegisters
  <2>3. ASSUME NEW c \in SuspendedCalls'
        PROVE  saved'[c].h <= n.hf /\ saved'[c].eb <= n.ef /\ saved'[c].tr <= n.trf
    <3>1. CASE c = k
      BY <1>10, <1>13, <3>1
    <3>2. CASE c \in SuspendedCalls
      <4>1. saved[c].h <= mem.hf /\ saved[c].eb <= mem.ef /\ saved[c].tr <= mem.trf
        BY <2>2, <3>2 DEF Freezes
      <4>2. saved[c].h \in Nat /\ saved[c].eb \in Nat /\ saved[c].tr \in Nat
        BY <1>1, <3>2, OpenSaved
      <4>3. saved[c].h <= n.hf
        <5>1. saved[c].h \in Nat /\ mem.hf \in Nat /\ n.hf \in Nat
          BY <1>12, <1>13, <4>2
        <5>2. saved[c].h <= mem.hf /\ mem.hf <= n.hf
          BY <1>13, <4>1
        <5> QED  BY <5>1, <5>2, AtMostTwice, Zenon
      <4>4. saved[c].eb <= n.ef
        <5>1. saved[c].eb \in Nat /\ mem.ef \in Nat /\ n.ef \in Nat
          BY <1>12, <1>13, <4>2
        <5>2. saved[c].eb <= mem.ef /\ mem.ef <= n.ef
          BY <1>13, <4>1
        <5> QED  BY <5>1, <5>2, AtMostTwice, Zenon
      <4>5. saved[c].tr <= n.trf
        <5>1. saved[c].tr \in Nat /\ mem.trf \in Nat /\ n.trf \in Nat
          BY <1>12, <1>13, <4>2
        <5>2. saved[c].tr <= mem.trf /\ mem.trf <= n.trf
          BY <1>13, <4>1
        <5> QED  BY <5>1, <5>2, AtMostTwice, Zenon
      <4> QED  BY <2>1, <3>2, <4>3, <4>4, <4>5
    <3> QED  BY <1>9, <3>1, <3>2
  <2>4. /\ n.hf = 1 \/ \E c \in SuspendedCalls' : n.hf = saved'[c].h
        /\ n.ef = 0 \/ \E c \in SuspendedCalls' : n.ef = saved'[c].eb
        /\ n.trf = BottomOfTrail \/ \E c \in SuspendedCalls' : n.trf = saved'[c].tr
    <3>1. k \in SuspendedCalls' /\ saved'[k] = r /\ \A c \in SuspendedCalls : c \in SuspendedCalls' /\ saved'[c] = saved[c]
      BY <1>9, <1>10, <2>1
    <3>2. n.hf = 1 \/ \E c \in SuspendedCalls' : n.hf = saved'[c].h
      BY <1>13, <2>2, <3>1 DEF Freezes
    <3>3. n.ef = 0 \/ \E c \in SuspendedCalls' : n.ef = saved'[c].eb
      BY <1>13, <3>1
    <3>4. n.trf = BottomOfTrail \/ \E c \in SuspendedCalls' : n.trf = saved'[c].tr
      BY <1>13, <2>2, <3>1 DEF Freezes
    <3> QED  BY <3>2, <3>3, <3>4
  <2>5. Freezes(n.hf, n.ef, n.trf, SuspendedCalls)'
    BY <1>6, <2>3, <2>4 DEF Freezes
  <2>6. ASSUME NEW u \in Subgoal, Generating(u)'
        PROVE  Freezes(Base(u).hf, Base(u).ef, Base(u).trf, {c \in SuspendedCalls : c < sf[u].cp})'
    <3>1. OpenTable(u) /\ Generating(u) /\ sf'[u].cp = sf[u].cp /\ Base(u)' = Base(u) /\ sf[u].cp \in 1..T
      BY <1>5, <1>8, <1>14, <2>6 DEF Generating
    <3>2. ~ k < sf[u].cp
      BY <1>3, <3>1
    <3>3. {c \in SuspendedCalls : c < sf[u].cp}' = {c \in SuspendedCalls : c < sf[u].cp}
      BY <1>9, <3>1, <3>2
    <3>4. Freezes(Base(u).hf, Base(u).ef, Base(u).trf, {c \in SuspendedCalls : c < sf[u].cp})
      BY <1>11, <3>1 DEF FreezeRegisters
    <3> QED  BY <2>1, <3>1, <3>3, <3>4 DEF Freezes
  <2> QED  BY <1>6, <2>5, <2>6 DEF FreezeRegisters
<1> QED  BY <1>10, <1>15, <1>16 DEF MemoryInv, FreezeInv

(* A generator that becomes a consumer. *)

\* Nothing is pushed.
BelowStays(G, n, T) ==
  /\ n = mem' /\ IsMemory(n) /\ T = top_of_cpstack' /\ T \in Nat /\ T <= top_of_cpstack
  /\ \A i \in 1..T : saved'[i] = saved[i]
  /\ G \in SUBSET Generators /\ Over(G, n) /\ (running' => Uses(G, n))
  /\ \A s \in G : sf'[s].cp = sf[s].cp /\ sf[s].cp <= T /\ Path(n, Base(s).tr) = Path(mem, Base(s).tr)
  /\ \A s \in Subgoal : Generating(s)' => s \in G
  /\ \A c \in SuspendedCalls' :
        /\ c \in 1..T /\ Path(n, saved[c].tr) = Path(mem, saved[c].tr)
        /\ c \in SuspendedCalls \/ \E t \in Generators : c = sf[t].cp
LEMMA BelowIsAbove ==
  ASSUME MemoryInv, NEW G, NEW n, NEW T, BelowStays(G, n, T)
  PROVE  TrailAboveGenerators' /\ StacksAboveGenerators'
<1>1. PICK r : r = [tr |-> n.tr, h |-> n.hb, eb |-> n.eb]
  OBVIOUS
<1>2. r.tr \in 1..Len(n.trail) /\ Above(G, n, r)
  BY <1>1, Registers DEF Above, Over, BelowStays
<1>3. T \in Nat
  BY DEF BelowStays
<1>4. T <= T + 1 /\ T # T + 1
  BY <1>3
<1> QED  BY <1>2, <1>3, <1>4, AboveStays DEF BelowStays

\* A generator that becomes a consumer: what it saved is frozen already.
LEMMA makeConsumerMemory ==
  ASSUME MemoryInv, EngineInv', NEW s \in Subgoal, makeConsumerInMemory(s)
  PROVE  MemoryInv'
<1>1. /\ EngineInv /\ MemoryTypeOK /\ Typed /\ StackInv /\ makeConsumerFromGenerator(s) /\ IsMemory(mem)
      /\ saved' = saved /\ Len(cps) <= Len(saved) /\ Len(cps) \in Nat
  BY OverNow, EngineTops DEF makeConsumerInMemory, MemoryInv, MemoryTypeOK
<1>2. PICK T \in Nat : T = top_of_cpstack
  BY <1>1, EngineTops
<1>3. PICK k : k = breg
  OBVIOUS
<1>4. PICK b : b = cps[k].prev
  OBVIOUS
<1>5. /\ OpenTable(s) /\ sf[s].cp = k /\ IsGenerator(k) /\ ~ Leads(s)
      /\ k \in 2..T /\ top_of_cpstack' = T /\ b \in 1..T /\ b < k /\ Len(cps') = Len(cps)
      /\ \A i \in 1..Len(cps) : i # k => cps'[i] = cps[i]
      /\ cps'[k].pc = "answer_return"
      /\ \A u \in Subgoal : /\ u # s => sf'[u] = sf[u]
                            /\ OpenTable(u)' = OpenTable(u) /\ sf'[u].cp = sf[u].cp /\ sf'[u].frame = sf[u].frame
      /\ Consumers(s)' = {k} \cup Consumers(s)
      /\ ~ running' /\ UNCHANGED <<frames, openreg>>
  BY <1>1, <1>2, <1>3, <1>4, makeConsumerFacts
<1>6. cps[k].ptcp \in Subgoal \cup {User} /\ s \in Generators /\ T <= Len(cps)
  BY <1>1, <1>2, <1>3, <1>5, FailsTo DEF Generators, Generating
<1>7. PICK G : G = {u \in Generators : u # s}
  OBVIOUS
<1>8. ASSUME NEW u \in Subgoal, OpenTable(u)
      PROVE  /\ sf[u].cp \in 1..T /\ sf[u].cp \in 1..Len(cps)
             /\ u # s => sf[u].cp # k /\ (IsGenerator(sf[u].cp)' <=> IsGenerator(sf[u].cp))
             /\ Leads(u)' <=> Leads(u)
  <2>1. sf[u].cp \in 1..T
    BY <1>1, <1>2, <1>8, OpenSaved
  <2>2. sf[u].cp \in 1..Len(cps)
    BY <1>1, <1>2, <1>6, <2>1
  <2>3. u # s => sf[u].cp # k
    BY <1>1, <1>5, <1>8, AgeOrder
  <2>4. u # s => (IsGenerator(sf[u].cp)' <=> IsGenerator(sf[u].cp))
    BY <1>5, <2>2, <2>3 DEF IsGenerator
  <2>5. Leads(u)' <=> Leads(u)
    BY <1>5 DEF Leads, is_leader
  <2> QED  BY <2>1, <2>2, <2>3, <2>4, <2>5
<1>9. G \in SUBSET Generators /\ \A u \in G : sf[u].cp \in 1..T /\ sf[u].cp <= b
  <2>1. G \in SUBSET Generators
    BY <1>7
  <2>2. ASSUME NEW u \in G
        PROVE  sf[u].cp \in 1..T /\ sf[u].cp <= b
    <3>1. u \in Subgoal /\ Generating(u) /\ OpenTable(u) /\ u # s /\ u \in Generators
      BY <1>7 DEF Generators, Generating
    <3>2. sf[u].cp <= k /\ sf[u].cp # k /\ sf[u].cp \in 1..T
      BY <1>3, <1>8, <3>1, OverNow
    <3>3. Waits(sf[u].cp)
      BY <3>1 DEF Generating, Waits
    <3>4. sf[u].cp < k
      BY <1>5, <3>2
    <3>5. sf[u].cp <= b
      BY <1>1, <1>2, <1>4, <1>5, <3>2, <3>3, <3>4 DEF StackInv, Stacked, NoneIsSkipped
    <3> QED  BY <3>2, <3>5
  <2> QED  BY <2>1, <2>2
<1>10. PICK v : v = switch_envs(mem, k)
  OBVIOUS
<1>11. PICK p : p = Called(v, cps[k].ptcp)
  OBVIOUS
<1>12. Back(mem, p) /\ Over(Generators, p)
  <2>1. Back(mem, v) /\ Over(Generators, v)
    BY <1>3, <1>5, <1>6, <1>10, SwitchedOver
  <2> QED  BY <1>6, <1>11, <2>1, ptcpOver DEF Called
<1>13. PICK n : n = mem'
  OBVIOUS
<1>14. Bounded(p, n, saved[b].h, saved[b].eb)
  <2>1. n = [AtGenerator EXCEPT !.hb = saved[b].h, !.eb = saved[b].eb]
    BY <1>3, <1>4, <1>13 DEF makeConsumerInMemory
  <2>2. AtGenerator = p
    BY <1>3, <1>10, <1>11 DEF AtGenerator, Called
  <2> QED  BY <2>1, <2>2 DEF Bounded
<1>15. /\ IsMemory(n) /\ n.trail = mem.trail /\ SameFrozen(mem, n) /\ Over(G, n)
       /\ Len(n.heap) = Len(mem.heap) /\ Len(n.env) = Len(mem.env)
  <2>1. Over(G, p)
    BY <1>9, <1>12 DEF Over
  <2>2. b \in 1..top_of_cpstack
    BY <1>2, <1>5
  <2>3. BoundedAt(G, p, b, n)
    BY <1>9, <1>12, <1>14, <2>1, <2>2 DEF BoundedAt
  <2> QED  BY <2>3, BoundedOver
<1>16. Len(mem.trail) \in Nat /\ \A t \in 1..Len(mem.trail) : Path(n, t) = Path(mem, t)
  <2>1. PICK l \in Nat : l = Len(mem.trail)
    BY <1>1, Registers
  <2>2. \A t \in 1..l : Path(n, t) = Path(mem, t)
    BY <1>1, <1>15, <2>1, PathStays
  <2> QED  BY <2>1, <2>2
<1>17. SuspendedCalls' = {k} \cup SuspendedCalls
  <2>1. \A u \in Subgoal : u # s => Consumers(u)' = Consumers(u)
    BY <1>5 DEF Consumers
  <2>2. ASSUME NEW c
        PROVE  c \in SuspendedCalls' <=> c = k \/ c \in SuspendedCalls
    BY <1>5, <2>1 DEF SuspendedCalls
  <2> QED  BY <2>2
<1>18. \A u \in Subgoal : Generating(u)' => u \in G
  <2>1. ~ Generating(s)'
    <3>1. sf'[s].cp = k
      BY <1>5
    <3> QED  BY <1>5, <3>1 DEF Generating, IsGenerator
  <2>2. \A u \in Subgoal : u # s /\ Generating(u)' => Generating(u)
    BY <1>5, <1>8 DEF Generating
  <2> QED  BY <1>7, <2>1, <2>2 DEF Generators
<1>19. MemoryTypeOK'
  <2>1. Len(mem.heap) \in Nat /\ Len(mem.env) \in Nat
    BY <1>1, Registers
  <2>2. /\ Len(mem.heap) <= Len(n.heap) /\ Len(mem.env) <= Len(n.env) /\ Len(mem.trail) <= Len(n.trail)
        /\ Len(cps') \in Nat /\ Len(cps') <= Len(saved)
    BY <1>1, <1>5, <1>15, <1>16, <2>1
  <2> QED  BY <1>1, <1>13, <1>15, <2>2, TypeStays
<1>20. TrailAboveGenerators' /\ StacksAboveGenerators'
  <2>3. T <= top_of_cpstack /\ T = top_of_cpstack' /\ \A i \in 1..T : saved'[i] = saved[i]
    BY <1>1, <1>2, <1>5
  <2>4. ASSUME NEW u \in G
        PROVE  sf'[u].cp = sf[u].cp /\ sf[u].cp <= T /\ Path(n, Base(u).tr) = Path(mem, Base(u).tr)
    <3>1. u \in Subgoal /\ sf[u].cp \in 1..T
      BY <1>7, <1>9 DEF Generators
    <3>2. Base(u).tr \in 1..Len(mem.trail)
      BY <1>1, <1>2, <3>1, OpenSaved DEF Base
    <3> QED  BY <1>5, <1>16, <3>1, <3>2
  <2>5. ASSUME NEW c \in SuspendedCalls'
        PROVE  /\ c \in 1..T /\ Path(n, saved[c].tr) = Path(mem, saved[c].tr)
               /\ c \in SuspendedCalls \/ \E t \in Generators : c = sf[t].cp
    <3>1. c \in SuspendedCalls \/ \E t \in Generators : c = sf[t].cp
      BY <1>5, <1>6, <1>17
    <3>2. c \in 1..T
      <4>1. CASE c = k
        BY <1>5, <4>1
      <4>2. CASE c \in SuspendedCalls
        BY <1>1, <1>2, <4>2, OpenSaved
      <4> QED  BY <1>17, <4>1, <4>2
    <3>3. saved[c].tr \in 1..Len(mem.trail)
      BY <1>1, <1>2, <3>2, OpenSaved
    <3> QED  BY <1>16, <3>1, <3>2, <3>3
  <2>6. G \in SUBSET Generators /\ IsMemory(n) /\ Over(G, n) /\ ~ running'
    BY <1>5, <1>9, <1>15
  <2>7. BelowStays(G, n, T)
    BY <1>13, <1>18, <2>3, <2>4, <2>5, <2>6 DEF BelowStays
  <2> QED  BY <2>7, BelowIsAbove
<1>21. DependentIsFrozen /\ FreezeRegisters /\ n.hf = mem.hf /\ n.ef = mem.ef /\ n.trf = mem.trf
  BY <1>15 DEF MemoryInv, FreezeInv, SameFrozen
<1>22. \A u \in Subgoal : OpenTable(u) => Base(u)' = Base(u)
  BY <1>1, <1>5 DEF Base
<1>23. DependentIsFrozen'
  <2>1. ASSUME NEW u \in Subgoal, OpenTable(u)', ~ Leads(u)'
        PROVE  /\ Frozen(u, mem.hf, mem.ef, mem.trf) /\ Base(u)' = Base(u)
               /\ \A t \in Subgoal : OpenTable(t)' /\ Leads(t)' /\ sf'[u].frame < sf'[t].frame =>
                    Frozen(u, Base(t).hf, Base(t).ef, Base(t).trf) /\ Base(t)' = Base(t)
    BY <1>5, <1>8, <1>21, <1>22, <2>1 DEF DependentIsFrozen
  <2> QED  BY <1>13, <1>21, <2>1 DEF DependentIsFrozen, Frozen
<1>24. FreezeRegisters'
  <2>1. Freezes(mem.hf, mem.ef, mem.trf, SuspendedCalls)
    BY <1>21 DEF FreezeRegisters
  <2>2. saved[k].h <= mem.hf /\ saved[k].eb <= mem.ef /\ saved[k].tr <= mem.trf
    BY <1>5, <1>21 DEF DependentIsFrozen, Frozen, Base
  <2>3. Freezes(n.hf, n.ef, n.trf, SuspendedCalls)'
    BY <1>1, <1>13, <1>17, <1>21, <2>1, <2>2 DEF Freezes
  <2>4. ASSUME NEW u \in Subgoal, Generating(u)'
        PROVE  Freezes(Base(u).hf, Base(u).ef, Base(u).trf, {c \in SuspendedCalls : c < sf[u].cp})'
    <3>1. u \in G /\ Generating(u) /\ sf'[u].cp = sf[u].cp /\ Base(u)' = Base(u)
      BY <1>5, <1>7, <1>18, <1>22, <2>4 DEF Generators, Generating
    <3>2. ~ k < sf[u].cp
      BY <1>5, <1>9, <3>1
    <3>3. {c \in SuspendedCalls : c < sf[u].cp}' = {c \in SuspendedCalls : c < sf[u].cp}
      BY <1>17, <3>1, <3>2
    <3>4. Freezes(Base(u).hf, Base(u).ef, Base(u).trf, {c \in SuspendedCalls : c < sf[u].cp})
      BY <1>21, <3>1 DEF FreezeRegisters
    <3> QED  BY <1>1, <3>1, <3>3, <3>4 DEF Freezes
  <2> QED  BY <1>13, <2>3, <2>4 DEF FreezeRegisters
<1> QED  BY <1>19, <1>20, <1>23, <1>24 DEF MemoryInv, FreezeInv

(* Completion: the freeze registers go back to what the leader saved. *)

\* What a leader's completion leaves: the tables older than it.
LEMMA CompleteLeaves ==
  ASSUME MemoryInv, EngineInv', NEW s \in Subgoal, Complete(s),
         NEW k, k = breg, NEW b, b = cps[k].prev, NEW T, T = Higher(b, bfreg')
  PROVE  /\ OpenTable(s) /\ Generating(s) /\ sf[s].cp = k /\ Leads(s) /\ k \in 2..top_of_cpstack
         /\ find_fixpoint(s)[k].prev = b /\ b \in 1..T /\ T \in 1..k - 1 /\ b \in 1..top_of_cpstack
         /\ \A i \in 1..T : cps'[i] = cps[i]
         /\ \A t \in Subgoal : OpenTable(t)' =>
              /\ OpenTable(t) /\ sf'[t] = sf[t] /\ sf[t].cp \in 1..T /\ sf[t].frame < sf[s].frame
              /\ (Leads(t)' <=> Leads(t)) /\ (Generating(t)' <=> Generating(t))
         /\ SuspendedCalls' = {c \in SuspendedCalls : c < k}
         /\ \A c \in SuspendedCalls' : c \in 1..T
         /\ \A u \in Generators : sf[u].cp < k => sf[u].cp <= b
         /\ k = root_address => \A t \in Subgoal : ~ OpenTable(t)'
<1>1. EngineInv /\ Typed /\ StackInv /\ MemoryTypeOK /\ top_of_cpstack \in Nat
  BY OverNow, EngineTops
<1>2. /\ AtCheckComplete(s) /\ OpenTable(s) /\ sf[s].cp = k /\ IsGenerator(k) /\ Leads(s)
      /\ \A t \in Subgoal :
           /\ OpenTable(t)' <=> OpenTable(t) /\ sf[t].frame < sf[s].frame
           /\ OpenTable(t)' <=> OpenTable(t) /\ sf[t].cp < k
           /\ OpenTable(t)' => sf'[t] = sf[t]
  BY <1>1, CompletedTables
<1>3. k \in 2..top_of_cpstack /\ k \in 1..Len(cps) /\ k \in Nat
  BY <1>1, <1>2, GeneratorOnTop
<1>4. frames' = frames /\ bfreg' \in 1..k - 1
  BY <1>1, Reclaimed
<1>5. b \in 1..k - 1 /\ T \in 1..k - 1 /\ b <= T /\ bfreg' <= T /\ \A i \in 1..T : cps'[i] = cps[i]
  BY <1>1, CompletedEntries
<1>6. find_fixpoint(s)[k].prev = b
  BY <1>1, <1>2, <1>3, FixpointTyped
<1>7. /\ breg' = b \/ (breg' = T + 1 /\ cps'[T + 1].pc = "trie")
      /\ Typed' /\ StackInv'
  BY <1>1, CompletedEntries DEF EngineInv, OrderInv
<1>8. ASSUME NEW t \in Subgoal, OpenTable(t)'
      PROVE  /\ OpenTable(t) /\ sf'[t] = sf[t] /\ sf[t].cp \in 1..T /\ sf[t].frame < sf[s].frame
             /\ (Leads(t)' <=> Leads(t)) /\ (Generating(t)' <=> Generating(t))
             /\ Consumers(t)' = Consumers(t) /\ \A c \in Consumers(t) : c \in 1..T
  <2>1. OpenTable(t) /\ sf'[t] = sf[t] /\ sf[t].frame < sf[s].frame
    BY <1>2, <1>8
  <2>2. Consumers(t)' = Consumers(t) /\ (Leads(t)' <=> Leads(t))
    BY <1>4, <2>1 DEF Consumers, Leads, is_leader
  <2>3. \A c \in Consumers(t) : c \in Nat /\ c \in 1..T
    <3>1. \A c \in Consumers(t) : c <= bfreg'
      BY <1>7, <1>8, <2>2 DEF StackInv, Stacked, TablesAreOnStack
    <3>2. \A c \in Consumers(t) : c \in 1..top_of_cpstack
      BY <1>1, <2>1, OpenSaved DEF SuspendedCalls
    <3> QED  BY <1>3, <1>4, <1>5, <3>1, <3>2
  <2>4. sf[t].cp \in 2..top_of_cpstack' /\ (IsGenerator(sf[t].cp)' \/ sf[t].cp \in Consumers(t))
    BY <1>7, <1>8, <2>1, <2>2 DEF StackInv, Stacked, TablesAreOnStack, IsGenerator
  <2>5. sf[t].cp \in 1..T
    <3>1. CASE sf[t].cp \in Consumers(t)
      BY <2>3, <3>1
    <3>2. CASE IsGenerator(sf[t].cp)'
      <4>1. sf[t].cp # T + 1 \/ breg' = b
        BY <1>7, <2>1, <3>2 DEF IsGenerator
      <4>2. sf[t].cp \in 2..top_of_cpstack' /\ top_of_cpstack' = Higher(breg', bfreg')
        BY <2>4 DEF top_of_cpstack
      <4>3. top_of_cpstack' = T \/ (top_of_cpstack' = T + 1 /\ sf[t].cp # T + 1)
        <5>1. CASE breg' = b
          BY <4>2, <5>1
        <5>2. CASE breg' # b
          <6>1. breg' = T + 1 /\ T \in Nat /\ bfreg' \in Nat /\ bfreg' <= T
            BY <1>3, <1>4, <1>5, <1>7, <5>2
          <6> QED  BY <4>1, <4>2, <5>2, <6>1 DEF Higher
        <5> QED  BY <5>1, <5>2
      <4>4. T \in Nat
        BY <1>3, <1>5
      <4> QED  BY <4>2, <4>3, <4>4
    <3> QED  BY <2>4, <3>1, <3>2
  <2>6. Generating(t)' <=> Generating(t)
    <3>1. IsGenerator(sf[t].cp)' <=> IsGenerator(sf[t].cp)
      BY <1>5, <2>1, <2>5 DEF IsGenerator
    <3>2. sf'[t].cp = sf[t].cp
      BY <2>1
    <3>3. Generating(t)' <=> IsGenerator(sf[t].cp)'
      BY <1>8, <3>2 DEF Generating, IsGenerator
    <3> QED  BY <2>1, <3>1, <3>3 DEF Generating
  <2> QED  BY <2>1, <2>2, <2>3, <2>5, <2>6
<1>9. SuspendedCalls' = {c \in SuspendedCalls : c < k} /\ \A c \in SuspendedCalls' : c \in 1..T
  <2>1. ASSUME NEW c \in SuspendedCalls'
        PROVE  c \in SuspendedCalls /\ c \in 1..T
    <3>1. PICK t \in Subgoal : OpenTable(t)' /\ c \in Consumers(t)'
      BY DEF SuspendedCalls
    <3> QED  BY <1>8, <3>1 DEF SuspendedCalls
  <2>2. ASSUME NEW c \in SuspendedCalls, c < k
        PROVE  c \in SuspendedCalls'
    <3>1. PICK t \in Subgoal : OpenTable(t) /\ c \in Consumers(t)
      BY DEF SuspendedCalls
    <3>2. sf[t].cp <= c /\ sf[t].cp \in Nat /\ c \in Nat
      <4>1. sf[t].cp <= c
        BY <1>1, <3>1 DEF StackInv, Stacked, TablesAreOnStack
      <4>2. sf[t].cp \in 1..top_of_cpstack /\ c \in 1..top_of_cpstack
        BY <1>1, <3>1, OpenSaved
      <4> QED  BY <4>1, <4>2
    <3>3. sf[t].cp < k
      BY <1>3, <2>2, <3>2
    <3>4. OpenTable(t)'
      BY <1>2, <3>1, <3>3
    <3> QED  BY <1>8, <3>1, <3>4 DEF SuspendedCalls
  <2>3. \A c \in SuspendedCalls' : c < k
    BY <1>3, <1>5, <2>1
  <2> QED  BY <2>1, <2>2, <2>3
<1>10. ASSUME NEW u \in Generators, sf[u].cp < k
       PROVE  sf[u].cp <= b
  <2>1. sf[u].cp \in 1..top_of_cpstack /\ Waits(sf[u].cp)
    BY <1>1, OpenSaved DEF Generators, Generating, Waits
  <2>2. k \in 1..top_of_cpstack
    BY <1>3
  <2> QED  BY <1>1, <1>10, <2>1, <2>2 DEF StackInv, Stacked, NoneIsSkipped
<1>11. k = root_address => \A t \in Subgoal : ~ OpenTable(t)'
  <2>1. SUFFICES ASSUME k = root_address, NEW t \in Subgoal, OpenTable(t)'
                 PROVE  FALSE
    OBVIOUS
  <2>2. openreg > 0 /\ sf[s].frame \in 1..openreg /\ openreg \in Nat /\ sf[t].frame \in 1..openreg
    BY <1>1, <1>2, <1>8, <2>1, OpenSaved
  <2>3. OpenTable(frames[1].subgoal) /\ sf[frames[1].subgoal].frame = 1 /\ sf[frames[1].subgoal].cp = k
        /\ frames[1].subgoal \in Subgoal
    BY <1>1, <2>1, <2>2, FrameTyped DEF StackInv, FramesHoldTables
  <2>4. ~ sf[t].cp < k
    <3>1. ~ sf[t].frame < 1
      BY <2>2
    <3> QED  BY <1>1, <1>8, <2>1, <2>3, <3>1 DEF StackInv, FramesHoldTables
  <2> QED  BY <1>2, <2>1, <2>4
<1>12. Generating(s) /\ b \in 1..top_of_cpstack /\ b \in 1..T
  BY <1>1, <1>2, <1>3, <1>5 DEF Generating
<1> QED  BY <1>2, <1>3, <1>5, <1>6, <1>8, <1>9, <1>10, <1>11, <1>12

Unfrozen(m, n, hf, ef, trf) ==
  /\ IsMemory(n) /\ n.heap = m.heap /\ n.env = m.env /\ n.trail = m.trail /\ n.tr = m.tr /\ n.h = m.h
  /\ n.hb = m.hb /\ n.eb = m.eb /\ n.hf = hf /\ n.ef = ef /\ n.trf = trf
Thawed(m, n, hf, ef, trf) == n = [m EXCEPT !.hf = hf, !.ef = ef, !.trf = trf]

LEMMA ThawedIs ==
  ASSUME NEW m, IsMemory(m), NEW hf \in 1..Len(m.heap) + 1, NEW ef \in 0..Len(m.env), NEW trf \in 1..Len(m.trail),
         NEW n, Thawed(m, n, hf, ef, trf)
  PROVE  Unfrozen(m, n, hf, ef, trf)
<1>1. Fields(m, m.heap, m.env, m.trail, m.h, m.hb, m.hf, m.e, m.eb, m.ef, m.tr, m.trf, m.ptcp, m.at)
  BY MemoryFields
<1>2. /\ Fields(n, n.heap, n.env, n.trail, n.h, n.hb, n.hf, n.e, n.eb, n.ef, n.tr, n.trf, n.ptcp, n.at)
      /\ n.heap = m.heap /\ n.env = m.env /\ n.trail = m.trail /\ n.h = m.h /\ n.hb = m.hb /\ n.hf = hf
      /\ n.e = m.e /\ n.eb = m.eb /\ n.ef = ef /\ n.tr = m.tr /\ n.trf = trf /\ n.ptcp = m.ptcp
      /\ n.at = m.at
  BY <1>1 DEF Fields, Thawed
<1>3. IsMemory(n)
  BY <1>2, MemoryFields, MemoryFrom
<1> QED  BY <1>2, <1>3 DEF Unfrozen

LEMMA UnfreezeIs ==
  ASSUME NEW m, IsMemory(m), NEW k, saved[k] \in SavedRegisters(m), NEW n, n = unfreeze(m, k)
  PROVE  IF k = root_address THEN Unfrozen(m, n, 1, 0, BottomOfTrail)
         ELSE Unfrozen(m, n, Lower(m.hf, saved[k].hf), Lower(m.ef, saved[k].ef), Lower(m.trf, saved[k].trf))
<1>1. /\ m.hf \in 1..Len(m.heap) + 1 /\ m.ef \in 0..Len(m.env) /\ m.trf \in 1..Len(m.trail)
      /\ Len(m.heap) \in Nat /\ Len(m.env) \in Nat /\ Len(m.trail) \in Nat
  BY MemoryFields, Registers
<1>2. /\ saved[k].hf \in 1..Len(m.heap) + 1 /\ saved[k].ef \in 0..Len(m.env) /\ saved[k].trf \in 1..Len(m.trail)
  BY SavedTyped
<1>3. CASE k = root_address
  <2>1. Thawed(m, n, 1, 0, BottomOfTrail)
    BY <1>3 DEF unfreeze, Thawed
  <2>2. 1 \in 1..Len(m.heap) + 1 /\ 0 \in 0..Len(m.env) /\ BottomOfTrail \in 1..Len(m.trail)
    BY <1>1 DEF BottomOfTrail
  <2> QED  BY <1>3, <2>1, <2>2, ThawedIs
<1>4. CASE k # root_address
  <2>1. PICK hf, ef, trf : hf = Lower(m.hf, saved[k].hf) /\ ef = Lower(m.ef, saved[k].ef) /\ trf = Lower(m.trf, saved[k].trf)
    OBVIOUS
  <2>2. Thawed(m, n, hf, ef, trf)
    BY <1>4, <2>1 DEF unfreeze, Thawed
  <2>3. hf \in 1..Len(m.heap) + 1 /\ ef \in 0..Len(m.env) /\ trf \in 1..Len(m.trail)
    BY <1>1, <1>2, <2>1 DEF Lower
  <2>4. Unfrozen(m, n, hf, ef, trf)
    BY <2>2, <2>3, ThawedIs
  <2> QED  BY <1>4, <2>1, <2>4
<1> QED  BY <1>3, <1>4

\* What is frozen when a leader has completed is what was when it was called.
LEMMA LeavesFrozen ==
  ASSUME MemoryInv, EngineInv', NEW s \in Subgoal, Complete(s), NEW k, k = breg,
         NEW T, T = Higher(cps[k].prev, bfreg'), \A i \in 1..T : saved'[i] = saved[i],
         NEW n, n = mem',
         IF k = root_address THEN n.hf = 1 /\ n.ef = 0 /\ n.trf = BottomOfTrail
         ELSE /\ n.hf = Lower(mem.hf, saved[k].hf) /\ n.ef = Lower(mem.ef, saved[k].ef)
              /\ n.trf = Lower(mem.trf, saved[k].trf)
  PROVE  /\ DependentIsFrozen' /\ FreezeRegisters'
         /\ \A c \in SuspendedCalls' : saved[c].tr <= n.trf
<1>1. PICK b : b = cps[k].prev
  OBVIOUS
<1>2. /\ OpenTable(s) /\ Generating(s) /\ sf[s].cp = k /\ Leads(s) /\ k \in 2..top_of_cpstack /\ T \in 1..k - 1
      /\ \A t \in Subgoal : OpenTable(t)' =>
           /\ OpenTable(t) /\ sf'[t] = sf[t] /\ sf[t].cp \in 1..T /\ sf[t].frame < sf[s].frame
           /\ (Leads(t)' <=> Leads(t)) /\ (Generating(t)' <=> Generating(t))
      /\ SuspendedCalls' = {c \in SuspendedCalls : c < k}
      /\ \A c \in SuspendedCalls' : c \in 1..T
      /\ k = root_address => \A t \in Subgoal : ~ OpenTable(t)'
  BY <1>1, CompleteLeaves
<1>3. DependentIsFrozen /\ FreezeRegisters /\ EngineInv /\ MemoryTypeOK /\ IsMemory(mem)
  BY OverNow DEF MemoryInv, FreezeInv
<1>4. PICK B : B = saved[k]
  OBVIOUS
<1>5. /\ B.hf \in Nat /\ B.ef \in Nat /\ B.trf \in Nat /\ B.hf >= 1 /\ B.trf >= 1
      /\ mem.hf \in Nat /\ mem.ef \in Nat /\ mem.trf \in Nat /\ mem.hf >= 1 /\ mem.trf >= 1
  <2>1. B \in SavedRegisters(mem)
    <3>1. k \in 1..top_of_cpstack
      BY <1>2
    <3> QED  BY <1>3, <1>4, <3>1, OpenSaved
  <2>2. B.hf \in 1..Len(mem.heap) + 1 /\ B.trf \in 1..Len(mem.trail) /\ B.hf \in Nat /\ B.ef \in Nat /\ B.trf \in Nat
    BY <1>3, <2>1, SavedTyped
  <2>3. mem.hf \in 1..Len(mem.heap) + 1 /\ mem.trf \in 1..Len(mem.trail) /\ mem.hf \in Nat /\ mem.ef \in Nat /\ mem.trf \in Nat
    BY <1>3, MemoryFields, Registers
  <2> QED  BY <2>2, <2>3
<1>6. CASE k = root_address
  <2>1. \A t \in Subgoal : ~ OpenTable(t)'
    BY <1>2, <1>6
  <2>2. SuspendedCalls' = {}
    BY <2>1 DEF SuspendedCalls
  <2>3. DependentIsFrozen'
    BY <2>1 DEF DependentIsFrozen
  <2>4. Freezes(n.hf, n.ef, n.trf, SuspendedCalls)'
    BY <1>6, <2>2 DEF Freezes
  <2>5. \A t \in Subgoal : ~ Generating(t)'
    BY <2>1 DEF Generating
  <2>6. FreezeRegisters'
    BY <2>4, <2>5 DEF FreezeRegisters
  <2> QED  BY <2>2, <2>3, <2>6
<1>7. CASE k # root_address
  <2>1. n.hf = Lower(mem.hf, B.hf) /\ n.ef = Lower(mem.ef, B.ef) /\ n.trf = Lower(mem.trf, B.trf)
    BY <1>4, <1>7
  <2>2. PICK C : C = {c \in SuspendedCalls : c < k}
    OBVIOUS
  <2>3. Freezes(B.hf, B.ef, B.trf, C)
    BY <1>2, <1>3, <1>4, <2>2 DEF FreezeRegisters, Base
  <2>4. \A c \in C : /\ saved[c].h <= mem.hf /\ saved[c].eb <= mem.ef /\ saved[c].tr <= mem.trf
                     /\ saved[c].h \in Nat /\ saved[c].eb \in Nat /\ saved[c].tr \in Nat
    BY <1>3, <2>2, OpenSaved DEF FreezeRegisters, Freezes
  <2>5. n.hf = B.hf
    <3>1. B.hf <= mem.hf
      BY <1>5, <2>3, <2>4 DEF Freezes
    <3> QED  BY <1>5, <2>1, <3>1 DEF Lower
  <2>6. n.ef = B.ef
    <3>1. B.ef <= mem.ef
      BY <1>5, <2>3, <2>4 DEF Freezes
    <3> QED  BY <1>5, <2>1, <3>1 DEF Lower
  <2>7. n.trf = B.trf
    <3>1. B.trf <= mem.trf
      BY <1>5, <2>3, <2>4 DEF Freezes, BottomOfTrail
    <3> QED  BY <1>5, <2>1, <3>1 DEF Lower
  <2>8. \A t \in Subgoal : OpenTable(t)' => Base(t)' = Base(t)
    BY <1>2 DEF Base
  <2>9. DependentIsFrozen'
    <3>1. ASSUME NEW u \in Subgoal, OpenTable(u)', ~ Leads(u)'
          PROVE  /\ Frozen(u, B.hf, B.ef, B.trf) /\ Base(u)' = Base(u)
                 /\ \A t \in Subgoal : OpenTable(t)' /\ Leads(t)' /\ sf'[u].frame < sf'[t].frame =>
                      Frozen(u, Base(t).hf, Base(t).ef, Base(t).trf) /\ Base(t)' = Base(t)
      <4>1. OpenTable(u) /\ ~ Leads(u) /\ sf[u].frame < sf[s].frame /\ sf'[u] = sf[u] /\ Base(u)' = Base(u)
        BY <1>2, <2>8, <3>1
      <4>2. Frozen(u, B.hf, B.ef, B.trf)
        BY <1>2, <1>3, <1>4, <4>1 DEF DependentIsFrozen, Base
      <4>3. ASSUME NEW t \in Subgoal, OpenTable(t)', Leads(t)', sf'[u].frame < sf'[t].frame
            PROVE  Frozen(u, Base(t).hf, Base(t).ef, Base(t).trf) /\ Base(t)' = Base(t)
        <5>1. OpenTable(t) /\ Leads(t) /\ sf[u].frame < sf[t].frame /\ Base(t)' = Base(t)
          BY <1>2, <2>8, <4>1, <4>3
        <5> QED  BY <1>3, <4>1, <5>1 DEF DependentIsFrozen
      <4> QED  BY <4>1, <4>2, <4>3
    <3> QED  BY <2>5, <2>6, <2>7, <3>1 DEF DependentIsFrozen, Frozen
  <2>10. \A c \in C : saved'[c] = saved[c]
    BY <1>2, <2>2
  <2>11. Freezes(n.hf, n.ef, n.trf, SuspendedCalls)'
    BY <1>2, <2>2, <2>3, <2>5, <2>6, <2>7, <2>10 DEF Freezes
  <2>12. ASSUME NEW u \in Subgoal, Generating(u)'
         PROVE  Freezes(Base(u).hf, Base(u).ef, Base(u).trf, {c \in SuspendedCalls : c < sf[u].cp})'
    <3>1. OpenTable(u)'
      BY <2>12 DEF Generating
    <3>2. Generating(u) /\ sf'[u] = sf[u] /\ sf[u].cp \in 1..T /\ Base(u)' = Base(u)
      BY <1>2, <2>8, <2>12, <3>1
    <3>3. PICK D : D = {c \in SuspendedCalls : c < sf[u].cp}
      OBVIOUS
    <3>4. Freezes(Base(u).hf, Base(u).ef, Base(u).trf, D)
      BY <1>3, <3>2, <3>3 DEF FreezeRegisters
    <3>5. D \subseteq C
      <4>1. \A c \in SuspendedCalls : c \in Nat
        BY <1>3, OpenSaved
      <4> QED  BY <1>2, <2>2, <3>2, <3>3, <4>1
    <3>6. D = {c \in SuspendedCalls' : c < sf'[u].cp}
      BY <1>2, <2>2, <3>2, <3>3, <3>5
    <3> QED  BY <2>10, <3>2, <3>4, <3>5, <3>6 DEF Freezes
  <2>13. FreezeRegisters'
    BY <2>11, <2>12 DEF FreezeRegisters
  <2>14. \A c \in SuspendedCalls' : saved[c].tr <= n.trf
    BY <1>2, <2>2, <2>3, <2>7 DEF Freezes
  <2> QED  BY <2>9, <2>13, <2>14
<1> QED  BY <1>6, <1>7

\* The registers once a leader at k has left nothing else frozen.
Reset(m, k) ==
  IF k = root_address THEN m.hf = 1 /\ m.ef = 0 /\ m.trf = BottomOfTrail
  ELSE /\ m.hf = Lower(mem.hf, saved[k].hf) /\ m.ef = Lower(mem.ef, saved[k].ef)
       /\ m.trf = Lower(mem.trf, saved[k].trf)
OlderThan(k) == {u \in Generators : sf[u].cp < k}

\* From the generator, with the freeze registers reset, go on what is run and what is pushed.
LEMMA UnfrozenOver ==
  ASSUME MemoryInv, NEW p, IsMemory(p), p.trail = mem.trail, SameFrozen(mem, p),
         NEW k, saved[k] \in SavedRegisters(mem), Len(p.heap) = Len(mem.heap), Len(p.env) = Len(mem.env),
         NEW G, Over(G, p), G \in SUBSET Generators, NEW m, m = unfreeze(p, k)
  PROVE  /\ IsMemory(m) /\ m.trail = mem.trail /\ Len(m.heap) = Len(mem.heap) /\ Len(m.env) = Len(mem.env)
         /\ Over(G, m) /\ Reset(m, k) /\ (Uses(G, p) => Uses(G, m)) /\ m.heap = p.heap
<1>1. saved[k] \in SavedRegisters(p)
  BY DEF SavedRegisters
<1>2. IF k = root_address THEN Unfrozen(p, m, 1, 0, BottomOfTrail)
      ELSE Unfrozen(p, m, Lower(p.hf, saved[k].hf), Lower(p.ef, saved[k].ef), Lower(p.trf, saved[k].trf))
  BY <1>1, UnfreezeIs
<1>3. /\ IsMemory(m) /\ m.heap = p.heap /\ m.env = p.env /\ m.trail = p.trail /\ m.tr = p.tr /\ m.h = p.h
      /\ m.hb = p.hb /\ m.eb = p.eb
  BY <1>2 DEF Unfrozen
<1>4. Reset(m, k)
  BY <1>2 DEF Unfrozen, Reset, SameFrozen
<1>5. Over(G, m)
  <2>1. \A u \in G : Base(u).h <= m.hb /\ Base(u).eb <= m.eb
    BY <1>3 DEF Over
  <2> QED  BY <1>3, <2>1, OverAlike
<1>6. Uses(G, p) => Uses(G, m)
  BY <1>3 DEF Uses
<1> QED  BY <1>3, <1>4, <1>5, <1>6

\* What completing s runs, from memory m: nothing, or the return of one of the answers left.
CompletedFrom(s, k, T, n, left) ==
  \E m :
    /\ IsMemory(m) /\ m.trail = mem.trail /\ Len(m.heap) = Len(mem.heap) /\ Len(m.env) = Len(mem.env)
    /\ Over(OlderThan(k), m) /\ Reset(m, k)
    /\ \/ sf[s].answers = <<>> /\ n = m /\ saved' = saved
       \/ /\ sf[s].answers # <<>> /\ Uses(OlderThan(k), m) /\ Onward(m, n) /\ SameFrozen(m, n)
          /\ \/ (\E a : left = {a}) /\ saved' = saved
             \/ /\ ~ \E a : left = {a}
                /\ \E r \in SavedRegisters(n) : saved' = Put(saved, T + 1, r) /\ Saves(m, n, r)
LEMMA CompleteRuns ==
  ASSUME MemoryInv, EngineInv', NEW s \in Subgoal, CompleteInMemory(s),
         NEW k, k = breg, NEW b, b = cps[k].prev, NEW T, T = Higher(b, bfreg'), NEW n, n = mem',
         NEW left, left = Range(sf[s].answers)
  PROVE  CompletedFrom(s, k, T, n, left)
<1>1. Complete(s) /\ k = breg /\ b = cps[k].prev
  BY DEF CompleteInMemory
<1>2. /\ Generating(s) /\ sf[s].cp = k /\ k \in 2..top_of_cpstack /\ find_fixpoint(s)[k].prev = b
      /\ b \in 1..top_of_cpstack /\ \A u \in Generators : sf[u].cp < k => sf[u].cp <= b
  BY <1>1, CompleteLeaves
<1>3. PICK G : G = OlderThan(k)
  OBVIOUS
<1>4. G \in SUBSET Generators /\ (\A u \in G : sf[u].cp <= b) /\ s \in Generators
  BY <1>2, <1>3 DEF OlderThan, Generators
<1>5. PICK v : v = switch_envs(mem, k)
  OBVIOUS
<1>6. Back(mem, v) /\ Over(Generators, v) /\ saved[k] \in SavedRegisters(mem)
  BY <1>1, <1>2, <1>4, <1>5, SwitchedOver
<1>7. PICK p : p = Called(v, cps[k].ptcp)
  OBVIOUS
<1>8. p = AtGenerator
  BY <1>1, <1>5, <1>7 DEF AtGenerator, Called
<1>9. Back(mem, p) /\ Over(Generators, p)
  <2>1. cps[k].ptcp \in Subgoal \cup {User}
    BY <1>1, FailsTo
  <2> QED  BY <1>6, <1>7, <2>1, ptcpOver DEF Called
<1>10. CASE sf[s].answers = <<>>
  <2>1. n = unfreeze(p, k) /\ saved' = saved
    BY <1>1, <1>8, <1>10 DEF CompleteInMemory
  <2>2. IsMemory(p) /\ p.trail = mem.trail /\ SameFrozen(mem, p) /\ Len(p.heap) = Len(mem.heap) /\ Len(p.env) = Len(mem.env)
    BY <1>9 DEF Back, SameFrozen
  <2>3. Over(G, p)
    BY <1>4, <1>9 DEF Over
  <2>4. PICK m : m = unfreeze(p, k)
    OBVIOUS
  <2>5. /\ IsMemory(m) /\ m.trail = mem.trail /\ Len(m.heap) = Len(mem.heap) /\ Len(m.env) = Len(mem.env)
        /\ Over(G, m) /\ Reset(m, k)
    BY <1>4, <1>6, <2>2, <2>3, <2>4, UnfrozenOver
  <2> QED  BY <1>3, <1>10, <2>1, <2>4, <2>5 DEF CompletedFrom
<1>11. CASE sf[s].answers # <<>>
  <2>1. PICK q : q = restore_some_wamregs(p, k)
    OBVIOUS
  <2>2. Back(mem, q) /\ Over(Generators, q) /\ Uses(Generators, q)
    BY <1>6, <1>9, <2>1, RestoredOver
  <2>3. PICK e : e = [q EXCEPT !.hb = saved[b].h, !.eb = saved[b].eb]
    OBVIOUS
  <2>4. BoundedAt(G, q, b, e)
    <3>1. Over(G, q)
      BY <1>4, <2>2 DEF Over
    <3>2. Bounded(q, e, saved[b].h, saved[b].eb)
      BY <2>3 DEF Bounded
    <3> QED  BY <1>2, <1>4, <2>2, <3>1, <3>2 DEF BoundedAt
  <2>5. /\ IsMemory(e) /\ e.trail = mem.trail /\ SameFrozen(mem, e) /\ Over(G, e) /\ e.h = q.h
        /\ Len(e.heap) = Len(mem.heap) /\ Len(e.env) = Len(mem.env)
    BY <2>4, BoundedOver
  <2>6. Uses(G, e)
    BY <1>4, <2>2, <2>5 DEF Uses
  <2>7. PICK m : m = unfreeze(e, k)
    OBVIOUS
  <2>8. /\ IsMemory(m) /\ m.trail = mem.trail /\ Len(m.heap) = Len(mem.heap) /\ Len(m.env) = Len(mem.env)
        /\ Over(G, m) /\ Reset(m, k) /\ Uses(G, m)
    BY <1>4, <1>6, <2>5, <2>6, <2>7, UnfrozenOver
  <2>9. PICK t : t = saved[k].template
    OBVIOUS
  <2>10. t \in 0..Len(m.heap)
    BY <1>6, <2>8, <2>9 DEF SavedRegisters
  <2>11. trie_try(m, t, left, T)
    BY <1>1, <1>2, <1>8, <1>11, <2>1, <2>3, <2>7, <2>9 DEF CompleteInMemory
  <2>12. /\ Onward(m, n) /\ SameFrozen(m, n)
         /\ \/ (\E a : left = {a}) /\ saved' = saved
            \/ /\ ~ \E a : left = {a}
               /\ \E r \in SavedRegisters(n) : saved' = Put(saved, T + 1, r) /\ Saves(m, n, r)
    BY <2>8, <2>10, <2>11, TrieTryOn
  <2> QED  BY <1>3, <1>11, <2>8, <2>12 DEF CompletedFrom
<1> QED  BY <1>10, <1>11

\* One choice point, not a generator, is pushed on those up to T.
PushedStays(G, n, T, r) ==
  /\ n = mem' /\ IsMemory(n) /\ T + 1 = top_of_cpstack' /\ T \in Nat /\ T <= top_of_cpstack
  /\ saved'[T + 1] = r /\ (\A i \in 1..T : saved'[i] = saved[i]) /\ r.tr \in 1..Len(n.trail)
  /\ G \in SUBSET Generators /\ Over(G, n) /\ Above(G, n, r) /\ (running' => Uses(G, n))
  /\ \A s \in G : sf'[s].cp = sf[s].cp /\ sf[s].cp <= T /\ Path(n, Base(s).tr) = Path(mem, Base(s).tr)
  /\ \A s \in Subgoal : Generating(s)' => s \in G
  /\ \A c \in SuspendedCalls' :
        /\ c \in 1..T /\ Path(n, saved[c].tr) = Path(mem, saved[c].tr)
        /\ c \in SuspendedCalls \/ \E t \in Generators : c = sf[t].cp
LEMMA PushedIsAbove ==
  ASSUME MemoryInv, NEW G, NEW n, NEW T, NEW r, PushedStays(G, n, T, r)
  PROVE  TrailAboveGenerators' /\ StacksAboveGenerators'
<1>1. T \in Nat
  BY DEF PushedStays
<1>2. PICK U \in Nat : U = T + 1
  BY <1>1
<1>3. U <= T + 1 /\ U = top_of_cpstack'
  BY <1>1, <1>2 DEF PushedStays
<1> QED  BY <1>1, <1>2, <1>3, AboveStays DEF PushedStays

LEMMA CompleteMemory ==
  ASSUME MemoryInv, EngineInv', NEW s \in Subgoal, CompleteInMemory(s)
  PROVE  MemoryInv'
<1>1. Complete(s) /\ EngineInv /\ MemoryTypeOK /\ IsMemory(mem) /\ Len(cps) <= Len(saved) /\ Len(cps) \in Nat
      /\ Len(saved) \in Nat /\ IsSeq(saved)
  BY OverNow, EngineTops, OpenSaved DEF CompleteInMemory, MemoryTypeOK
<1>2. PICK k, b : k = breg /\ b = cps[k].prev
  OBVIOUS
<1>3. PICK T : T = Higher(b, bfreg')
  OBVIOUS
<1>4. PICK left : left = Range(sf[s].answers)
  OBVIOUS
<1>5. PICK n : n = mem'
  OBVIOUS
<1>6. PICK G : G = OlderThan(k)
  OBVIOUS
<1>m. PICK m :
        /\ IsMemory(m) /\ m.trail = mem.trail /\ Len(m.heap) = Len(mem.heap) /\ Len(m.env) = Len(mem.env)
        /\ Over(OlderThan(k), m) /\ Reset(m, k)
        /\ \/ sf[s].answers = <<>> /\ n = m /\ saved' = saved
           \/ /\ sf[s].answers # <<>> /\ Uses(OlderThan(k), m) /\ Onward(m, n) /\ SameFrozen(m, n)
              /\ \/ (\E a : left = {a}) /\ saved' = saved
                 \/ /\ ~ \E a : left = {a}
                    /\ \E r \in SavedRegisters(n) : saved' = Put(saved, T + 1, r) /\ Saves(m, n, r)
  <2>1. CompletedFrom(s, k, T, n, left)
    BY <1>2, <1>3, <1>4, <1>5, CompleteRuns
  <2> QED  BY <2>1 DEF CompletedFrom
<1>7. /\ IsMemory(m) /\ m.trail = mem.trail /\ Len(m.heap) = Len(mem.heap) /\ Len(m.env) = Len(mem.env)
        /\ Over(G, m) /\ Reset(m, k)
        /\ \/ sf[s].answers = <<>> /\ n = m /\ saved' = saved
           \/ /\ sf[s].answers # <<>> /\ Uses(G, m) /\ Onward(m, n) /\ SameFrozen(m, n)
              /\ \/ (\E a : left = {a}) /\ saved' = saved
                 \/ /\ ~ \E a : left = {a}
                    /\ \E r \in SavedRegisters(n) : saved' = Put(saved, T + 1, r) /\ Saves(m, n, r)
  BY <1>6, <1>m
<1>l. left # {} <=> sf[s].answers # <<>>
  <2>1. sf[s].answers \in Seq(Answer)
    BY <1>1, TableTyped, EngineTops
  <2>2. CASE sf[s].answers = <<>>
    <3>1. DOMAIN sf[s].answers = {}
      BY <2>2
    <3> QED  BY <1>4, <2>2, <3>1 DEF Range
  <2>3. CASE sf[s].answers # <<>>
    <3>1. 1 \in DOMAIN sf[s].answers
      BY <2>1, <2>3
    <3> QED  BY <1>4, <2>3, <3>1 DEF Range
  <2> QED  BY <2>2, <2>3
<1>8. /\ k \in 2..top_of_cpstack /\ b \in 1..T /\ T \in 1..k - 1
      /\ \A i \in 1..T : cps'[i] = cps[i]
      /\ \A t \in Subgoal : OpenTable(t)' =>
           /\ OpenTable(t) /\ sf'[t] = sf[t] /\ sf[t].cp \in 1..T /\ sf[t].frame < sf[s].frame
           /\ (Leads(t)' <=> Leads(t)) /\ (Generating(t)' <=> Generating(t))
      /\ SuspendedCalls' = {c \in SuspendedCalls : c < k}
      /\ \A c \in SuspendedCalls' : c \in 1..T
      /\ \A u \in Generators : sf[u].cp < k => sf[u].cp <= b
  BY <1>1, <1>2, <1>3, CompleteLeaves
<1>9. /\ T \in Nat /\ T <= top_of_cpstack /\ T + 1 \in 1..Len(saved) + 1 /\ \A i \in 1..T : i \in 1..Len(saved) /\ i # T + 1
  BY <1>1, <1>8, OpenSaved
<1>10. /\ \A c \in SuspendedCalls' : c \in SuspendedCalls
       /\ \A u \in G : /\ u \in Subgoal /\ u \in Generators /\ sf[u].cp <= T /\ sf'[u].cp = sf[u].cp
       /\ \A u \in Subgoal : Generating(u)' => u \in G
  <2>1. \A c \in SuspendedCalls' : c \in SuspendedCalls
    BY <1>8
  <2>2. ASSUME NEW u \in G
        PROVE  u \in Subgoal /\ u \in Generators /\ sf[u].cp <= T /\ sf'[u].cp = sf[u].cp
    <3>1. u \in Subgoal /\ u \in Generators /\ sf[u].cp <= b
      BY <1>6, <1>8 DEF OlderThan, Generators
    <3>2. sf'[u].cp = sf[u].cp
      BY <1>1, <3>1, CompletedTables, EngineTops
    <3>3. sf[u].cp \in Nat /\ b \in Nat /\ b <= T
      BY <1>8, <1>9, <3>1, OverNow
    <3> QED  BY <1>9, <3>1, <3>2, <3>3
  <2>3. ASSUME NEW u \in Subgoal, Generating(u)'
        PROVE  u \in G
    <3>1. OpenTable(u)'
      BY <2>3 DEF Generating
    <3>2. Generating(u) /\ sf[u].cp < k
      BY <1>8, <2>3, <3>1
    <3> QED  BY <1>6, <3>2 DEF OlderThan, Generators
  <2> QED  BY <2>1, <2>2, <2>3
<1>11. G \in SUBSET Generators
  BY <1>10
<1>12. IsMemory(n) /\ Over(G, n) /\ (running' => Uses(G, n)) /\ SameFrozen(m, n)
       /\ Len(mem.heap) <= Len(n.heap) /\ Len(mem.env) <= Len(n.env) /\ Len(mem.trail) <= Len(n.trail)
  <2>1. Len(mem.heap) \in Nat /\ Len(mem.env) \in Nat /\ Len(mem.trail) \in Nat
    BY <1>1, Registers
  <2>2. CASE sf[s].answers = <<>>
    <3>1. ~ running' /\ n = m
      <4>1. left = {}
        BY <1>l, <2>2
      <4>2. Fail1
        BY <1>1, <1>4, <4>1, CompletedEntries, EngineTops
      <4> QED  BY <1>7, <2>2, <4>2 DEF Fail1
    <3> QED  BY <1>7, <2>1, <3>1 DEF SameFrozen
  <2>3. CASE sf[s].answers # <<>>
    <3>1. Uses(G, m) /\ Onward(m, n) /\ SameFrozen(m, n)
      BY <1>7, <2>3
    <3>2. Over(G, n) /\ Uses(G, n)
      BY <1>1, <1>7, <1>11, <3>1, OverOnward
    <3>3. IsMemory(n) /\ Len(m.heap) <= Len(n.heap) /\ Len(m.env) <= Len(n.env) /\ Len(m.trail) <= Len(n.trail)
      BY <3>1 DEF Onward
    <3> QED  BY <1>7, <3>1, <3>2, <3>3
  <2> QED  BY <2>2, <2>3
<1>13. IF k = root_address THEN n.hf = 1 /\ n.ef = 0 /\ n.trf = BottomOfTrail
       ELSE /\ n.hf = Lower(mem.hf, saved[k].hf) /\ n.ef = Lower(mem.ef, saved[k].ef)
            /\ n.trf = Lower(mem.trf, saved[k].trf)
  BY <1>7, <1>12 DEF Reset, SameFrozen
<1>14. \/ saved' = saved /\ top_of_cpstack' = T /\ Len(cps') <= Len(saved) /\ Len(cps') \in Nat
       \/ /\ top_of_cpstack' = T + 1 /\ Len(cps') = T + 1 /\ Uses(G, m) /\ Onward(m, n)
          /\ \E r \in SavedRegisters(n) : saved' = Put(saved, T + 1, r) /\ Saves(m, n, r)
  <2>1. Typed /\ StackInv
    BY <1>1, EngineTops
  <2>2. /\ bfreg' \in Nat /\ bfreg' <= T /\ b \in Nat
        /\ \/ sf[s].answers = <<>> /\ breg' = b /\ Len(cps') = Len(cps)
           \/ \E a : left = {a} /\ breg' = b /\ Len(cps') = Len(cps)
           \/ (\E a \in left : left \ {a} # {}) /\ breg' = T + 1 /\ Len(cps') = T + 1
    <3>1. /\ T = Higher(cps[breg].prev, bfreg') /\ b = cps[breg].prev /\ left = Range(sf[s].answers)
      BY <1>2, <1>3, <1>4
    <3>2. bfreg' \in 1..breg - 1
      BY <1>1, <2>1, Reclaimed
    <3>3. /\ bfreg' <= T
          /\ \/ sf[s].answers = <<>> /\ breg' = b /\ Len(cps') = Len(cps)
             \/ \E a \in left : \/ breg' = b /\ left = {a} /\ Len(cps') = Len(cps)
                                \/ breg' = T + 1 /\ Len(cps') = T + 1 /\ left \ {a} # {}
      BY <1>1, <2>1, <3>1, CompletedEntries
    <3>4. bfreg' \in Nat /\ b \in Nat
      BY <1>8, <3>2
    <3> QED  BY <3>3, <3>4
  <2>3. top_of_cpstack' = Higher(breg', bfreg')
    BY DEF top_of_cpstack
  <2>4. breg' = b => top_of_cpstack' = T
    BY <1>3, <2>3
  <2>5. breg' = T + 1 => top_of_cpstack' = T + 1
    BY <1>9, <2>2, <2>3 DEF Higher
  <2>7. CASE sf[s].answers = <<>>
    <3>1. left = {}
      BY <1>l, <2>7
    <3> QED  BY <1>1, <1>7, <2>2, <2>4, <2>7, <3>1
  <2>8. CASE \E a : left = {a}
    <3>1. sf[s].answers # <<>> /\ ~ \E a \in left : left \ {a} # {}
      BY <1>l, <2>8
    <3> QED  BY <1>1, <1>7, <2>2, <2>4, <2>8, <3>1
  <2>9. CASE sf[s].answers # <<>> /\ ~ \E a : left = {a}
    BY <1>7, <2>2, <2>5, <2>9
  <2> QED  BY <2>7, <2>8, <2>9
<1>15. /\ \A t \in 1..m.trf : Path(n, t) = Path(mem, t)
       /\ \A u \in G : Path(n, Base(u).tr) = Path(mem, Base(u).tr)
  <2>1. n = m \/ Onward(m, n)
    BY <1>7
  <2> QED  BY <1>1, <1>7, <1>11, <2>1, PathsKept
<1>16. MemoryTypeOK' /\ \A i \in 1..T : saved'[i] = saved[i]
  <2>1. CASE saved' = saved /\ Len(cps') <= Len(saved) /\ Len(cps') \in Nat
    BY <1>1, <1>5, <1>12, <2>1, TypeStays
  <2>2. ASSUME NEW r \in SavedRegisters(n), saved' = Put(saved, T + 1, r), Len(cps') = T + 1
        PROVE  MemoryTypeOK' /\ \A i \in 1..T : saved'[i] = saved[i]
    <3>1. Len(cps') \in Nat /\ Len(cps') <= T + 1
      BY <1>9, <2>2
    <3>2. MemoryTypeOK'
      BY <1>1, <1>5, <1>9, <1>12, <2>2, <3>1, TypeStays
    <3>3. LET g == Put(saved, T + 1, r) IN \A j \in 1..Len(saved) : j # T + 1 => g[j] = saved[j]
      BY <1>1, <1>9, PutIs
    <3> QED  BY <1>9, <2>2, <3>2, <3>3
  <2> QED  BY <1>14, <2>1, <2>2
<1>17. DependentIsFrozen' /\ FreezeRegisters' /\ \A c \in SuspendedCalls' : saved[c].tr <= n.trf
  BY <1>1, <1>2, <1>3, <1>5, <1>13, <1>16, LeavesFrozen
<1>18. \A c \in SuspendedCalls' : c \in 1..T /\ Path(n, saved[c].tr) = Path(mem, saved[c].tr)
  <2>1. ASSUME NEW c \in SuspendedCalls'
        PROVE  saved[c].tr \in 1..m.trf
    <3>1. saved[c].tr <= m.trf /\ m.trf \in Nat
      BY <1>7, <1>12, <1>17, Registers DEF SameFrozen
    <3>2. saved[c].tr \in 1..mem.trf
      BY <1>10, SuspendedTrails
    <3>3. mem.trf \in Nat
      BY <1>1, Registers
    <3> QED  BY <3>1, <3>2, <3>3
  <2> QED  BY <1>8, <1>15, <2>1
<1>19. TrailAboveGenerators' /\ StacksAboveGenerators'
  <2>1. CASE saved' = saved /\ top_of_cpstack' = T
    <3>1. BelowStays(G, n, T)
      BY <1>5, <1>9, <1>10, <1>11, <1>12, <1>15, <1>16, <1>18, <2>1 DEF BelowStays
    <3> QED  BY <3>1, BelowIsAbove
  <2>2. ASSUME NEW r \in SavedRegisters(n), saved' = Put(saved, T + 1, r), Saves(m, n, r),
               top_of_cpstack' = T + 1, Uses(G, m)
        PROVE  TrailAboveGenerators' /\ StacksAboveGenerators'
    <3>1. Above(G, n, r) /\ r.tr \in 1..Len(n.trail)
      BY <1>1, <1>7, <1>11, <2>2, SavesIsAbove
    <3>2. saved'[T + 1] = r
      <4>1. LET g == Put(saved, T + 1, r) IN g[T + 1] = r
        BY <1>1, <1>9, PutIs
      <4> QED  BY <2>2, <4>1
    <3>3. PushedStays(G, n, T, r)
      BY <1>5, <1>9, <1>10, <1>11, <1>12, <1>15, <1>16, <1>18, <2>2, <3>1, <3>2 DEF PushedStays
    <3> QED  BY <3>3, PushedIsAbove
  <2> QED  BY <1>14, <2>1, <2>2
<1> QED  BY <1>16, <1>17, <1>19 DEF MemoryInv, FreezeInv

(* The invariant. *)

\* Nothing is open to begin with.
LEMMA InitMemoryInv == Init /\ InitMemory => MemoryInv
<1> SUFFICES ASSUME Init, InitMemory
             PROVE  MemoryInv
  OBVIOUS
<1>1. EngineInv
  BY InitOrder, InitWork, InitCall DEF EngineInv
<1>2. \A s \in Subgoal : ~ OpenTable(s)
  BY DEF Init, OpenTable, NoTable
<1>3. SuspendedCalls = {} /\ \A s \in Subgoal : ~ Generating(s)
  BY <1>2 DEF SuspendedCalls, Generating
<1>4. mem.hf = 1 /\ mem.ef = 0 /\ mem.trf = BottomOfTrail
  BY DEF InitMemory
<1>5. FreezeInv
  <2>1. TrailAboveGenerators /\ StacksAboveGenerators
    BY <1>3 DEF TrailAboveGenerators, StacksAboveGenerators
  <2>2. DependentIsFrozen
    BY <1>2 DEF DependentIsFrozen
  <2>3. FreezeRegisters
    BY <1>3, <1>4 DEF FreezeRegisters, Freezes
  <2> QED  BY <2>1, <2>2, <2>3 DEF FreezeInv
<1>6. IsMemory(mem) /\ Len(mem.env) = 1 /\ Len(mem.heap) = 0 /\ Len(mem.trail) = 1 /\ mem.at \in CodePoint
  <2>1. ASSUME NEW x
        PROVE  IsSeq(<<x>>) /\ Len(<<x>>) = 1
    <3>1. x \in Range(<<x>>)
      <4>1. DOMAIN <<x>> = {1} /\ <<x>>[1] = x
        OBVIOUS
      <4> QED  BY <4>1 DEF Range
    <3> QED  BY <3>1 DEF IsSeq
  <2>2. IsSeq(<<>>) /\ Len(<<>>) = 0
    BY DEF IsSeq
  <2>3. PICK t : t = [var |-> OnHeap(0), value |-> Free, parent |-> BottomOfTrail]
    OBVIOUS
  <2>4. PICK f : f = Frame(User, NoVariable)
    OBVIOUS
  <2>5. PICK at : at = [clause |-> Asking, n |-> 0]
    OBVIOUS
  <2>6. /\ Fields(mem, mem.heap, mem.env, mem.trail, mem.h, mem.hb, mem.hf, mem.e, mem.eb, mem.ef, mem.tr, mem.trf, mem.ptcp, mem.at)
        /\ mem.heap = <<>> /\ mem.env = <<f>> /\ mem.trail = <<t>> /\ mem.h = 1 /\ mem.hb = 1 /\ mem.hf = 1
        /\ mem.e = 1 /\ mem.eb = 1 /\ mem.ef = 0 /\ mem.tr = 1 /\ mem.trf = 1 /\ mem.ptcp = User /\ mem.at = at
    BY <2>3, <2>4, <2>5 DEF InitMemory, Fields, BottomOfTrail
  <2>7. at \in CodePoint
    BY <2>5 DEF CodePoint
  <2>8. IsSeq(mem.heap) /\ IsSeq(mem.env) /\ IsSeq(mem.trail) /\ Len(mem.heap) = 0 /\ Len(mem.env) = 1 /\ Len(mem.trail) = 1
    BY <2>1, <2>2, <2>6
  <2>9. /\ mem.h \in 1..Len(mem.heap) + 1 /\ mem.hb \in 1..Len(mem.heap) + 1 /\ mem.hf \in 1..Len(mem.heap) + 1
        /\ mem.e \in 1..Len(mem.env) /\ mem.eb \in 1..Len(mem.env) /\ mem.ef \in 0..Len(mem.env)
        /\ mem.tr \in 1..Len(mem.trail) /\ mem.trf \in 1..Len(mem.trail)
    BY <2>6, <2>8
  <2>10. \A i \in 2..Len(mem.trail) : mem.trail[i].parent \in 1..i - 1
    BY <2>8
  <2>11. mem.ptcp \in Subgoal \cup {User} /\ mem.at \in CodePoint
    BY <2>6, <2>7
  <2>12. IsMemory(mem)
    BY <2>6, <2>8, <2>9, <2>10, <2>11, MemoryFrom
  <2> QED  BY <2>8, <2>11, <2>12
<1>7. saved[1] \in SavedRegisters(mem) /\ IsSeq(saved) /\ Len(saved) = 1
  <2>1. PICK r : r = [at |-> mem.at, e |-> 1, h |-> 1, eb |-> 1, tr |-> BottomOfTrail,
                      hf |-> 1, ef |-> 0, trf |-> BottomOfTrail, template |-> NoVariable]
    OBVIOUS
  <2>2. saved = <<r>>
    BY <2>1 DEF InitMemory
  <2>3. r \in SavedRegisters(mem)
    BY <1>6, <2>1 DEF SavedRegisters, BottomOfTrail, NoVariable
  <2>4. r \in Range(<<r>>)
    <3>1. DOMAIN <<r>> = {1} /\ <<r>>[1] = r
      OBVIOUS
    <3> QED  BY <3>1 DEF Range
  <2> QED  BY <2>2, <2>3, <2>4 DEF IsSeq
<1>8. Len(cps) = 1
  BY DEF Init
<1>9. MemoryTypeOK
  <2>1. \A c \in 1..Len(saved) : c = 1
    BY <1>7
  <2> QED  BY <1>6, <1>7, <1>8, <2>1 DEF MemoryTypeOK
<1> QED  BY <1>1, <1>5, <1>9 DEF MemoryInv

LEMMA StutterMemory == MemoryInv /\ UNCHANGED <<vars, memoryVars>> => MemoryInv'
<1> SUFFICES ASSUME MemoryInv, UNCHANGED <<vars, memoryVars>>
             PROVE  MemoryInv'
  OBVIOUS
<1>1. /\ UNCHANGED <<sf, cps, breg, bfreg, frames, openreg, running>> /\ mem' = mem /\ saved' = saved
  BY DEF vars, memoryVars
<1>2. EngineInv'
  <2>1. OrderInv /\ WorkInv /\ CallInv /\ [Next]_vars
    BY DEF MemoryInv, EngineInv
  <2> QED  BY <2>1, OrderStep, WorkStep, CallStep DEF EngineInv
<1>3. /\ IsMemory(mem) /\ Over(Generators, mem) /\ (running => Uses(Generators, mem)) /\ Typed /\ StackInv
      /\ Len(cps) <= Len(saved) /\ Len(cps) \in Nat /\ top_of_cpstack \in Nat
  BY OverNow, EngineTops DEF MemoryTypeOK
<1>4. KeepsOpen
  BY <1>1, <1>3, SameOpen DEF IsGenerator
<1>5. Onward(mem, mem) /\ SameFrozen(mem, mem)
  <2>1. SameButCells(mem, mem)
    BY <1>3 DEF SameButCells
  <2> QED  BY <1>3, <2>1, CellsOn
<1>6. PICK T \in Nat : T = top_of_cpstack
  BY <1>3
<1>7. saved' = saved /\ Len(cps') <= Len(saved) /\ top_of_cpstack' <= T
  BY <1>1, <1>3, <1>6 DEF top_of_cpstack
<1> QED  BY <1>1, <1>2, <1>3, <1>4, <1>5, <1>6, <1>7, QuietMemory

\* What is done to memory is done along with the engine's own step.
LEMMA EngineInMemory == NextInMemory => Next
BY DEF NextInMemory, Next, NewProducerInMemory, CallCompletedInMemory, ConsumeInMemory, NewAnswerInMemory,
       ScheduleInMemory, makeConsumerInMemory, CompleteInMemory, UserAnswerInMemory, NextQueryInMemory,
       NextClauseInMemory, NextOfTrieInMemory, AnswerReturnInMemory

LEMMA MemoryStep == MemoryInv /\ [NextInMemory]_<<vars, memoryVars>> => MemoryInv'
<1> SUFFICES ASSUME MemoryInv, NextInMemory
             PROVE  MemoryInv'
  BY StutterMemory
<1>1. EngineInv'
  <2>1. OrderInv /\ WorkInv /\ CallInv /\ [Next]_vars
    BY EngineInMemory DEF MemoryInv, EngineInv
  <2> QED  BY <2>1, OrderStep, WorkStep, CallStep DEF EngineInv
<1>2. ASSUME NEW s \in Subgoal, NewProducerInMemory(s)
      PROVE  MemoryInv'
  BY <1>1, <1>2, NewProducerMemory
<1>3. ASSUME NEW s \in Subgoal, CallCompletedInMemory(s)
      PROVE  MemoryInv'
  BY <1>1, <1>3, CallCompletedMemory
<1>4. ASSUME NEW s \in Subgoal, ConsumeInMemory(s)
      PROVE  MemoryInv'
  BY <1>1, <1>4, ConsumeMemory
<1>5. ASSUME NEW s \in Subgoal, NewAnswerInMemory(s)
      PROVE  MemoryInv'
  BY <1>1, <1>5, NewAnswerMemory
<1>6. ASSUME NEW s \in Subgoal, ScheduleInMemory(s)
      PROVE  MemoryInv'
  BY <1>1, <1>6, ScheduleMemory
<1>7. ASSUME NEW s \in Subgoal, makeConsumerInMemory(s)
      PROVE  MemoryInv'
  BY <1>1, <1>7, makeConsumerMemory
<1>8. ASSUME NEW s \in Subgoal, CompleteInMemory(s)
      PROVE  MemoryInv'
  BY <1>1, <1>8, CompleteMemory
<1>9. CASE UserAnswerInMemory
  BY <1>1, <1>9, UserAnswerMemory
<1>10. CASE NextQueryInMemory
  BY <1>1, <1>10, NextQueryMemory
<1>11. CASE NextClauseInMemory
  BY <1>1, <1>11, NextClauseMemory
<1>12. CASE NextOfTrieInMemory
  BY <1>1, <1>12, NextOfTrieMemory
<1>13. CASE AnswerReturnInMemory
  BY <1>1, <1>13, AnswerReturnMemory
<1> QED  BY <1>2, <1>3, <1>4, <1>5, <1>6, <1>7, <1>8, <1>9, <1>10, <1>11, <1>12, <1>13 DEF NextInMemory

\* Whatever runs, suspends or completes, for every program: the stacks hold what they should,
\* nothing that runs is below an open table's generator, and the freeze registers hold what
\* suspended calls need.
THEOREM MemoryInvariant == SpecInMemory => []MemoryInv
BY InitMemoryInv, MemoryStep, PTL DEF SpecInMemory

\* The memory decides nothing that the stacks do not: what runs with heap, local stack and
\* trail is a run of the engine, and what the engine's steps preserve is preserved.
THEOREM MemoryImplementsEngine == SpecInMemory => Init /\ [][Next]_vars
<1>1. [NextInMemory]_<<vars, memoryVars>> => [Next]_vars
  BY EngineInMemory
<1> QED  BY <1>1, PTL DEF SpecInMemory

\* What is frozen is just what suspended calls of open tables need: no call's bindings or
\* environment are written over, and completing tables frees all that they alone kept.
THEOREM MemoryFrozen == SpecInMemory => []FrozenIsSuspended
<1>1. MemoryInv => FrozenIsSuspended
  <2> SUFFICES ASSUME MemoryInv
               PROVE  FrozenIsSuspended
    OBVIOUS
  <2>1. Freezes(mem.hf, mem.ef, mem.trf, SuspendedCalls)
    BY DEF MemoryInv, FreezeInv, FreezeRegisters
  <2>2. mem.hf \in Nat /\ mem.hf >= 1 /\ mem.ef \in Nat /\ mem.trf \in Nat /\ mem.trf >= BottomOfTrail
    BY MemoryFields, Registers, OverNow DEF BottomOfTrail
  <2>3. \A c \in SuspendedCalls : saved[c].h \in Nat /\ saved[c].eb \in Nat /\ saved[c].tr \in Nat
    BY OverNow, OpenSaved
  <2>4. PICK S : S = SuspendedCalls
    OBVIOUS
  <2>5. S = UNION {Range(sf[s].asf) : s \in {t \in Subgoal : OpenTable(t)}}
    BY <2>4 DEF SuspendedCalls, Consumers
  <2>6. mem.hf = CHOOSE x \in {1} \cup {saved[c].h : c \in S} : \A c \in S : x >= saved[c].h /\ x >= 1
    BY <2>1, <2>2, <2>3, <2>4 DEF Freezes
  <2>7. mem.ef = CHOOSE x \in {0} \cup {saved[c].eb : c \in S} : \A c \in S : x >= saved[c].eb /\ x >= 0
    BY <2>1, <2>2, <2>3, <2>4 DEF Freezes
  <2>8. mem.trf = CHOOSE x \in {BottomOfTrail} \cup {saved[c].tr : c \in S} :
                    \A c \in S : x >= saved[c].tr /\ x >= BottomOfTrail
    BY <2>1, <2>2, <2>3, <2>4 DEF Freezes, BottomOfTrail
  <2> QED  BY <2>5, <2>6, <2>7, <2>8 DEF FrozenIsSuspended
<1> QED  BY <1>1, MemoryInvariant, PTL

================================================================================
