---------------------------- MODULE ParsePageProofs ----------------------------
(***************************************************************************)
(* Proofs about ParsePage, for any keys and any length of text: the types, *)
(* the diacritic keys, the loop of segmentize, that what the page lists is *)
(* what was entered, and that no plain text is refused.                    *)
(***************************************************************************)
EXTENDS ParsePage, FiniteSetTheorems, SequenceTheorems, WellFoundedInduction, TLAPS

--------------------------------------------------------------------------------
(* What FlattenSeq is, by induction on the number of sequences. *)

LEMMA LeastExists ==
  ASSUME NEW K \in SUBSET Nat, K # {}
  PROVE  \E k \in K : \A j \in K : k <= j
<1>1. PICK k \in K : \A j \in K : ~ (<<j, k>> \in OpToRel(<, Nat))
  BY WFMin, NatLessThanWellFounded
<1>2. ASSUME NEW j \in K  PROVE ~ (j < k)
  <2>1. ~ (<<j, k>> \in {ss \in Nat \X Nat : ss[1] < ss[2]})
    BY <1>1, Zenon DEF OpToRel
  <2> QED  BY <2>1, <<j, k>>[1] = j, <<j, k>>[2] = k, <<j, k>> \in Nat \X Nat, Zenon
<1>3. \A j \in K : k <= j
  BY <1>2
<1> QED  BY <1>3

LEMMA NatSetInduction ==
  ASSUME NEW N, 0 \in N, \A n \in Nat : n \in N => n + 1 \in N
  PROVE  \A n \in Nat : n \in N
<1> DEFINE Rest == Nat \ N
<1> SUFFICES ASSUME Rest # {}  PROVE FALSE
  OBVIOUS
<1>1. PICK k \in Rest : \A j \in Rest : k <= j
  BY LeastExists
<1>2. k \in Nat /\ k \notin N
  OBVIOUS
<1>3. k # 0 /\ k - 1 \in Nat /\ ~ (k <= k - 1) /\ (k - 1) + 1 = k
  BY <1>2
<1>4. k - 1 \in N
  BY <1>1, <1>3
<1> QED  BY <1>2, <1>3, <1>4

\* f is the sequence of the concatenations that FlattenSeq goes through.
Concatenates(f, seqs, n) == f = [i \in 1..n |-> IF i = 1 THEN seqs[i] ELSE f[i - 1] \o seqs[i]]

LEMMA ConcatenatesSome ==
  ASSUME NEW seqs, NEW n \in Nat
  PROVE  \E f : Concatenates(f, seqs, n)
<1> DEFINE N == {m \in Nat : \E f : Concatenates(f, seqs, m)}
<1>1. 0 \in N
  <2>1. Concatenates([i \in 1..0 |-> <<>>], seqs, 0)
    BY DEF Concatenates
  <2> QED  BY <2>1
<1>2. ASSUME NEW m \in Nat, m \in N  PROVE m + 1 \in N
  <2> PICK f : Concatenates(f, seqs, m)
    BY <1>2
  <2> DEFINE g == [i \in 1..m + 1 |-> IF i <= m THEN f[i]
                                      ELSE IF i = 1 THEN seqs[i] ELSE f[i - 1] \o seqs[i]]
  <2>1. \A i \in 1..m : f[i] = IF i = 1 THEN seqs[i] ELSE f[i - 1] \o seqs[i]
    BY DEF Concatenates
  <2>2. \A i \in 1..m + 1 : i # 1 => i - 1 \in 1..m /\ i - 1 \in 1..m + 1 /\ i - 1 <= m
    OBVIOUS
  <2>3. \A i \in 1..m + 1 : i # 1 => g[i - 1] = f[i - 1]
    BY <2>2
  <2>4. \A i \in 1..m + 1 : g[i] = IF i = 1 THEN seqs[i] ELSE f[i - 1] \o seqs[i]
    BY <2>1
  <2>5. \A i \in 1..m + 1 : g[i] = IF i = 1 THEN seqs[i] ELSE g[i - 1] \o seqs[i]
    BY <2>3, <2>4
  <2>6. Concatenates(g, seqs, m + 1)
    <3> HIDE DEF g
    <3>1. g = [i \in 1..m + 1 |-> g[i]]
      BY DEF g
    <3> QED  BY <2>5, <3>1 DEF Concatenates
  <2> HIDE DEF g
  <2> QED  BY <2>6
<1> HIDE DEF N
<1>3. n \in N
  BY <1>1, <1>2, NatSetInduction
<1> QED  BY <1>3 DEF N

LEMMA FlattenConcatenates ==
  ASSUME NEW seqs, Len(seqs) \in Nat \ {0}
  PROVE  \E f : Concatenates(f, seqs, Len(seqs)) /\ FlattenSeq(seqs) = f[Len(seqs)]
<1> DEFINE f == CHOOSE f : f = [i \in 1..Len(seqs) |-> IF i = 1 THEN seqs[i] ELSE f[i - 1] \o seqs[i]]
<1>1. \E g : g = [i \in 1..Len(seqs) |-> IF i = 1 THEN seqs[i] ELSE g[i - 1] \o seqs[i]]
  BY ConcatenatesSome DEF Concatenates
<1>2. Concatenates(f, seqs, Len(seqs))
  BY <1>1 DEF Concatenates
<1>3. FlattenSeq(seqs) = f[Len(seqs)]
  BY DEF FlattenSeq
<1> HIDE DEF f
<1> QED  BY <1>2, <1>3

LEMMA ConcatenatesAlike ==
  ASSUME NEW f, NEW g, NEW s, NEW t, NEW m \in Nat,
         Concatenates(f, s, m), Concatenates(g, t, m + 1), \A i \in 1..m : s[i] = t[i]
  PROVE  \A i \in 1..m : f[i] = g[i]
<1> DEFINE N == {k \in Nat : k \in 1..m => f[k] = g[k]}
<1>1. 0 \in N
  OBVIOUS
<1>2. ASSUME NEW k \in Nat, k \in N  PROVE k + 1 \in N
  <2> SUFFICES ASSUME k + 1 \in 1..m  PROVE f[k + 1] = g[k + 1]
    OBVIOUS
  <2>1. k + 1 \in 1..m + 1 /\ (k + 1) - 1 = k
    OBVIOUS
  <2>2. f[k + 1] = IF k + 1 = 1 THEN s[k + 1] ELSE f[k] \o s[k + 1]
    <3>1. \A i \in 1..m : f[i] = IF i = 1 THEN s[i] ELSE f[i - 1] \o s[i]
      BY DEF Concatenates
    <3>2. f[k + 1] = IF k + 1 = 1 THEN s[k + 1] ELSE f[(k + 1) - 1] \o s[k + 1]
      BY <3>1, Zenon
    <3> QED  BY <2>1, <3>2, Zenon
  <2>3. g[k + 1] = IF k + 1 = 1 THEN t[k + 1] ELSE g[k] \o t[k + 1]
    BY <2>1 DEF Concatenates
  <2>4. k + 1 # 1 => f[k] = g[k]
    BY <1>2
  <2> QED  BY <2>2, <2>3, <2>4
<1> HIDE DEF N
<1>3. \A k \in Nat : k \in N
  BY <1>1, <1>2, NatSetInduction
<1> QED  BY <1>3 DEF N

LEMMA FlattenEmpty == FlattenSeq(<<>>) = <<>>
BY DEF FlattenSeq

LEMMA FlattenAppend ==
  ASSUME NEW S, NEW seqs \in Seq(Seq(S)), NEW x \in Seq(S)
  PROVE  FlattenSeq(Append(seqs, x)) = FlattenSeq(seqs) \o x
<1> DEFINE n == Len(seqs)
           all == Append(seqs, x)
<1>1. n \in Nat /\ all \in Seq(Seq(S)) /\ Len(all) = n + 1 /\ all[n + 1] = x /\ \A i \in 1..n : seqs[i] = all[i]
  OBVIOUS
<1>2. PICK g : Concatenates(g, all, n + 1) /\ FlattenSeq(all) = g[n + 1]
  <2> HIDE DEF all
  <2>1. Len(all) \in Nat \ {0}
    BY <1>1
  <2> QED  BY <1>1, <2>1, FlattenConcatenates
<1>3. g[n + 1] = IF n + 1 = 1 THEN x ELSE g[n] \o x
  <2>1. (n + 1) - 1 = n /\ n + 1 \in 1..n + 1
    BY <1>1
  <2> HIDE DEF n, all
  <2>2. g[n + 1] = IF n + 1 = 1 THEN all[n + 1] ELSE g[(n + 1) - 1] \o all[n + 1]
    BY <1>2, <2>1 DEF Concatenates
  <2> QED  BY <1>1, <2>1, <2>2
<1>4. CASE n = 0
  <2>1. seqs = <<>>
    BY <1>4
  <2> QED  BY <1>2, <1>3, <1>4, <2>1, FlattenEmpty
<1>5. CASE n # 0
  <2>1. PICK f : Concatenates(f, seqs, n) /\ FlattenSeq(seqs) = f[n]
    BY <1>1, <1>5, FlattenConcatenates
  <2>2. f[n] = g[n]
    <3> HIDE DEF n, all
    <3>1. \A i \in 1..n : f[i] = g[i]
      <4>1. n \in Nat /\ Concatenates(f, seqs, n) /\ Concatenates(g, all, n + 1) /\ \A i \in 1..n : seqs[i] = all[i]
        BY <1>1, <1>2, <2>1
      <4> QED  BY <4>1, ConcatenatesAlike
    <3> QED  BY <1>1, <1>5, <3>1
  <2> QED  BY <1>1, <1>2, <1>3, <1>5, <2>1, <2>2
<1> QED  BY <1>4, <1>5

LEMMA FlattenType ==
  ASSUME NEW S, NEW seqs \in Seq(Seq(S))
  PROVE  /\ FlattenSeq(seqs) \in Seq(S)
         /\ \A i \in DOMAIN seqs : Range(seqs[i]) \subseteq Range(FlattenSeq(seqs))
<1> DEFINE Holds(s) == /\ FlattenSeq(s) \in Seq(S)
                       /\ \A i \in DOMAIN s : Range(s[i]) \subseteq Range(FlattenSeq(s))
           N == {n \in Nat : \A s \in Seq(Seq(S)) : Len(s) = n => Holds(s)}
<1>1. 0 \in N
  <2> SUFFICES ASSUME NEW s \in Seq(Seq(S)), Len(s) = 0  PROVE Holds(s)
    OBVIOUS
  <2>1. s = <<>> /\ DOMAIN s = {}
    OBVIOUS
  <2>2. FlattenSeq(s) = <<>>
    BY <2>1, FlattenEmpty
  <2>3. <<>> \in Seq(S)
    OBVIOUS
  <2>4. \A i \in DOMAIN s : FALSE
    BY <2>1
  <2> QED  BY <2>2, <2>3, <2>4
<1>2. ASSUME NEW n \in Nat, n \in N  PROVE n + 1 \in N
  <2> SUFFICES ASSUME NEW s \in Seq(Seq(S)), Len(s) = n + 1  PROVE Holds(s)
    OBVIOUS
  <2> PICK t, x : t = SubSeq(s, 1, n) /\ x = s[n + 1]
    OBVIOUS
  <2>1. /\ t \in Seq(Seq(S)) /\ Len(t) = n /\ x \in Seq(S) /\ DOMAIN s = 1..n + 1 /\ DOMAIN t = 1..n
        /\ \A i \in 1..n : s[i] = t[i]
    OBVIOUS
  <2>2. s = Append(t, x)
    BY <2>1
  <2>3. Holds(t)
    BY <1>2, <2>1
  <2>4. FlattenSeq(s) = FlattenSeq(t) \o x
    BY <2>1, <2>2, FlattenAppend
  <2>5. Range(FlattenSeq(s)) = Range(FlattenSeq(t)) \cup Range(x)
    <3> PICK u : u = FlattenSeq(t)
      OBVIOUS
    <3>1. u \in Seq(S)
      BY <2>3
    <3>2. FlattenSeq(s) = u \o x
      BY <2>4
    <3>3. Range(u \o x) = Range(u) \cup Range(x)
      BY <2>1, <3>1, RangeConcatenation
    <3> QED  BY <3>2, <3>3
  <2>6. ASSUME NEW i \in DOMAIN s  PROVE Range(s[i]) \subseteq Range(FlattenSeq(s))
    <3>1. CASE i = n + 1
      BY <2>5, <3>1
    <3>2. CASE i # n + 1
      <4>1. i \in DOMAIN t /\ s[i] = t[i]
        BY <2>1, <3>2
      <4> QED  BY <2>3, <2>5, <4>1
    <3> QED  BY <3>1, <3>2
  <2>7. FlattenSeq(s) \in Seq(S)
    BY <2>1, <2>3, <2>4
  <2> QED  BY <2>6, <2>7
<1> HIDE DEF N
<1>3. Len(seqs) \in N
  <2>1. Len(seqs) \in Nat
    OBVIOUS
  <2> QED  BY <1>1, <1>2, <2>1, NatSetInduction
<1> QED  BY <1>3 DEF N

\* Joining is associative.
LEMMA JoinAssociative ==
  ASSUME NEW S, NEW a \in Seq(S), NEW b \in Seq(S), NEW c \in Seq(S)
  PROVE  (a \o b) \o c = a \o (b \o c)
BY ConcatAssociative

\* The concatenation of two lists of sequences.
LEMMA FlattenConcatenation ==
  ASSUME NEW S
  PROVE  \A a, b \in Seq(Seq(S)) : FlattenSeq(a \o b) = FlattenSeq(a) \o FlattenSeq(b)
<1>a. \A y, z, v \in Seq(S) : (y \o z) \o v = y \o (z \o v)
  BY JoinAssociative
<1> TAKE a, b \in Seq(Seq(S))
<1> DEFINE Holds(t) == FlattenSeq(a \o t) = FlattenSeq(a) \o FlattenSeq(t)
           N == {n \in Nat : \A t \in Seq(Seq(S)) : Len(t) = n => Holds(t)}
<1>0. FlattenSeq(a) \in Seq(S)
  BY FlattenType
<1>1. 0 \in N
  <2> SUFFICES ASSUME NEW t \in Seq(Seq(S)), Len(t) = 0  PROVE Holds(t)
    OBVIOUS
  <2>1. t = <<>> /\ a \o <<>> = a /\ FlattenSeq(a) \o <<>> = FlattenSeq(a)
    BY <1>0, ConcatEmptySeq
  <2> QED  BY <2>1, FlattenEmpty
<1>2. ASSUME NEW n \in Nat, n \in N  PROVE n + 1 \in N
  <2> SUFFICES ASSUME NEW t \in Seq(Seq(S)), Len(t) = n + 1  PROVE Holds(t)
    OBVIOUS
  <2> PICK u, x : u = SubSeq(t, 1, n) /\ x = t[n + 1]
    OBVIOUS
  <2>1. u \in Seq(Seq(S)) /\ Len(u) = n /\ x \in Seq(S) /\ \A i \in 1..n : t[i] = u[i]
    OBVIOUS
  <2>2. t = Append(u, x)
    BY <2>1
  <2>3. a \o t = Append(a \o u, x) /\ a \o u \in Seq(Seq(S))
    <3> PICK L : L = Seq(S)
      OBVIOUS
    <3>1. a \in Seq(L) /\ u \in Seq(L) /\ x \in L
      BY <2>1
    <3>2. ASSUME NEW y \in Seq(L), NEW z \in Seq(L), NEW e \in L
          PROVE  y \o Append(z, e) = Append(y \o z, e) /\ y \o z \in Seq(L)
      BY SMTT(40)
    <3> QED  BY <2>2, <3>1, <3>2, SMTT(40)
  <2>4. FlattenSeq(a \o t) = FlattenSeq(a \o u) \o x /\ FlattenSeq(t) = FlattenSeq(u) \o x
    BY <2>1, <2>2, <2>3, FlattenAppend
  <2>5. FlattenSeq(a \o u) = FlattenSeq(a) \o FlattenSeq(u)
    BY <1>2, <2>1
  <2>6. FlattenSeq(u) \in Seq(S)
    BY <2>1, FlattenType
  <2>7. (FlattenSeq(a) \o FlattenSeq(u)) \o x = FlattenSeq(a) \o (FlattenSeq(u) \o x)
    BY <1>a, <1>0, <2>1, <2>6, Zenon
  <2> QED  BY <2>4, <2>5, <2>7, Zenon
<1> HIDE DEF N
<1>3. Len(b) \in N
  <2>1. Len(b) \in Nat
    OBVIOUS
  <2> QED  BY <1>1, <1>2, <2>1, NatSetInduction
<1> QED  BY <1>3 DEF N

LEMMA FlattenOne == ASSUME NEW S, NEW x \in Seq(S)  PROVE FlattenSeq(<<x>>) = x
<1>1. <<>> \in Seq(Seq(S)) /\ Append(<<>>, x) = <<x>> /\ <<>> \o x = x
  OBVIOUS
<1>2. FlattenSeq(Append(<<>>, x)) = FlattenSeq(<<>>) \o x
  BY <1>1, FlattenAppend
<1> QED  BY <1>1, <1>2, FlattenEmpty

\* The concatenation begins as the first of the sequences does.
LEMMA FlattenFirst ==
  ASSUME NEW S, NEW seqs \in Seq(Seq(S)), seqs # <<>>, seqs[1] # <<>>
  PROVE  FlattenSeq(seqs)[1] = seqs[1][1]
<1> PICK x, rest : x = seqs[1] /\ rest = Tail(seqs)
  OBVIOUS
<1>1. x \in Seq(S) /\ x # <<>> /\ rest \in Seq(Seq(S)) /\ <<x>> \in Seq(Seq(S)) /\ seqs = <<x>> \o rest
  <2> PICK L : L = Seq(S)
    OBVIOUS
  <2>1. ASSUME NEW M, NEW t \in Seq(M), t # <<>>
        PROVE  t[1] \in M /\ Tail(t) \in Seq(M) /\ <<t[1]>> \in Seq(M) /\ t = <<t[1]>> \o Tail(t)
    <3>1. t[1] \in M /\ Tail(t) \in Seq(M) /\ Len(t) \in Nat \ {0} /\ Len(Tail(t)) = Len(t) - 1
      BY <2>1
    <3>2. \A i \in 1..Len(t) - 1 : Tail(t)[i] = t[i + 1]
      BY <2>1
    <3> PICK v : v = <<t[1]>> \o Tail(t)
      OBVIOUS
    <3>3. v \in Seq(M) /\ Len(v) = Len(t) /\ v[1] = t[1] /\ \A i \in 2..Len(t) : v[i] = Tail(t)[i - 1]
      BY <3>1
    <3>4. \A i \in 1..Len(t) : v[i] = t[i]
      <4> TAKE i \in 1..Len(t)
      <4>1. CASE i = 1
        BY <3>3, <4>1
      <4>2. CASE i # 1
        <5>1. i \in 2..Len(t) /\ i - 1 \in 1..Len(t) - 1 /\ (i - 1) + 1 = i
          BY <3>1, <4>2
        <5> QED  BY <3>2, <3>3, <5>1
      <4> QED  BY <4>1, <4>2
    <3>5. v = t
      BY <3>3, <3>4, SeqEqual
    <3> QED  BY <3>1, <3>5
  <2>2. seqs \in Seq(L) /\ seqs # <<>> /\ x # <<>>
    OBVIOUS
  <2>3. x \in L /\ rest \in Seq(L) /\ <<x>> \in Seq(L) /\ seqs = <<x>> \o rest
    BY <2>1, <2>2
  <2> QED  BY <2>2, <2>3
<1>2. FlattenSeq(seqs) = x \o FlattenSeq(rest)
  <2>1. FlattenSeq(<<x>> \o rest) = FlattenSeq(<<x>>) \o FlattenSeq(rest)
    BY <1>1, FlattenConcatenation
  <2>2. FlattenSeq(<<x>>) = x
    BY <1>1, FlattenOne
  <2> QED  BY <1>1, <2>1, <2>2
<1>3. FlattenSeq(rest) \in Seq(S)
  BY <1>1, FlattenType
<1> PICK r : r = FlattenSeq(rest)
  OBVIOUS
<1>4. (x \o r)[1] = x[1]
  BY <1>1, <1>3
<1> QED  BY <1>2, <1>4

--------------------------------------------------------------------------------
(* The list of segments, and characters. *)

Letter == {"a", "e", "i", "o", "H", "N", "c", "h", "d", "l", "z", "t", "s", "g", "B", "x", "G",
           "k", "b", "j", "w", "y", "m", "n"}
\* No segment begins with the second letter of a barred l or an apostrophe.
Segment == {seg \in Seq(Letter) : seg # <<>> /\ seg[1] \notin {"B", "G"}}
Char == Keys \cup NonAscii \cup Letter \cup {"junk", "'"}

LEMMA RowTyped ==
  ASSUME NEW ms \in Seq(Letter), NEW n \in Nat \ {0}
  PROVE  Row(ms, n) \in Seq(Segment)
<1> SUFFICES ASSUME NEW i \in 1..4
             PROVE  FlattenSeq([k \in 1..n |-> <<Vowels[i]>> \o ms]) \in Segment
  BY DEF Row
<1>1. Vowels[i] \in Letter
  BY DEF Vowels, Letter
<1> PICK v \in Letter : v = Vowels[i]
  BY <1>1
<1> DEFINE w == <<v>> \o ms
           seqs == [k \in 1..n |-> w]
<1>2. w \in Seq(Letter) /\ 1 \in DOMAIN w /\ w[1] = v
  OBVIOUS
<1>3. seqs \in Seq(Seq(Letter)) /\ 1 \in DOMAIN seqs /\ seqs[1] = w
  BY <1>2
<1> HIDE DEF w
<1>4. v \in Range(w)
  BY <1>2 DEF Range
<1>5. FlattenSeq(seqs) \in Seq(Letter) /\ v \in Range(FlattenSeq(seqs))
  <2> HIDE DEF seqs
  <2> QED  BY <1>3, <1>4, FlattenType
<1>6. FlattenSeq(seqs) # <<>>
  BY <1>5 DEF Range
<1>7. FlattenSeq(seqs)[1] = v
  <2> HIDE DEF seqs
  <2>1. seqs # <<>> /\ seqs[1] # <<>> /\ seqs[1][1] = v
    BY <1>2, <1>3
  <2> QED  BY <1>3, <2>1, FlattenFirst
<1>8. v \notin {"B", "G"}
  BY DEF Vowels
<1> QED  BY <1>5, <1>6, <1>7, <1>8 DEF Segment, w

LEMMA VowelSegmentsTyped == VowelSegments \in Seq(Segment)
<1>1. <<"H", "N">> \in Seq(Letter) /\ <<"H">> \in Seq(Letter) /\ <<"N">> \in Seq(Letter) /\ <<>> \in Seq(Letter)
  BY DEF Letter
<1>2. /\ Row(<<"H", "N">>, 2) \in Seq(Segment) /\ Row(<<"H">>, 2) \in Seq(Segment)
      /\ Row(<<"N">>, 2) \in Seq(Segment) /\ Row(<<>>, 2) \in Seq(Segment)
      /\ Row(<<"H", "N">>, 1) \in Seq(Segment) /\ Row(<<"H">>, 1) \in Seq(Segment)
      /\ Row(<<"N">>, 1) \in Seq(Segment) /\ Row(<<>>, 1) \in Seq(Segment)
  <2>1. 1 \in Nat \ {0} /\ 2 \in Nat \ {0}
    OBVIOUS
  <2>2. \A ms \in Seq(Letter) : Row(ms, 1) \in Seq(Segment) /\ Row(ms, 2) \in Seq(Segment)
    BY <2>1, RowTyped
  <2> QED  BY <1>1, <2>2
<1>3. /\ <<"e", "i", "H">> \in Segment /\ <<"a", "i", "H">> \in Segment
      /\ <<"e", "i", "H", "i", "H">> \in Segment /\ <<"a", "i", "H", "i", "H">> \in Segment
      /\ <<"e", "i">> \in Segment /\ <<"e", "i", "i">> \in Segment
      /\ <<"a", "i">> \in Segment /\ <<"a", "i", "i">> \in Segment
  BY DEF Segment, Letter
<1>4. << <<"e", "i", "H">>, <<"a", "i", "H">>,
         <<"e", "i", "H", "i", "H">>, <<"a", "i", "H", "i", "H">>,
         <<"e", "i">>, <<"e", "i", "i">>, <<"a", "i">>, <<"a", "i", "i">> >> \in Seq(Segment)
  BY <1>3
<1> QED  BY <1>2, <1>4 DEF VowelSegments

LEMMA ConsonantSegmentsTyped == ConsonantSegments \in Seq(Segment)
<1>1. /\ <<"c", "h">> \in Segment /\ <<"d", "l">> \in Segment /\ <<"d", "z">> \in Segment
      /\ <<"t", "s">> \in Segment /\ <<"z", "h">> \in Segment /\ <<"s", "h">> \in Segment
      /\ <<"g", "h">> \in Segment /\ <<"t", "l", "B">> \in Segment /\ <<"c", "h", "x", "G">> \in Segment
      /\ <<"k", "x", "G">> \in Segment /\ <<"t", "x", "G">> \in Segment
      /\ <<"t", "l", "B", "x", "G">> \in Segment /\ <<"t", "s", "x", "G">> \in Segment
      /\ <<"x", "G">> \in Segment /\ <<"l", "B">> \in Segment
  BY DEF Segment, Letter
<1>2. << <<"c", "h">>, <<"d", "l">>, <<"d", "z">>, <<"t", "s">>, <<"z", "h">>, <<"s", "h">>,
         <<"g", "h">>, <<"t", "l", "B">>, <<"c", "h", "x", "G">>, <<"k", "x", "G">>,
         <<"t", "x", "G">>, <<"t", "l", "B", "x", "G">>, <<"t", "s", "x", "G">>, <<"x", "G">>,
         <<"l", "B">> >> \in Seq(Segment)
  BY <1>1
<1> DEFINE single == <<"b", "d", "g", "h", "j", "k", "l", "w", "x", "y", "z", "m", "n", "s", "t">>
<1>3. single \in Seq(Letter)
  BY DEF Letter
<1>4. [i \in DOMAIN single |-> <<single[i]>>] \in Seq(Segment)
  <2>0. DOMAIN single = 1..15 /\ \A i \in 1..15 : single[i] \notin {"B", "G"}
    OBVIOUS
  <2> HIDE DEF single
  <2>1. \A i \in DOMAIN single : <<single[i]>> \in Segment
    <3> TAKE i \in DOMAIN single
    <3> PICK x : x = single[i]
      OBVIOUS
    <3>1. x \notin {"B", "G"}
      BY <2>0
    <3>2. x \in Letter
      BY <1>3
    <3> QED  BY <3>1, <3>2 DEF Segment
  <2>2. DOMAIN single = 1..Len(single) /\ Len(single) \in Nat
    BY <1>3
  <2> QED  BY <2>1, <2>2
<1> QED  BY <1>2, <1>4 DEF ConsonantSegments

LEMMA SegmentsTyped == Segments \in Seq(Segment)
BY VowelSegmentsTyped, ConsonantSegmentsTyped DEF Segments

LEMMA FirstMatchFound ==
  ASSUME NEW list \in Seq(Segment), NEW text, FirstMatch(list, text) # 0
  PROVE  FirstMatch(list, text) \in DOMAIN list /\ IsPrefix(list[FirstMatch(list, text)], text)
<1> DEFINE M == {i \in 1..Len(list) : IsPrefix(list[i], text)}
<1>1. M # {}
  BY DEF FirstMatch
<1>2. \E i \in M : \A j \in M : i <= j
  <2>1. M \in SUBSET Nat
    OBVIOUS
  <2> HIDE DEF M
  <2> QED  BY <1>1, <2>1, LeastExists
<1>3. FirstMatch(list, text) = CHOOSE i \in M : \A j \in M : i <= j
  BY <1>1 DEF FirstMatch
<1> HIDE DEF M
<1>4. FirstMatch(list, text) \in M
  BY <1>2, <1>3
<1> QED  BY <1>4 DEF M

\* A prefix and what is left without it make the text.
LEMMA PrefixAndRest ==
  ASSUME NEW S, NEW text \in Seq(S), NEW seg \in Seq(S), IsPrefix(seg, text)
  PROVE  /\ SubSeq(text, Len(seg) + 1, Len(text)) \in Seq(S)
         /\ Len(SubSeq(text, Len(seg) + 1, Len(text))) = Len(text) - Len(seg)
         /\ text = seg \o SubSeq(text, Len(seg) + 1, Len(text))
<1> DEFINE n == Len(seg)
           rest == SubSeq(text, n + 1, Len(text))
<1>1. n \in Nat /\ Len(text) \in Nat /\ n <= Len(text) /\ SubSeq(seg, 1, n) = SubSeq(text, 1, n)
  BY DEF IsPrefix
<1>2. rest \in Seq(S) /\ Len(rest) = Len(text) - n /\ \A i \in 1..Len(text) - n : rest[i] = text[n + i]
  BY <1>1
<1>3. \A i \in 1..n : seg[i] = text[i]
  <2> TAKE i \in 1..n
  <2>1. SubSeq(seg, 1, n)[i] = seg[i] /\ SubSeq(text, 1, n)[i] = text[i]
    BY <1>1
  <2> QED  BY <1>1, <2>1
<1>4. seg \o rest \in Seq(S) /\ Len(seg \o rest) = Len(text)
  BY <1>1, <1>2
<1>5. ASSUME NEW i \in 1..Len(text)  PROVE (seg \o rest)[i] = text[i]
  <2>1. CASE i <= n
    BY <1>1, <1>2, <1>3, <2>1
  <2>2. CASE ~ (i <= n)
    <3>1. (seg \o rest)[i] = rest[i - n]
      BY <1>1, <1>2, <2>2
    <3>2. i - n \in 1..Len(text) - n /\ n + (i - n) = i
      BY <1>1, <2>2
    <3> QED  BY <1>2, <3>1, <3>2
  <2> QED  BY <2>1, <2>2
<1> HIDE DEF rest
<1>6. seg \o rest = text
  <2> PICK u : u = seg \o rest
    OBVIOUS
  <2>1. u \in Seq(S) /\ Len(u) = Len(text) /\ \A i \in 1..Len(u) : u[i] = text[i]
    BY <1>4, <1>5
  <2> QED  BY <2>1, SeqEqual
<1> QED  BY <1>2, <1>6 DEF rest

\* Joining two lists of a set gives a list of the set, as long as both together.
LEMMA JoinTyped ==
  ASSUME NEW S, NEW a \in Seq(S), NEW b \in Seq(S)
  PROVE  a \o b \in Seq(S) /\ Len(a \o b) = Len(a) + Len(b)
BY ConcatProperties

--------------------------------------------------------------------------------
(* What a text reads as, and that reading in pieces is reading the whole, as long *)
(* as no cut parts the two letters of a barred l or an apostrophe.                *)

Pieces(text) == [i \in DOMAIN text |-> ShownAt(text, i)]
Pairs == {<<"l", "B">>, <<"x", "G">>}
\* The last character of a and the first of b are such a pair.
Parted(a, b) == a # <<>> /\ b # <<>> /\ <<a[Len(a)], b[1]>> \in Pairs

LEMMA PiecesTyped ==
  ASSUME NEW text \in Seq(Char)
  PROVE  Pieces(text) \in Seq(Seq(Char)) /\ Len(Pieces(text)) = Len(text)
<1>1. DOMAIN text = 1..Len(text) /\ Len(text) \in Nat /\ \A i \in 1..Len(text) : text[i] \in Char
  OBVIOUS
<1>2. ASSUME NEW i \in 1..Len(text)  PROVE ShownAt(text, i) \in Seq(Char)
  <2>1. {"acute", "hook", "barred-l", "'", text[i]} \subseteq Char
    BY <1>1 DEF Char, NonAscii
  <2>2. ShownAt(text, i) \in {<<"acute">>, <<"hook">>, <<"barred-l">>, <<"'">>, <<>>, <<text[i]>>}
    BY Zenon DEF ShownAt
  <2>3. <<>> \in Seq(Char) /\ \A x \in Char : <<x>> \in Seq(Char)
    OBVIOUS
  <2> QED  BY <2>1, <2>2, <2>3, Zenon
<1>3. Pieces(text) = [i \in 1..Len(text) |-> ShownAt(text, i)]
  BY <1>1 DEF Pieces
<1> QED  BY <1>1, <1>2, <1>3

LEMMA ShownTyped ==
  ASSUME NEW text \in Seq(Char)
  PROVE  Shown(text) \in Seq(Char)
BY PiecesTyped, FlattenType DEF Shown, Pieces

\* What a list is after an element is added.
LEMMA AppendedAt ==
  ASSUME NEW S, NEW f \in Seq(S), NEW x \in S
  PROVE  Append(f, x) = [k \in 1..Len(f) + 1 |-> IF k = Len(f) + 1 THEN x ELSE f[k]]
<1> DEFINE g == [k \in 1..Len(f) + 1 |-> IF k = Len(f) + 1 THEN x ELSE f[k]]
<1>1. /\ Append(f, x) \in Seq(S) /\ Len(Append(f, x)) = Len(f) + 1 /\ Append(f, x)[Len(f) + 1] = x
      /\ \A k \in 1..Len(f) : Append(f, x)[k] = f[k]
  BY AppendProperties
<1>2. g \in Seq(S) /\ Len(g) = Len(f) + 1 /\ \A k \in 1..Len(f) + 1 : g[k] = IF k = Len(f) + 1 THEN x ELSE f[k]
  OBVIOUS
<1>3. \A k \in 1..Len(f) + 1 : Append(f, x)[k] = g[k]
  BY <1>1, <1>2
<1> HIDE DEF g
<1>4. Append(f, x) = g
  BY <1>1, <1>2, <1>3, SeqEqual
<1> QED  BY <1>4 DEF g

LEMMA TwoAppended ==
  \A M : \A x, y \in M : <<x>> \in Seq(M) /\ Append(<<x>>, y) = <<x, y>>
<1> TAKE M
<1> TAKE x, y \in M
<1>1. <<x>> \in Seq(M) /\ Len(<<x>>) = 1 /\ <<x>>[1] = x
  OBVIOUS
<1>2. Append(<<x>>, y) = [k \in 1..2 |-> IF k = 2 THEN y ELSE <<x>>[k]]
  BY <1>1, AppendedAt
<1>3. \A k \in 1..2 : (IF k = 2 THEN y ELSE <<x>>[k]) = IF k = 2 THEN y ELSE x
  BY <1>1
<1>4. <<x, y>> = [k \in 1..2 |-> IF k = 2 THEN y ELSE x]
  OBVIOUS
<1> QED  BY <1>1, <1>2, <1>3, <1>4

\* A list that agrees with a and then with b is their concatenation.
Agrees(c, a, b) ==
  /\ Len(c) = Len(a) + Len(b)
  /\ \A i \in 1..Len(a) : c[i] = a[i]
  /\ \A i \in 1..Len(b) : c[Len(a) + i] = b[i]

LEMMA JoinIs ==
  ASSUME NEW S, NEW a \in Seq(S), NEW b \in Seq(S), NEW c \in Seq(S), Agrees(c, a, b)
  PROVE  c = a \o b
<1> USE DEF Agrees
<1> PICK d, m, n : d = a \o b /\ m = Len(a) /\ n = Len(b)
  OBVIOUS
<1>1. m \in Nat /\ n \in Nat /\ d \in Seq(S) /\ Len(d) = m + n
  OBVIOUS
<1>2. (\A i \in 1..m : d[i] = a[i]) /\ \A i \in 1..n : d[m + i] = b[i]
  OBVIOUS
<1>3. ASSUME NEW i \in 1..m + n  PROVE c[i] = d[i]
  <2>1. CASE i <= m
    <3>1. i \in 1..m
      BY <1>1, <2>1
    <3> QED  BY <1>2, <3>1
  <2>2. CASE ~ (i <= m)
    <3>1. i - m \in 1..n /\ m + (i - m) = i
      BY <1>1, <2>2
    <3>2. c[m + (i - m)] = b[i - m] /\ d[m + (i - m)] = b[i - m]
      BY <1>2, <3>1
    <3> QED  BY <3>1, <3>2
  <2> QED  BY <2>1, <2>2
<1>4. c = d
  BY <1>1, <1>3, SeqEqual
<1> QED  BY <1>4

LEMMA JoinedPieces ==
  ASSUME NEW f \in Seq(Seq(Char)), NEW g \in Seq(Seq(Char)), NEW h \in Seq(Seq(Char)), Agrees(h, f, g)
  PROVE  FlattenSeq(h) = FlattenSeq(f) \o FlattenSeq(g)
<1>1. h = f \o g
  BY JoinIs DEF Agrees
<1> QED  BY <1>1, FlattenConcatenation

LEMMA ShownConcatenation ==
  ASSUME NEW a \in Seq(Char), NEW b \in Seq(Char), ~ Parted(a, b)
  PROVE  Shown(a \o b) = Shown(a) \o Shown(b)
<1> PICK c, m, n : c = a \o b /\ m = Len(a) /\ n = Len(b)
  OBVIOUS
<1>1. /\ c \in Seq(Char) /\ Len(c) = m + n /\ m \in Nat /\ n \in Nat
      /\ DOMAIN a = 1..m /\ DOMAIN b = 1..n /\ DOMAIN c = 1..m + n
      /\ \A i \in 1..m : c[i] = a[i]
      /\ \A i \in 1..n : c[m + i] = b[i]
  OBVIOUS
<1>2. ASSUME NEW p, NEW q, <<p, q>> \in Pairs, m > 0, n > 0  PROVE ~ (a[m] = p /\ b[1] = q)
  <2>1. a # <<>> /\ b # <<>>
    BY <1>1, <1>2
  <2> QED  BY <1>2, <2>1 DEF Parted
<1>3. ASSUME NEW i \in Int, NEW p, NEW q, <<p, q>> \in Pairs
      PROVE  Pair(c, i, p, q) <=> Pair(a, i, p, q) \/ Pair(b, i - m, p, q)
  <2>1. CASE i < m
    <3>1. i \in 1..m + n <=> i \in 1..m
      BY <1>1, <2>1
    <3>2. i + 1 \in 1..m + n <=> i + 1 \in 1..m
      BY <1>1, <2>1
    <3>3. ~ (i - m \in 1..n)
      BY <1>1, <2>1
    <3> QED  BY <1>1, <3>1, <3>2, <3>3 DEF Pair
  <2>2. CASE i = m
    <3>1. ~ Pair(a, i, p, q) /\ ~ Pair(b, i - m, p, q)
      <4>1. ~ (i + 1 \in 1..m) /\ ~ (i - m \in 1..n)
        BY <1>1, <2>2
      <4> QED  BY <1>1, <4>1 DEF Pair
    <3>2. Pair(c, i, p, q) => m > 0 /\ n > 0 /\ c[m] = a[m] /\ c[m + 1] = b[1]
      <4> SUFFICES ASSUME Pair(c, i, p, q)  PROVE m > 0 /\ n > 0 /\ c[m] = a[m] /\ c[m + 1] = b[1]
        OBVIOUS
      <4>1. i \in 1..m + n /\ i + 1 \in 1..m + n
        BY <1>1 DEF Pair
      <4>2. m \in 1..m /\ 1 \in 1..n
        BY <1>1, <2>2, <4>1
      <4> QED  BY <1>1, <4>2
    <3>3. Pair(c, i, p, q) => c[m] = p /\ c[m + 1] = q
      BY <2>2 DEF Pair
    <3>4. ~ Pair(c, i, p, q)
      <4> SUFFICES ASSUME Pair(c, i, p, q)  PROVE FALSE
        OBVIOUS
      <4>1. m > 0 /\ n > 0 /\ a[m] = p /\ b[1] = q
        BY <3>2, <3>3
      <4> QED  BY <1>2, <1>3, <4>1
    <3> QED  BY <3>1, <3>4
  <2>3. CASE i > m
    <3> PICK j : j = i - m
      OBVIOUS
    <3>1. j \in Int /\ i = m + j /\ i + 1 = m + (j + 1) /\ ~ (i \in 1..m)
      BY <1>1, <2>3
    <3>2. (i \in 1..m + n <=> j \in 1..n) /\ (i + 1 \in 1..m + n <=> j + 1 \in 1..n)
      BY <1>1, <2>3, <3>1
    <3>3. j \in 1..n => c[i] = b[j]
      BY <1>1, <3>1
    <3>4. j + 1 \in 1..n => c[i + 1] = b[j + 1]
      BY <1>1, <3>1
    <3> QED  BY <1>1, <3>1, <3>2, <3>3, <3>4 DEF Pair
  <2> QED  BY <1>1, <2>1, <2>2, <2>3
<1>4. <<"l", "B">> \in Pairs /\ <<"x", "G">> \in Pairs
  BY DEF Pairs
<1>5. ASSUME NEW i \in 1..m  PROVE ShownAt(c, i) = ShownAt(a, i)
  <2>1. i \in Int /\ i - 1 \in Int /\ c[i] = a[i]
    BY <1>1
  <2>2. \A p, q : ~ Pair(b, i - m, p, q) /\ ~ Pair(b, (i - 1) - m, p, q)
    <3>1. ~ (i - m \in 1..n) /\ ~ ((i - 1) - m \in 1..n)
      BY <1>1
    <3> QED  BY <1>1, <3>1 DEF Pair
  <2>3. /\ Pair(c, i, "l", "B") <=> Pair(a, i, "l", "B")
        /\ Pair(c, i, "x", "G") <=> Pair(a, i, "x", "G")
        /\ Pair(c, i - 1, "l", "B") <=> Pair(a, i - 1, "l", "B")
        /\ Pair(c, i - 1, "x", "G") <=> Pair(a, i - 1, "x", "G")
    BY <1>3, <1>4, <2>1, <2>2
  <2> QED  BY <2>1, <2>3 DEF ShownAt
<1>6. ASSUME NEW i \in 1..n  PROVE ShownAt(c, m + i) = ShownAt(b, i)
  <2>1. m + i \in Int /\ (m + i) - 1 \in Int /\ (m + i) - m = i /\ ((m + i) - 1) - m = i - 1 /\ c[m + i] = b[i]
    BY <1>1
  <2>2. \A p, q : ~ Pair(a, m + i, p, q) /\ ~ Pair(a, (m + i) - 1, p, q)
    <3>1. ~ (m + i \in 1..m) /\ ~ (((m + i) - 1) + 1 \in 1..m)
      BY <1>1
    <3> QED  BY <1>1, <3>1 DEF Pair
  <2>3. /\ Pair(c, m + i, "l", "B") <=> Pair(b, i, "l", "B")
        /\ Pair(c, m + i, "x", "G") <=> Pair(b, i, "x", "G")
        /\ Pair(c, (m + i) - 1, "l", "B") <=> Pair(b, i - 1, "l", "B")
        /\ Pair(c, (m + i) - 1, "x", "G") <=> Pair(b, i - 1, "x", "G")
    BY <1>3, <1>4, <2>1, <2>2
  <2> QED  BY <2>1, <2>3 DEF ShownAt
<1>7. FlattenSeq(Pieces(c)) = FlattenSeq(Pieces(a)) \o FlattenSeq(Pieces(b))
  <2>1. /\ Pieces(a) \in Seq(Seq(Char)) /\ Len(Pieces(a)) = m
        /\ Pieces(b) \in Seq(Seq(Char)) /\ Len(Pieces(b)) = n
        /\ Pieces(c) \in Seq(Seq(Char)) /\ Len(Pieces(c)) = m + n
    BY <1>1, PiecesTyped
  <2>2. \A i \in 1..m : Pieces(c)[i] = Pieces(a)[i]
    BY <1>1, <1>5 DEF Pieces
  <2>3. \A i \in 1..n : Pieces(c)[m + i] = Pieces(b)[i]
    BY <1>1, <1>6 DEF Pieces
  <2> PICK f, g, h : f = Pieces(a) /\ g = Pieces(b) /\ h = Pieces(c)
    OBVIOUS
  <2>4. f \in Seq(Seq(Char)) /\ g \in Seq(Seq(Char)) /\ h \in Seq(Seq(Char))
    BY <2>1
  <2>5. Agrees(h, f, g)
    BY <2>1, <2>2, <2>3 DEF Agrees
  <2>6. FlattenSeq(h) = FlattenSeq(f) \o FlattenSeq(g)
    BY <2>4, <2>5, JoinedPieces, ZenonT(60)
  <2> QED  BY <2>6
<1> QED  BY <1>7 DEF Shown, Pieces

\* A character on its own, and the two pairs.
LEMMA ShownPieces ==
  /\ Shown(<<>>) = <<>>
  /\ \A c \in Char : Shown(<<c>>) = IF c = "H" THEN <<"acute">> ELSE IF c = "N" THEN <<"hook">> ELSE <<c>>
  /\ Shown(<<"l", "B">>) = <<"barred-l">> /\ Shown(<<"x", "G">>) = <<"'">>
<1>1. Shown(<<>>) = <<>>
  <2>1. Pieces(<<>>) = <<>>
    BY DEF Pieces
  <2> QED  BY <2>1, FlattenEmpty DEF Shown, Pieces
<1>2. ASSUME NEW c \in Char
      PROVE  Shown(<<c>>) = IF c = "H" THEN <<"acute">> ELSE IF c = "N" THEN <<"hook">> ELSE <<c>>
  <2>1. DOMAIN <<c>> = {1} /\ <<c>>[1] = c /\ 1 + 1 \notin {1} /\ 1 - 1 \notin {1}
    OBVIOUS
  <2>2. \A p, q : ~ Pair(<<c>>, 1, p, q) /\ ~ Pair(<<c>>, 1 - 1, p, q)
    BY <2>1 DEF Pair
  <2> PICK x : x = ShownAt(<<c>>, 1)
    OBVIOUS
  <2>3. x = IF c = "H" THEN <<"acute">> ELSE IF c = "N" THEN <<"hook">> ELSE <<c>>
    BY <2>1, <2>2 DEF ShownAt
  <2>4. Pieces(<<c>>) = <<x>>
    BY <2>1 DEF Pieces
  <2>5. x \in Seq(Char)
    <3>1. {"acute", "hook"} \subseteq Char
      BY DEF Char, NonAscii
    <3>2. x \in {<<"acute">>, <<"hook">>, <<c>>}
      BY <2>3
    <3>3. \A y \in Char : <<y>> \in Seq(Char)
      OBVIOUS
    <3> QED  BY <3>1, <3>2, <3>3, Zenon
  <2> QED  BY <2>3, <2>4, <2>5, FlattenOne DEF Shown, Pieces
<1>3. ASSUME NEW p \in Char, NEW q \in Char, NEW y \in Char, p \notin {"H", "N"}, q \notin {"H", "N"},
             p # q, <<p, q, y>> \in {<<"l", "B", "barred-l">>, <<"x", "G", "'">>}
      PROVE  Shown(<<p, q>>) = <<y>>
  <2> PICK t : t = <<p, q>>
    OBVIOUS
  <2>1. DOMAIN t = {1, 2} /\ t[1] = p /\ t[2] = q /\ Len(t) = 2
    OBVIOUS
  <2>2. 1 + 1 = 2 /\ 2 + 1 \notin {1, 2} /\ 1 - 1 \notin {1, 2} /\ 2 - 1 = 1
    OBVIOUS
  <2>3. ShownAt(t, 1) = <<y>>
    BY <1>3, <2>1, <2>2 DEF ShownAt, Pair
  <2>4. ShownAt(t, 2) = <<>>
    BY <1>3, <2>1, <2>2 DEF ShownAt, Pair
  <2>5. Pieces(t) = << <<y>>, <<>> >>
    BY <2>1, <2>3, <2>4 DEF Pieces
  <2> PICK u, v : u = <<y>> /\ v = <<>>
    OBVIOUS
  <2>6. u \in Seq(Char) /\ v \in Seq(Char) /\ u \o v = u
    OBVIOUS
  <2>7. <<u>> \in Seq(Seq(Char)) /\ Append(<<u>>, v) = <<u, v>>
    <3>1. \A z, e \in Seq(Char) : <<z>> \in Seq(Seq(Char)) /\ Append(<<z>>, e) = <<z, e>>
      BY TwoAppended, Zenon
    <3> QED  BY <2>6, <3>1, Zenon
  <2>8. FlattenSeq(<<u, v>>) = u \o v
    <3>1. <<u>> \in Seq(Seq(Char)) /\ v \in Seq(Char) /\ u \in Seq(Char)
      BY <2>6, <2>7
    <3>2. FlattenSeq(Append(<<u>>, v)) = FlattenSeq(<<u>>) \o v
      BY <3>1, FlattenAppend
    <3>3. FlattenSeq(<<u>>) = u
      BY <3>1, FlattenOne
    <3> QED  BY <2>7, <3>2, <3>3, Zenon
  <2> QED  BY <2>5, <2>6, <2>8 DEF Shown, Pieces
<1>4. Shown(<<"l", "B">>) = <<"barred-l">> /\ Shown(<<"x", "G">>) = <<"'">>
  <2>1. {"l", "B", "barred-l", "x", "G", "'"} \subseteq Char
    BY DEF Char, NonAscii, Letter
  <2> QED  BY <1>3, <2>1
<1> QED  BY <1>1, <1>2, <1>4

--------------------------------------------------------------------------------
(* The conversion of a text reads as the text does. *)

LEMMA OneMore ==
  ASSUME NEW text \in Seq(Char), NEW c \in Char
  PROVE  Append(text, c) = text \o <<c>>
OBVIOUS

LEMMA AsciiTyped == \A c \in Char : Ascii(c) \in Seq(Char) /\ Ascii(c) # <<>>
<1> TAKE c \in Char
<1>1. {"H", "N", "l", "B", "x", "G"} \subseteq Char
  BY DEF Char, Letter
<1> QED  BY <1>1 DEF Ascii

LEMMA ConvertedAppend ==
  ASSUME NEW text \in Seq(Char), NEW c \in Char
  PROVE  /\ Converted(text) \in Seq(Char)
         /\ Converted(Append(text, c)) = Converted(text) \o Ascii(c)
<1> PICK all, more : /\ all = [i \in DOMAIN text |-> Ascii(text[i])]
                     /\ more = [i \in DOMAIN Append(text, c) |-> Ascii(Append(text, c)[i])]
  OBVIOUS
<1> PICK n, x : n = Len(text) /\ x = Ascii(c)
  OBVIOUS
<1>1. /\ n \in Nat /\ DOMAIN text = 1..n /\ DOMAIN Append(text, c) = 1..n + 1 /\ Append(text, c)[n + 1] = c
      /\ \A i \in 1..n : text[i] \in Char /\ Append(text, c)[i] = text[i]
  OBVIOUS
<1>2. x \in Seq(Char) /\ \A i \in 1..n : Ascii(text[i]) \in Seq(Char)
  BY <1>1, AsciiTyped
<1>3. all = [i \in 1..n |-> Ascii(text[i])] /\ all \in Seq(Seq(Char)) /\ Len(all) = n
  BY <1>1, <1>2
<1>4. more = [i \in 1..n + 1 |-> IF i = n + 1 THEN x ELSE all[i]]
  <2>1. \A i \in 1..n + 1 : Ascii(Append(text, c)[i]) = IF i = n + 1 THEN x ELSE all[i]
    <3> TAKE i \in 1..n + 1
    <3>1. CASE i = n + 1
      BY <1>1, <3>1
    <3>2. CASE i # n + 1
      <4>1. i \in 1..n
        BY <1>1, <3>2
      <4> QED  BY <1>1, <1>3, <3>2, <4>1
    <3> QED  BY <3>1, <3>2
  <2>2. more = [i \in 1..n + 1 |-> Ascii(Append(text, c)[i])]
    BY <1>1
  <2> QED  BY <2>1, <2>2
<1>5. Append(all, x) = more
  <2>1. Append(all, x) = [i \in 1..Len(all) + 1 |-> IF i = Len(all) + 1 THEN x ELSE all[i]]
    BY <1>2, <1>3, AppendedAt
  <2> QED  BY <1>3, <1>4, <2>1
<1>6. FlattenSeq(Append(all, x)) = FlattenSeq(all) \o x /\ FlattenSeq(all) \in Seq(Char)
  BY <1>2, <1>3, FlattenAppend, FlattenType
<1> QED  BY <1>5, <1>6 DEF Converted

LEMMA LastApart ==
  ASSUME NEW text \in Seq(Char), text # <<>>
  PROVE  \E u \in Seq(Char), d \in Char : text = Append(u, d) /\ d = text[Len(text)] /\ Len(u) + 1 = Len(text)
<1> PICK n, u : n = Len(text) - 1 /\ u = SubSeq(text, 1, n)
  OBVIOUS
<1>1. n \in Nat /\ Len(text) = n + 1 /\ u \in Seq(Char) /\ Len(u) = n /\ text[n + 1] \in Char
  OBVIOUS
<1>2. text = Append(u, text[n + 1])
  OBVIOUS
<1> QED  BY <1>1, <1>2

\* A conversion ends in an l or an x of its own where the text does.
LEMMA ConversionParted ==
  ASSUME NEW text \in Seq(Char), NEW c \in Char, Parted(Converted(text), Ascii(c))
  PROVE  Parted(text, <<c>>)
<1>1. Ascii(c)[1] \in {"B", "G"} /\ Converted(text) # <<>>
  BY DEF Parted, Pairs
<1>2. Ascii(c) = <<c>>
  <2>1. <<"H">>[1] = "H" /\ <<"N">>[1] = "N" /\ <<"l", "B">>[1] = "l" /\ <<"x", "G">>[1] = "x"
    OBVIOUS
  <2> QED  BY <1>1, <2>1 DEF Ascii
<1>3. text # <<>>
  <2>1. [i \in {} |-> Ascii(<<>>[i])] = <<>>
    OBVIOUS
  <2>2. Converted(<<>>) = <<>>
    BY <2>1, FlattenEmpty DEF Converted
  <2> QED  BY <1>1, <2>2
<1> PICK u \in Seq(Char), d \in Char : text = Append(u, d) /\ d = text[Len(text)]
  BY <1>3, LastApart
<1> PICK p, x : p = Converted(u) /\ x = Ascii(d)
  OBVIOUS
<1>4. Converted(text) = p \o x /\ p \in Seq(Char) /\ x \in Seq(Char) /\ x # <<>>
  BY ConvertedAppend, AsciiTyped
<1>5. (p \o x)[Len(p \o x)] = x[Len(x)]
  BY <1>4
<1>6. <<x[Len(x)], c>> \in Pairs
  <2> PICK q, e : q = Converted(text) /\ e = Ascii(c)
    OBVIOUS
  <2>1. <<q[Len(q)], e[1]>> \in Pairs
    BY DEF Parted
  <2>2. q[Len(q)] = x[Len(x)] /\ e[1] = c
    BY <1>2, <1>4, <1>5
  <2> QED  BY <2>1, <2>2
<1>7. x[Len(x)] \in {"l", "x"}
  BY <1>6 DEF Pairs
<1>8. x[Len(x)] = d
  <2>1. /\ <<"H">>[Len(<<"H">>)] = "H" /\ <<"N">>[Len(<<"N">>)] = "N" /\ <<d>>[Len(<<d>>)] = d
        /\ <<"l", "B">>[Len(<<"l", "B">>)] = "B" /\ <<"x", "G">>[Len(<<"x", "G">>)] = "G"
    OBVIOUS
  <2>2. x \in {<<"H">>, <<"N">>, <<"l", "B">>, <<"x", "G">>, <<d>>}
    BY DEF Ascii
  <2> QED  BY <1>7, <2>1, <2>2
<1>9. <<c>> # <<>> /\ <<c>>[1] = c
  OBVIOUS
<1> QED  BY <1>3, <1>6, <1>8, <1>9 DEF Parted

LEMMA ShownConverted ==
  ASSUME NEW text \in Seq(Char)
  PROVE  Shown(Converted(text)) = Shown(text)
<1> DEFINE Holds(t) == Shown(Converted(t)) = Shown(t)
           N == {n \in Nat : \A t \in Seq(Char) : Len(t) <= n => Holds(t)}
<1>0. Holds(<<>>)
  <2>1. [i \in {} |-> Ascii(<<>>[i])] = <<>>
    OBVIOUS
  <2>2. Converted(<<>>) = <<>>
    BY <2>1, FlattenEmpty DEF Converted
  <2> QED  BY <2>2
<1>1. 0 \in N
  <2> SUFFICES ASSUME NEW t \in Seq(Char), Len(t) <= 0  PROVE Holds(t)
    OBVIOUS
  <2>1. t = <<>>
    OBVIOUS
  <2> QED  BY <1>0, <2>1
<1>2. ASSUME NEW n \in Nat, n \in N  PROVE n + 1 \in N
  <2> SUFFICES ASSUME NEW t \in Seq(Char), Len(t) <= n + 1  PROVE Holds(t)
    OBVIOUS
  <2>1. CASE t = <<>>
    BY <1>0, <2>1
  <2>2. CASE t # <<>>
    <3> PICK u \in Seq(Char), c \in Char : t = Append(u, c) /\ Len(u) + 1 = Len(t)
      BY <2>2, LastApart
    <3>1. Len(u) <= n /\ Holds(u) /\ <<c>> \in Seq(Char) /\ t = u \o <<c>>
      BY <1>2
    <3>2. /\ Converted(t) = Converted(u) \o Ascii(c) /\ Converted(u) \in Seq(Char)
          /\ Ascii(c) \in Seq(Char)
      BY ConvertedAppend, AsciiTyped
    <3>3. CASE ~ Parted(u, <<c>>)
      <4>1. ~ Parted(Converted(u), Ascii(c))
        BY <3>3, ConversionParted
      <4>2. Shown(Converted(t)) = Shown(Converted(u)) \o Shown(Ascii(c))
        BY <3>2, <4>1, ShownConcatenation
      <4>3. Shown(t) = Shown(u) \o Shown(<<c>>)
        BY <3>1, <3>3, ShownConcatenation
      <4>4. Shown(Ascii(c)) = Shown(<<c>>)
        <5>1. {"acute", "hook", "barred-l", "'", "H", "N"} \subseteq Char
          BY DEF Char, NonAscii, Letter
        <5>2. /\ Shown(<<"acute">>) = <<"acute">> /\ Shown(<<"H">>) = <<"acute">>
              /\ Shown(<<"hook">>) = <<"hook">> /\ Shown(<<"N">>) = <<"hook">>
              /\ Shown(<<"barred-l">>) = <<"barred-l">> /\ Shown(<<"'">>) = <<"'">>
          BY <5>1, ShownPieces
        <5> QED  BY <5>2, ShownPieces DEF Ascii
      <4> QED  BY <3>1, <4>2, <4>3, <4>4
    <3>4. CASE Parted(u, <<c>>)
      <4> PICK v \in Seq(Char), d \in Char : u = Append(v, d) /\ d = u[Len(u)] /\ Len(v) + 1 = Len(u)
        BY <3>4, LastApart DEF Parted
      <4>1. <<d, c>> \in Pairs
        <5>1. <<c>>[1] = c
          OBVIOUS
        <5> QED  BY <3>4, <5>1 DEF Parted
      <4>2. d \in {"l", "x"} /\ Ascii(d) = <<d>> /\ Ascii(c) = <<c>>
        BY <4>1 DEF Pairs, Ascii
      <4> PICK two : two = <<d, c>>
        OBVIOUS
      <4>3. two \in Seq(Char) /\ <<d>> \in Seq(Char) /\ <<d>> \o <<c>> = two /\ two[1] = d
        <5>1. two \in Seq(Char) /\ <<d>> \in Seq(Char) /\ two[1] = d
          OBVIOUS
        <5>2. Append(<<d>>, c) = two
          BY TwoAppended, Zenon
        <5>3. Append(<<d>>, c) = <<d>> \o <<c>>
          BY <5>1, OneMore
        <5> QED  BY <5>1, <5>2, <5>3
      <4>4. \A w \in Seq(Char) : (w \o <<d>>) \o <<c>> = w \o two /\ ~ Parted(w, two)
        <5> TAKE w \in Seq(Char)
        <5>1. (w \o <<d>>) \o <<c>> = w \o (<<d>> \o <<c>>)
          BY <3>1, <4>3, JoinAssociative
        <5>2. ~ Parted(w, two)
          BY <4>2, <4>3 DEF Parted, Pairs
        <5> QED  BY <4>3, <5>1, <5>2
      <4>5. t = v \o two
        <5>1. u = v \o <<d>>
          BY OneMore
        <5> QED  BY <3>1, <4>4, <5>1
      <4>6. Converted(t) = Converted(v) \o two /\ Converted(v) \in Seq(Char)
        <5>1. Converted(u) = Converted(v) \o <<d>> /\ Converted(v) \in Seq(Char)
          BY <4>2, ConvertedAppend
        <5> QED  BY <3>2, <4>2, <4>4, <5>1
      <4>7. Holds(v)
        <5>1. Len(v) \in Nat /\ Len(u) \in Nat
          OBVIOUS
        <5>2. Len(v) <= n
          BY <3>1, <5>1
        <5> QED  BY <1>2, <5>2
      <4>8. Shown(t) = Shown(v) \o Shown(two) /\ Shown(Converted(t)) = Shown(Converted(v)) \o Shown(two)
        <5>1. \A w \in Seq(Char) : Shown(w \o two) = Shown(w) \o Shown(two)
          <6> TAKE w \in Seq(Char)
          <6>1. ~ Parted(w, two)
            BY <4>4
          <6> QED  BY <4>3, <6>1, ShownConcatenation
        <5> QED  BY <4>5, <4>6, <5>1, Zenon
      <4> QED  BY <4>7, <4>8
    <3> QED  BY <3>3, <3>4
  <2> QED  BY <2>1, <2>2
<1> HIDE DEF N
<1>3. Len(text) \in N
  <2>1. Len(text) \in Nat
    OBVIOUS
  <2> QED  BY <1>1, <1>2, <2>1, NatSetInduction
<1> QED  BY <1>3 DEF N

--------------------------------------------------------------------------------
(* What waits to be cut, with the segments found, is the text that arrived, and   *)
(* the segments found read one by one as they do together.  The letters of a text *)
(* are its own; one that arrived as bytes no segment holds.                       *)

AllShown(segs) == [i \in DOMAIN segs |-> Shown(segs[i])]

PageInv ==
  /\ field \in Seq(Char) /\ Len(field) <= MaxText
  /\ phase \in Phase /\ refs \subseteq 1..MaxText
  /\ src \in Seq(Char) /\ output \in Seq(Segment) /\ \A i \in DOMAIN output : output[i] \in Range(Segments)
  /\ phase # "edit" => /\ FlattenSeq(output) \o src = Converted(Decoded(field, refs))
                       /\ FlattenSeq(AllShown(output)) = Shown(FlattenSeq(output))
  /\ phase = "listed" => src = <<>>

LEMMA ArrivedTyped ==
  ASSUME NEW text \in Seq(Char), NEW r
  PROVE  /\ Decoded(text, r) \in Seq(Char) /\ DOMAIN Decoded(text, r) = DOMAIN text
         /\ Converted(Decoded(text, r)) \in Seq(Char)
         /\ \A i \in DOMAIN text : Decoded(text, r)[i] = "junk" => "junk" \in Range(Converted(Decoded(text, r)))
<1> DEFINE t == Decoded(text, r)
           all == [i \in DOMAIN t |-> Ascii(t[i])]
<1>1. DOMAIN text = 1..Len(text) /\ Len(text) \in Nat /\ \A i \in 1..Len(text) : text[i] \in Char
  OBVIOUS
<1>2. DOMAIN t = 1..Len(text) /\ \A i \in 1..Len(text) : t[i] \in Char
  BY <1>1 DEF Decoded, Char
<1>3. t = [i \in 1..Len(text) |-> t[i]]
  BY <1>1 DEF Decoded
<1>4. t \in Seq(Char)
  BY <1>1, <1>2, <1>3
<1>5. \A c \in Char : Ascii(c) \in Seq(Char)
  <2> TAKE c \in Char
  <2>1. {"H", "N", "l", "B", "x", "G"} \subseteq Char
    BY DEF Char, Letter
  <2> QED  BY <2>1 DEF Ascii
<1> HIDE DEF t
<1>6. all \in Seq(Seq(Char))
  BY <1>1, <1>2, <1>5
<1>7. Converted(t) = FlattenSeq(all)
  BY DEF Converted
<1>8. ASSUME NEW i \in DOMAIN text, t[i] = "junk"  PROVE "junk" \in Range(Converted(t))
  <2>1. i \in DOMAIN all /\ all[i] = <<"junk">>
    BY <1>1, <1>2, <1>8 DEF Ascii
  <2>2. "junk" \in Range(all[i])
    BY <2>1 DEF Range
  <2> HIDE DEF all
  <2>3. Range(all[i]) \subseteq Range(FlattenSeq(all))
    BY <1>6, <2>1, FlattenType
  <2> QED  BY <1>7, <2>2, <2>3
<1>9. Converted(t) \in Seq(Char)
  <2> HIDE DEF all
  <2> QED  BY <1>6, <1>7, FlattenType
<1> QED  BY <1>1, <1>2, <1>4, <1>8, <1>9 DEF t

LEMMA PageInit == Init => PageInv
<1> SUFFICES ASSUME Init PROVE PageInv
  OBVIOUS
<1>1. <<>> \in Seq(Char) /\ <<>> \in Seq(Segment) /\ Len(<<>>) = 0
  OBVIOUS
<1> QED  BY <1>1, InputAssumption DEF Init, FieldInit, PageInv, Phase

\* The field stays a text, no longer than it may be.
LEMMA EditTyped ==
  ASSUME field \in Seq(Char), Len(field) <= MaxText, Edit
  PROVE  field' \in Seq(Char) /\ Len(field') <= MaxText
<1>1. Len(field) \in Nat /\ MaxText \in Nat
  BY InputAssumption
<1>2. {"acute", "hook", "barred-l"} \subseteq Char /\ Keys \subseteq Char
  BY DEF Char, NonAscii
<1>3. CASE AddMark \/ AddBarredL
  <2>1. PICK c \in Char : Len(field) < MaxText /\ field' = Append(field, c)
    BY <1>2, <1>3 DEF AddMark, AddBarredL
  <2> QED  BY <1>1, <2>1
<1>4. CASE Type
  <2> PICK c \in Char, p \in 1..Len(field) + 1 : Len(field) < MaxText /\ field' = InsertAt(field, p, c)
    BY <1>2, <1>4 DEF Type
  <2>0. PICK a, b : a = SubSeq(field, 1, p - 1) /\ b = SubSeq(field, p, Len(field))
    OBVIOUS
  <2>1. a \in Seq(Char) /\ Len(a) = p - 1 /\ b \in Seq(Char) /\ Len(b) = Len(field) - p + 1
    BY <1>1, <2>0
  <2>2. field' = (a \o <<c>>) \o b
    BY <2>0 DEF InsertAt
  <2>3. <<c>> \in Seq(Char) /\ Len(<<c>>) = 1
    OBVIOUS
  <2>4. a \o <<c>> \in Seq(Char) /\ Len(a \o <<c>>) = p
    <3>1. a \o <<c>> \in Seq(Char) /\ Len(a \o <<c>>) = Len(a) + Len(<<c>>)
      BY <2>1, <2>3, JoinTyped
    <3> QED  BY <2>1, <2>3, <3>1
  <2>5. (a \o <<c>>) \o b \in Seq(Char) /\ Len((a \o <<c>>) \o b) = p + Len(b)
    <3>1. (a \o <<c>>) \o b \in Seq(Char) /\ Len((a \o <<c>>) \o b) = Len(a \o <<c>>) + Len(b)
      BY <2>1, <2>4, JoinTyped
    <3> QED  BY <2>4, <3>1, Zenon
  <2>6. field' \in Seq(Char) /\ Len(field') = p + Len(b)
    BY <2>2, <2>5, Zenon
  <2> QED  BY <1>1, <2>1, <2>6
<1>5. CASE Delete
  <2> PICK p \in 1..Len(field) : field' = RemoveAt(field, p)
    BY <1>5 DEF Delete
  <2>0. PICK a, b : a = SubSeq(field, 1, p - 1) /\ b = SubSeq(field, p + 1, Len(field))
    OBVIOUS
  <2>1. a \in Seq(Char) /\ Len(a) = p - 1 /\ b \in Seq(Char) /\ Len(b) = Len(field) - p
    BY <1>1, <2>0
  <2>2. field' = a \o b
    BY <2>0 DEF RemoveAt
  <2>3. field' \in Seq(Char) /\ Len(field') = (p - 1) + Len(b)
    <3>1. a \o b \in Seq(Char) /\ Len(a \o b) = Len(a) + Len(b)
      BY <2>1, JoinTyped
    <3> QED  BY <2>1, <2>2, <3>1
  <2> QED  BY <1>1, <2>1, <2>3
<1> QED  BY <1>3, <1>4, <1>5 DEF Edit

LEMMA SubmitStep == PageInv /\ Submit => PageInv'
<1> SUFFICES ASSUME PageInv, Submit  PROVE PageInv'
  OBVIOUS
<1>1. PICK r \in SUBSET (DOMAIN field) : refs' = r /\ src' = Converted(Decoded(field, r))
  BY DEF Submit
<1>2. phase' = "segmentize" /\ output' = <<>> /\ field' = field
  BY DEF Submit
<1>3. field \in Seq(Char) /\ Len(field) <= MaxText /\ MaxText \in Nat /\ Len(field) \in Nat
  BY InputAssumption DEF PageInv
<1>4. src' \in Seq(Char)
  BY <1>1, <1>3, ArrivedTyped
<1>5. refs' \subseteq 1..MaxText
  BY <1>1, <1>3
<1>6. FlattenSeq(output') \o src' = src'
  BY <1>2, <1>4, FlattenEmpty
<1>7. FlattenSeq(AllShown(output')) = Shown(FlattenSeq(output'))
  <2>1. AllShown(output') = <<>>
    BY <1>2 DEF AllShown
  <2> QED  BY <1>2, <2>1, FlattenEmpty, ShownPieces
<1>8. output' \in Seq(Segment) /\ DOMAIN output' = {}
  BY <1>2
<1> QED  BY <1>1, <1>2, <1>3, <1>4, <1>5, <1>6, <1>7, <1>8 DEF PageInv, Phase

LEMMA TakeStep == PageInv /\ Take => PageInv' /\ Len(src') < Len(src)
<1> SUFFICES ASSUME PageInv, Take  PROVE PageInv' /\ Len(src') < Len(src)
  OBVIOUS
<1>0. PICK i, seg, rest : /\ i = FirstMatch(Segments, src)
                          /\ seg = Segments[i]
                          /\ rest = SubSeq(src, Len(seg) + 1, Len(src))
  OBVIOUS
<1>1. output' = Append(output, seg) /\ src' = rest /\ UNCHANGED <<field, phase, refs>> /\ i # 0 /\ phase = "segmentize"
  BY <1>0 DEF Take, Without
<1>2. i \in DOMAIN Segments /\ IsPrefix(seg, src)
  BY <1>0, <1>1, SegmentsTyped, FirstMatchFound
<1>3. seg \in Segment /\ seg \in Range(Segments)
  BY <1>0, <1>2, SegmentsTyped DEF Range
<1>4. seg \in Seq(Char) /\ Len(seg) \in Nat \ {0} /\ seg[1] \notin {"B", "G"}
  <2>1. seg \in Seq(Letter) /\ seg # <<>> /\ seg[1] \notin {"B", "G"} /\ Letter \subseteq Char
    BY <1>3 DEF Segment, Char
  <2> QED  BY <2>1, SeqMonotonic, EmptySeq
<1>5. /\ src \in Seq(Char) /\ output \in Seq(Segment) /\ field \in Seq(Char)
      /\ FlattenSeq(output) \o src = Converted(Decoded(field, refs))
      /\ FlattenSeq(AllShown(output)) = Shown(FlattenSeq(output))
  BY <1>1 DEF PageInv
<1>6. rest \in Seq(Char) /\ Len(rest) = Len(src) - Len(seg) /\ src = seg \o rest
  BY <1>0, <1>2, <1>4, <1>5, PrefixAndRest
<1>7. Len(src') < Len(src)
  <2>1. Len(src) \in Nat
    BY <1>5
  <2>2. src' = rest /\ Len(rest) = Len(src) - Len(seg) /\ Len(seg) \in Nat \ {0}
    BY <1>1, <1>4, <1>6
  <2>3. \A a \in Nat, b \in Nat \ {0} : a - b < a
    OBVIOUS
  <2> QED  BY <2>1, <2>2, <2>3
<1>8. output' \in Seq(Segment) /\ \A k \in DOMAIN output' : output'[k] \in Range(Segments)
  <2>1. \A k \in DOMAIN output : output[k] \in Range(Segments)
    BY DEF PageInv
  <2>2. DOMAIN output = 1..Len(output) /\ Len(output) \in Nat
    BY <1>5
  <2>3. /\ output' \in Seq(Segment) /\ DOMAIN output' = 1..Len(output) + 1 /\ output'[Len(output) + 1] = seg
        /\ \A k \in 1..Len(output) : output'[k] = output[k]
    BY <1>1, <1>3, <1>5
  <2> QED  BY <1>3, <2>1, <2>2, <2>3
<1>9. /\ FlattenSeq(output') \o src' = Converted(Decoded(field, refs))
      /\ FlattenSeq(output') = FlattenSeq(output) \o seg /\ FlattenSeq(output) \in Seq(Char)
  <2>1. output \in Seq(Seq(Char))
    <3>1. Segment \subseteq Seq(Char)
      <4> SUFFICES ASSUME NEW x \in Segment  PROVE x \in Seq(Char)
        OBVIOUS
      <4>1. x \in Seq(Letter) /\ Letter \subseteq Char
        BY DEF Segment, Char
      <4> QED  BY <4>1, SeqMonotonic
    <3> QED  BY <1>5, <3>1, SeqMonotonic
  <2>2. FlattenSeq(output') = FlattenSeq(output) \o seg
    BY <1>1, <1>4, <2>1, FlattenAppend
  <2>3. FlattenSeq(output) \in Seq(Char)
    BY <2>1, FlattenType
  <2>4. (FlattenSeq(output) \o seg) \o rest = FlattenSeq(output) \o (seg \o rest)
    <3>1. seg \in Seq(Char) /\ rest \in Seq(Char)
      BY <1>4, <1>6
    <3>2. \A v, y, z \in Seq(Char) : (v \o y) \o z = v \o (y \o z)
      BY JoinAssociative
    <3> QED  BY <2>3, <3>1, <3>2, Zenon
  <2> QED  BY <1>1, <1>5, <1>6, <2>2, <2>3, <2>4
<1>10. FlattenSeq(AllShown(output')) = Shown(FlattenSeq(output'))
  <2>1. AllShown(output) \in Seq(Seq(Char))
    <3>1. \A k \in DOMAIN output : output[k] \in Seq(Char)
      <4> TAKE k \in DOMAIN output
      <4>1. output[k] \in Seq(Letter) /\ Letter \subseteq Char
        BY <1>5 DEF Segment, Char
      <4> QED  BY <4>1, SeqMonotonic
    <3>2. \A k \in DOMAIN output : Shown(output[k]) \in Seq(Char)
      BY <3>1, ShownTyped
    <3>3. DOMAIN output = 1..Len(output) /\ Len(output) \in Nat
      BY <1>5
    <3> QED  BY <3>2, <3>3 DEF AllShown
  <2>2. AllShown(output') = Append(AllShown(output), Shown(seg))
    <3>1. DOMAIN output = 1..Len(output) /\ Len(output) \in Nat
      BY <1>5
    <3>2. /\ DOMAIN output' = 1..Len(output) + 1 /\ output'[Len(output) + 1] = seg
          /\ \A k \in 1..Len(output) : output'[k] = output[k]
      BY <1>1, <1>3, <1>5
    <3>3. /\ AllShown(output) = [k \in 1..Len(output) |-> Shown(output[k])]
          /\ AllShown(output') = [k \in 1..Len(output) + 1 |-> Shown(output'[k])]
      BY <3>1, <3>2 DEF AllShown
    <3> PICK f, x : f = AllShown(output) /\ x = Shown(seg)
      OBVIOUS
    <3>4. f \in Seq(Seq(Char)) /\ Len(f) = Len(output)
      BY <2>1, <3>1, <3>3
    <3>5. x \in Seq(Char)
      BY <1>4, ShownTyped
    <3>6. Append(f, x) = [k \in 1..Len(output) + 1 |-> IF k = Len(output) + 1 THEN x ELSE f[k]]
      <4>1. Append(f, x) = [k \in 1..Len(f) + 1 |-> IF k = Len(f) + 1 THEN x ELSE f[k]]
        BY <3>4, <3>5, AppendedAt
      <4> QED  BY <3>4, <4>1
    <3>7. \A k \in 1..Len(output) + 1 : Shown(output'[k]) = IF k = Len(output) + 1 THEN x ELSE f[k]
      BY <3>1, <3>2, <3>3
    <3> QED  BY <3>3, <3>6, <3>7
  <2>3. FlattenSeq(AllShown(output')) = FlattenSeq(AllShown(output)) \o Shown(seg)
    BY <1>4, <2>1, <2>2, ShownTyped, FlattenAppend
  <2> PICK u : u = FlattenSeq(output)
    OBVIOUS
  <2>4. ~ Parted(u, seg)
    BY <1>4 DEF Parted, Pairs
  <2>5. Shown(u \o seg) = Shown(u) \o Shown(seg)
    BY <1>4, <1>9, <2>4, ShownConcatenation
  <2> QED  BY <1>5, <1>9, <2>3, <2>5
<1> QED  BY <1>1, <1>6, <1>7, <1>8, <1>9, <1>10 DEF PageInv, Phase

LEMMA PageStep == PageInv /\ [Next]_vars => PageInv'
<1> SUFFICES ASSUME PageInv, [Next]_vars  PROVE PageInv'
  OBVIOUS
<1>1. CASE EditField
  <2>1. field' \in Seq(Char) /\ Len(field') <= MaxText
    BY <1>1, EditTyped DEF EditField, PageInv
  <2> QED  BY <1>1, <2>1 DEF EditField, PageInv, Phase
<1>2. CASE Submit
  BY <1>2, SubmitStep
<1>3. CASE Take
  BY <1>3, TakeStep
<1>4. CASE Croak
  BY <1>4 DEF Croak, PageInv, Phase
<1>5. CASE Finish
  BY <1>5 DEF Finish, PageInv, Phase
<1>6. CASE EditAgain
  <2>1. <<>> \in Seq(Char) /\ <<>> \in Seq(Segment) /\ DOMAIN <<>> = {}
    OBVIOUS
  <2> QED  BY <1>6, <2>1 DEF EditAgain, PageInv, Phase
<1>7. CASE UNCHANGED vars
  BY <1>7 DEF vars, PageInv
<1> QED  BY <1>1, <1>2, <1>3, <1>4, <1>5, <1>6, <1>7 DEF Next

LEMMA PageInvariant == Spec => []PageInv
BY PageInit, PageStep, PTL DEF Spec

\* What the page keeps is of its types, however the field is edited.
THEOREM PageTypeCorrect == Spec => []TypeOK
BY PageInvariant, PTL DEF PageInv, TypeOK

\* What the page lists is the converted field, cut up, and shown segment by segment it reads
\* as the text of the field, for every text and every way it was encoded; a text that arrived
\* in two encodings is refused.
THEOREM ListedAlwaysEntered == Spec => []ListedIsEntered
<1>1. PageInv => ListedIsEntered
  <2> SUFFICES ASSUME PageInv, phase = "listed"
               PROVE  /\ FlattenSeq(output) = Converted(field)
                      /\ FlattenSeq(AllShown(output)) = Shown(field)
    BY DEF ListedIsEntered, AllShown
  <2> PICK t : t = Decoded(field, refs)
    OBVIOUS
  <2>1. /\ field \in Seq(Char) /\ output \in Seq(Segment) /\ src = <<>>
        /\ FlattenSeq(output) \o src = Converted(t)
        /\ FlattenSeq(AllShown(output)) = Shown(FlattenSeq(output))
    BY DEF PageInv
  <2>2. FlattenSeq(output) \in Seq(Letter)
    <3>1. output \in Seq(Seq(Letter))
      BY <2>1, SeqMonotonic DEF Segment
    <3> QED  BY <3>1, FlattenType
  <2>3. FlattenSeq(output) = Converted(t)
    <3> PICK u : u = FlattenSeq(output)
      OBVIOUS
    <3>1. u \o <<>> = u
      BY <2>2, ConcatEmptySeq
    <3> QED  BY <2>1, <3>1
  <2>4. "junk" \notin Range(Converted(t))
    <3>1. Range(FlattenSeq(output)) \subseteq Letter
      BY <2>2 DEF Range
    <3> QED  BY <2>3, <3>1 DEF Letter
  <2>5. \A i \in DOMAIN field : t[i] # "junk"
    BY <2>1, <2>4, ArrivedTyped
  <2>6. t = field
    <3>1. DOMAIN field = 1..Len(field) /\ Len(field) \in Nat
      BY <2>1
    <3>2. \A i \in DOMAIN field : t[i] = field[i]
      BY <2>5 DEF Decoded
    <3>3. t \in Seq(Char) /\ DOMAIN t = DOMAIN field
      BY <2>1, ArrivedTyped
    <3>4. Len(t) = Len(field)
      BY <3>1, <3>3
    <3> QED  BY <2>1, <3>1, <3>2, <3>3, <3>4, SeqEqual
  <2>7. Shown(Converted(field)) = Shown(field)
    BY <2>1, ShownConverted
  <2> QED  BY <2>1, <2>3, <2>6, <2>7
<1> QED  BY <1>1, PageInvariant, PTL

\* Every round of segmentize's loop that goes on shortens the text, so the loop ends.
THEOREM LoopAlwaysShortensText == Spec => LoopShortensText
<1>1. PageInv /\ [Next]_vars => [phase = "segmentize" /\ phase' = "segmentize" => Len(src') < Len(src)]_vars
  <2> SUFFICES ASSUME PageInv, Next, phase = "segmentize", phase' = "segmentize"
               PROVE  Len(src') < Len(src)
    OBVIOUS
  <2>1. Take
    BY DEF Next, EditField, Submit, Croak, Finish, EditAgain
  <2> QED  BY <2>1, TakeStep
<1> QED  BY <1>1, PageInvariant, PTL DEF Spec, LoopShortensText

\* However the field came to be, the diacritic keys never spoil a well-marked text.
THEOREM MarksAlwaysStayInOrder == Spec => MarksStayInOrder
<1>1. PageInv /\ [Next]_vars => [AddMark /\ WellMarked(field) => WellMarked(field')]_field
  <2> SUFFICES ASSUME PageInv, AddMark, WellMarked(field)  PROVE WellMarked(field')
    OBVIOUS
  <2> PICK n : n = Len(field)
    OBVIOUS
  <2>1. field \in Seq(Char) /\ n \in Nat /\ DOMAIN field = 1..n
    BY DEF PageInv
  <2>2. PICK mark \in {"acute", "hook"} : OkToPlace(field, mark) /\ field' = Append(field, mark)
    BY DEF AddMark
  <2>3. DOMAIN field' = 1..n + 1 /\ field'[n + 1] = mark /\ \A i \in 1..n : field'[i] = field[i]
    BY <2>1, <2>2
  <2>4. n > 0
    <3>1. IsFiniteSet(TrailingMarks(field))
      <4>1. TrailingMarks(field) \subseteq 1..n
        BY <2>1 DEF TrailingMarks
      <4>2. IsFiniteSet(1..n)
        BY <2>1, FS_Interval
      <4> QED  BY <4>1, <4>2, FS_Subset
    <3>2. Cardinality(TrailingMarks(field)) \in Nat
      BY <3>1, FS_CardinalityType
    <3> QED  BY <2>1, <2>2, <3>2 DEF OkToPlace, BaseOf
  <2>5. IsVowel(field[n]) \/ (mark = "hook" /\ field[n] = "acute")
    <3>1. CASE IsDiacritic(field[n])
      <4>1. n \in TrailingMarks(field)
        BY <2>1, <2>4, <3>1 DEF TrailingMarks
      <4>2. field[n] # mark /\ ~ (mark = "acute" /\ field[n] = "hook")
        BY <2>2, <4>1 DEF OkToPlace, Last
      <4> QED  BY <3>1, <4>2 DEF IsDiacritic
    <3>2. CASE ~ IsDiacritic(field[n])
      <4>1. TrailingMarks(field) = {}
        <5> SUFFICES ASSUME NEW i \in TrailingMarks(field)  PROVE FALSE
          OBVIOUS
        <5>1. i \in 1..n /\ \A k \in i..n : IsDiacritic(field[k])
          BY <2>1 DEF TrailingMarks
        <5>2. n \in i..n
          BY <2>1, <5>1
        <5> QED  BY <3>2, <5>1, <5>2
      <4>2. BaseOf(field) = n
        <5>1. Cardinality(TrailingMarks(field)) = 0
          BY <4>1, FS_EmptySet
        <5> QED  BY <2>1, <5>1 DEF BaseOf
      <4> QED  BY <2>2, <4>2 DEF OkToPlace
    <3> QED  BY <3>1, <3>2
  <2>6. ASSUME NEW i \in 1..n + 1, IsDiacritic(field'[i])
        PROVE  i > 1 /\ (IsVowel(field'[i - 1]) \/ (field'[i] = "hook" /\ field'[i - 1] = "acute"))
    <3>1. CASE i = n + 1
      <4>1. i - 1 = n /\ n \in 1..n /\ i > 1
        BY <2>1, <2>4, <3>1
      <4> QED  BY <2>3, <2>5, <3>1, <4>1
    <3>2. CASE i # n + 1
      <4>1. i \in 1..n /\ (i > 1 => i - 1 \in 1..n)
        BY <2>1, <3>2
      <4>2. i > 1 /\ (IsVowel(field[i - 1]) \/ (field[i] = "hook" /\ field[i - 1] = "acute"))
        BY <2>1, <2>3, <2>6, <4>1 DEF WellMarked
      <4> QED  BY <2>3, <4>1, <4>2
    <3> QED  BY <3>1, <3>2
  <2> QED  BY <2>3, <2>6 DEF WellMarked
<1> QED  BY <1>1, PageInvariant, PTL DEF Spec, MarksStayInOrder

--------------------------------------------------------------------------------
(* The list of segments, by place. *)

LEMMA RowAt ==
  ASSUME NEW ms \in Seq(Letter), NEW i \in 1..4
  PROVE  /\ Len(Row(ms, 1)) = 4 /\ Row(ms, 1)[i] = <<Vowels[i]>> \o ms
         /\ Len(Row(ms, 2)) = 4 /\ Row(ms, 2)[i] = (<<Vowels[i]>> \o ms) \o (<<Vowels[i]>> \o ms)
<1>1. Vowels[i] \in Letter
  BY DEF Vowels, Letter
<1> PICK v \in Letter : v = Vowels[i]
  BY <1>1
<1> DEFINE w == <<v>> \o ms
<1>2. w \in Seq(Letter)
  OBVIOUS
<1>3. ASSUME NEW n \in {1, 2}
      PROVE  Len(Row(ms, n)) = 4 /\ Row(ms, n)[i] = FlattenSeq([k \in 1..n |-> w])
  BY DEF Row
<1> HIDE DEF w
<1>4. FlattenSeq(<<w>>) = w
  <2>1. <<>> \in Seq(Seq(Letter)) /\ Append(<<>>, w) = <<w>> /\ <<>> \o w = w
    BY <1>2
  <2>2. FlattenSeq(Append(<<>>, w)) = FlattenSeq(<<>>) \o w
    BY <1>2, <2>1, FlattenAppend
  <2> QED  BY <2>1, <2>2, FlattenEmpty
<1>5. FlattenSeq(<<w, w>>) = w \o w
  <2>0. PICK L : L = Seq(Letter)
    OBVIOUS
  <2>1. <<w>> \in Seq(L) /\ Append(<<w>>, w) = <<w, w>>
    <3>1. ASSUME NEW M, NEW x \in M  PROVE <<x>> \in Seq(M)
      OBVIOUS
    <3>2. ASSUME NEW M, NEW x \in M  PROVE Append(<<x>>, x) = <<x, x>>
      <4>1. <<x>> \in Seq(M) /\ Len(<<x>>) = 1 /\ <<x>>[1] = x
        OBVIOUS
      <4>2. Append(<<x>>, x) = [k \in 1..2 |-> IF k = 2 THEN x ELSE <<x>>[k]]
        BY <4>1, AppendedAt
      <4>3. \A k \in 1..2 : (IF k = 2 THEN x ELSE <<x>>[k]) = x
        BY <4>1
      <4>4. <<x, x>> = [k \in 1..2 |-> x]
        OBVIOUS
      <4> QED  BY <4>2, <4>3, <4>4
    <3>3. w \in L
      BY <1>2, <2>0
    <3> QED  BY <3>1, <3>2, <3>3, Zenon
  <2>2. FlattenSeq(Append(<<w>>, w)) = FlattenSeq(<<w>>) \o w
    BY <1>2, <2>0, <2>1, FlattenAppend
  <2> QED  BY <2>1, <2>2, <1>4
<1>6. [k \in 1..1 |-> w] = <<w>> /\ [k \in 1..2 |-> w] = <<w, w>>
  OBVIOUS
<1> QED  BY <1>3, <1>4, <1>5, <1>6 DEF w

\* The sequences that make up the list, and where each begins.
Diphthongs ==
  << <<"e", "i", "H">>, <<"a", "i", "H">>,
     <<"e", "i", "H", "i", "H">>, <<"a", "i", "H", "i", "H">>,
     <<"e", "i">>, <<"e", "i", "i">>, <<"a", "i">>, <<"a", "i", "i">> >>
Clusters ==
  << <<"c", "h">>, <<"d", "l">>, <<"d", "z">>, <<"t", "s">>, <<"z", "h">>, <<"s", "h">>,
     <<"g", "h">>, <<"t", "l", "B">>, <<"c", "h", "x", "G">>, <<"k", "x", "G">>,
     <<"t", "x", "G">>, <<"t", "l", "B", "x", "G">>, <<"t", "s", "x", "G">>, <<"x", "G">>,
     <<"l", "B">> >>
Single == <<"b", "d", "g", "h", "j", "k", "l", "w", "x", "y", "z", "m", "n", "s", "t">>

\* The list c is a and then b.
Joins(c, a, b) ==
  /\ c \in Seq(Segment) /\ Len(c) = Len(a) + Len(b)
  /\ \A i \in 1..Len(a) : c[i] = a[i]
  /\ \A i \in 1..Len(b) : c[Len(a) + i] = b[i]

LEMMA JoinedAt == \A a, b \in Seq(Segment) : Joins(a \o b, a, b)
BY DEF Joins

LEMMA SegmentsAt ==
  /\ Len(Segments) = 70
  /\ \A i \in 1..4 :
       /\ Segments[i] = Row(<<"H", "N">>, 2)[i] /\ Segments[4 + i] = Row(<<"H">>, 2)[i]
       /\ Segments[8 + i] = Row(<<"N">>, 2)[i] /\ Segments[12 + i] = Row(<<>>, 2)[i]
       /\ Segments[16 + i] = Row(<<"H", "N">>, 1)[i] /\ Segments[20 + i] = Row(<<"H">>, 1)[i]
       /\ Segments[24 + i] = Row(<<"N">>, 1)[i] /\ Segments[28 + i] = Row(<<>>, 1)[i]
  /\ \A i \in 1..8 : Segments[32 + i] = Diphthongs[i]
  /\ \A i \in 1..15 : Segments[40 + i] = Clusters[i] /\ Segments[55 + i] = <<Single[i]>>
<1>a. PICK r1, r2, r3, r4, r5, r6, r7, r8 :
      /\ r1 = Row(<<"H", "N">>, 2) /\ r2 = Row(<<"H">>, 2) /\ r3 = Row(<<"N">>, 2) /\ r4 = Row(<<>>, 2)
      /\ r5 = Row(<<"H", "N">>, 1) /\ r6 = Row(<<"H">>, 1) /\ r7 = Row(<<"N">>, 1) /\ r8 = Row(<<>>, 1)
  OBVIOUS
<1>b. PICK d, c, s : d = Diphthongs /\ c = Clusters /\ s = [i \in DOMAIN Single |-> <<Single[i]>>]
  OBVIOUS
<1>1. /\ r1 \in Seq(Segment) /\ r2 \in Seq(Segment) /\ r3 \in Seq(Segment) /\ r4 \in Seq(Segment)
      /\ r5 \in Seq(Segment) /\ r6 \in Seq(Segment) /\ r7 \in Seq(Segment) /\ r8 \in Seq(Segment)
      /\ Len(r1) = 4 /\ Len(r2) = 4 /\ Len(r3) = 4 /\ Len(r4) = 4
      /\ Len(r5) = 4 /\ Len(r6) = 4 /\ Len(r7) = 4 /\ Len(r8) = 4
  <2>1. <<"H", "N">> \in Seq(Letter) /\ <<"H">> \in Seq(Letter) /\ <<"N">> \in Seq(Letter) /\ <<>> \in Seq(Letter)
    BY DEF Letter
  <2>2. 1 \in 1..4 /\ 1 \in Nat \ {0} /\ 2 \in Nat \ {0}
    OBVIOUS
  <2>3. \A ms \in Seq(Letter) : /\ Row(ms, 1) \in Seq(Segment) /\ Row(ms, 2) \in Seq(Segment)
                                /\ Len(Row(ms, 1)) = 4 /\ Len(Row(ms, 2)) = 4
    BY <2>2, RowTyped, RowAt
  <2> QED  BY <1>a, <2>1, <2>3
<1>2. d \in Seq(Segment) /\ Len(d) = 8
  <2>1. Len(Diphthongs) = 8
    BY DEF Diphthongs
  <2>2. /\ <<"e", "i", "H">> \in Segment /\ <<"a", "i", "H">> \in Segment
        /\ <<"e", "i", "H", "i", "H">> \in Segment /\ <<"a", "i", "H", "i", "H">> \in Segment
        /\ <<"e", "i">> \in Segment /\ <<"e", "i", "i">> \in Segment
        /\ <<"a", "i">> \in Segment /\ <<"a", "i", "i">> \in Segment
    BY DEF Segment, Letter
  <2>3. Diphthongs \in Seq(Segment)
    BY <2>2 DEF Diphthongs
  <2> QED  BY <1>b, <2>1, <2>3
<1>3. c \in Seq(Segment) /\ Len(c) = 15 /\ s \in Seq(Segment) /\ Len(s) = 15 /\ \A i \in 1..15 : s[i] = <<Single[i]>>
  <2>1. Len(Clusters) = 15 /\ Len(Single) = 15 /\ DOMAIN Single = 1..15
    BY DEF Clusters, Single
  <2>2. /\ <<"c", "h">> \in Segment /\ <<"d", "l">> \in Segment /\ <<"d", "z">> \in Segment
        /\ <<"t", "s">> \in Segment /\ <<"z", "h">> \in Segment /\ <<"s", "h">> \in Segment
        /\ <<"g", "h">> \in Segment /\ <<"t", "l", "B">> \in Segment /\ <<"c", "h", "x", "G">> \in Segment
        /\ <<"k", "x", "G">> \in Segment /\ <<"t", "x", "G">> \in Segment
        /\ <<"t", "l", "B", "x", "G">> \in Segment /\ <<"t", "s", "x", "G">> \in Segment
        /\ <<"x", "G">> \in Segment /\ <<"l", "B">> \in Segment
    BY DEF Segment, Letter
  <2>3. Clusters \in Seq(Segment)
    BY <2>2 DEF Clusters
  <2>4. \A i \in 1..15 : <<Single[i]>> \in Segment
    <3>1. \A i \in 1..15 : Single[i] \in Letter /\ Single[i] \notin {"B", "G"}
      BY DEF Single, Letter
    <3>2. \A x \in Letter : x \notin {"B", "G"} => <<x>> \in Segment
      BY DEF Segment
    <3> QED  BY <3>1, <3>2, Zenon
  <2>5. s = [i \in 1..15 |-> <<Single[i]>>]
    BY <1>b, <2>1
  <2>6. c \in Seq(Segment) /\ Len(c) = 15
    BY <1>b, <2>1, <2>3
  <2>7. s \in Seq(Segment) /\ Len(s) = 15 /\ \A i \in 1..15 : s[i] = <<Single[i]>>
    BY <2>4, <2>5
  <2> QED  BY <2>6, <2>7
<1>4. PICK p2, p3, p4, p5, p6, p7, p8, p9, q, all :
        /\ p2 = r1 \o r2 /\ p3 = p2 \o r3 /\ p4 = p3 \o r4 /\ p5 = p4 \o r5 /\ p6 = p5 \o r6
        /\ p7 = p6 \o r7 /\ p8 = p7 \o r8 /\ p9 = p8 \o d /\ q = c \o s /\ all = p9 \o q
  OBVIOUS
<1>5. /\ p2 \in Seq(Segment) /\ Len(p2) = 8
      /\ \A i \in 1..4 : p2[i] = r1[i]
      /\ \A i \in 1..4 : p2[4 + i] = r2[i]
  <2>1. r1 \in Seq(Segment) /\ r2 \in Seq(Segment) /\ Len(r1) = 4 /\ Len(r2) = 4
    BY <1>1
  <2>2. p2 = r1 \o r2
    BY <1>4, Zenon
  <2>3. Joins(p2, r1, r2)
    BY <2>1, <2>2, JoinedAt, Zenon
  <2> QED  BY <2>1, <2>3 DEF Joins
<1>6. /\ p3 \in Seq(Segment) /\ Len(p3) = 12
      /\ \A i \in 1..8 : p3[i] = p2[i]
      /\ \A i \in 1..4 : p3[8 + i] = r3[i]
  <2>1. p2 \in Seq(Segment) /\ r3 \in Seq(Segment) /\ Len(p2) = 8 /\ Len(r3) = 4
    BY <1>1, <1>5
  <2>2. p3 = p2 \o r3
    BY <1>4, Zenon
  <2>3. Joins(p3, p2, r3)
    BY <2>1, <2>2, JoinedAt, Zenon
  <2> QED  BY <2>1, <2>3 DEF Joins
<1>7. /\ p4 \in Seq(Segment) /\ Len(p4) = 16
      /\ \A i \in 1..12 : p4[i] = p3[i]
      /\ \A i \in 1..4 : p4[12 + i] = r4[i]
  <2>1. p3 \in Seq(Segment) /\ r4 \in Seq(Segment) /\ Len(p3) = 12 /\ Len(r4) = 4
    BY <1>1, <1>6
  <2>2. p4 = p3 \o r4
    BY <1>4, Zenon
  <2>3. Joins(p4, p3, r4)
    BY <2>1, <2>2, JoinedAt, Zenon
  <2> QED  BY <2>1, <2>3 DEF Joins
<1>8. /\ p5 \in Seq(Segment) /\ Len(p5) = 20
      /\ \A i \in 1..16 : p5[i] = p4[i]
      /\ \A i \in 1..4 : p5[16 + i] = r5[i]
  <2>1. p4 \in Seq(Segment) /\ r5 \in Seq(Segment) /\ Len(p4) = 16 /\ Len(r5) = 4
    BY <1>1, <1>7
  <2>2. p5 = p4 \o r5
    BY <1>4, Zenon
  <2>3. Joins(p5, p4, r5)
    BY <2>1, <2>2, JoinedAt, Zenon
  <2> QED  BY <2>1, <2>3 DEF Joins
<1>9. /\ p6 \in Seq(Segment) /\ Len(p6) = 24
      /\ \A i \in 1..20 : p6[i] = p5[i]
      /\ \A i \in 1..4 : p6[20 + i] = r6[i]
  <2>1. p5 \in Seq(Segment) /\ r6 \in Seq(Segment) /\ Len(p5) = 20 /\ Len(r6) = 4
    BY <1>1, <1>8
  <2>2. p6 = p5 \o r6
    BY <1>4, Zenon
  <2>3. Joins(p6, p5, r6)
    BY <2>1, <2>2, JoinedAt, Zenon
  <2> QED  BY <2>1, <2>3 DEF Joins
<1>10. /\ p7 \in Seq(Segment) /\ Len(p7) = 28
       /\ \A i \in 1..24 : p7[i] = p6[i]
       /\ \A i \in 1..4 : p7[24 + i] = r7[i]
  <2>1. p6 \in Seq(Segment) /\ r7 \in Seq(Segment) /\ Len(p6) = 24 /\ Len(r7) = 4
    BY <1>1, <1>9
  <2>2. p7 = p6 \o r7
    BY <1>4, Zenon
  <2>3. Joins(p7, p6, r7)
    BY <2>1, <2>2, JoinedAt, Zenon
  <2> QED  BY <2>1, <2>3 DEF Joins
<1>11. /\ p8 \in Seq(Segment) /\ Len(p8) = 32
       /\ \A i \in 1..28 : p8[i] = p7[i]
       /\ \A i \in 1..4 : p8[28 + i] = r8[i]
  <2>1. p7 \in Seq(Segment) /\ r8 \in Seq(Segment) /\ Len(p7) = 28 /\ Len(r8) = 4
    BY <1>1, <1>10
  <2>2. p8 = p7 \o r8
    BY <1>4, Zenon
  <2>3. Joins(p8, p7, r8)
    BY <2>1, <2>2, JoinedAt, Zenon
  <2> QED  BY <2>1, <2>3 DEF Joins
<1>12. /\ p9 \in Seq(Segment) /\ Len(p9) = 40
       /\ \A i \in 1..32 : p9[i] = p8[i]
       /\ \A i \in 1..8 : p9[32 + i] = d[i]
  <2>1. p8 \in Seq(Segment) /\ d \in Seq(Segment) /\ Len(p8) = 32 /\ Len(d) = 8
    BY <1>2, <1>11
  <2>2. p9 = p8 \o d
    BY <1>4, Zenon
  <2>3. Joins(p9, p8, d)
    BY <2>1, <2>2, JoinedAt, Zenon
  <2> QED  BY <2>1, <2>3 DEF Joins
<1>13. /\ q \in Seq(Segment) /\ Len(q) = 30
       /\ \A i \in 1..15 : q[i] = c[i]
       /\ \A i \in 1..15 : q[15 + i] = s[i]
  <2>1. c \in Seq(Segment) /\ s \in Seq(Segment) /\ Len(c) = 15 /\ Len(s) = 15
    BY <1>3
  <2>2. q = c \o s
    BY <1>4, Zenon
  <2>3. Joins(q, c, s)
    BY <2>1, <2>2, JoinedAt, Zenon
  <2> QED  BY <2>1, <2>3 DEF Joins
<1>14. /\ all \in Seq(Segment) /\ Len(all) = 70
       /\ \A i \in 1..40 : all[i] = p9[i]
       /\ \A i \in 1..30 : all[40 + i] = q[i]
  <2>1. p9 \in Seq(Segment) /\ q \in Seq(Segment) /\ Len(p9) = 40 /\ Len(q) = 30
    BY <1>12, <1>13
  <2>2. all = p9 \o q
    BY <1>4, Zenon
  <2>3. Joins(all, p9, q)
    BY <2>1, <2>2, JoinedAt, Zenon
  <2> QED  BY <2>1, <2>3 DEF Joins
<1>15. Segments = all
  <2>1. Segments = ((((((((r1 \o r2) \o r3) \o r4) \o r5) \o r6) \o r7) \o r8) \o d) \o (c \o s)
    BY <1>a, <1>b DEF Segments, VowelSegments, ConsonantSegments, Diphthongs, Clusters, Single
  <2> QED  BY <2>1, <1>4, Zenon
<1>16. Len(all) = 70 /\ (\A i \in 1..40 : all[i] = p9[i]) /\ (\A i \in 1..15 : all[40 + i] = c[i] /\ all[55 + i] = s[i])
  <2> SUFFICES ASSUME NEW i \in 1..15  PROVE all[40 + i] = c[i] /\ all[55 + i] = s[i]
    BY <1>14
  <2>1. 15 + i \in 1..30 /\ i \in 1..30 /\ 40 + (15 + i) = 55 + i
    OBVIOUS
  <2>2. all[40 + i] = q[i] /\ all[40 + (15 + i)] = q[15 + i]
    BY <1>14, <2>1
  <2> QED  BY <1>13, <2>1, <2>2
<1>17. \A i \in 1..8 : all[32 + i] = d[i]
  <2> TAKE i \in 1..8
  <2>1. 32 + i \in 1..40
    OBVIOUS
  <2> QED  BY <1>12, <1>16, <2>1
<1>18. \A i \in 1..4 : /\ all[i] = r1[i] /\ all[4 + i] = r2[i] /\ all[8 + i] = r3[i]
                       /\ all[12 + i] = r4[i] /\ all[16 + i] = r5[i] /\ all[20 + i] = r6[i]
                       /\ all[24 + i] = r7[i] /\ all[28 + i] = r8[i]
  <2>0. \A i \in 1..40 : all[i] = p9[i]
    BY <1>14
  <2>1. ASSUME NEW i \in 1..32  PROVE all[i] = p8[i]
    <3>1. i \in 1..40
      OBVIOUS
    <3> QED  BY <2>0, <3>1, <1>12
  <2>2. ASSUME NEW i \in 1..28  PROVE all[i] = p7[i]
    <3>1. i \in 1..32
      OBVIOUS
    <3> QED  BY <2>1, <3>1, <1>11
  <2>3. ASSUME NEW i \in 1..24  PROVE all[i] = p6[i]
    <3>1. i \in 1..28
      OBVIOUS
    <3> QED  BY <2>2, <3>1, <1>10
  <2>4. ASSUME NEW i \in 1..20  PROVE all[i] = p5[i]
    <3>1. i \in 1..24
      OBVIOUS
    <3> QED  BY <2>3, <3>1, <1>9
  <2>5. ASSUME NEW i \in 1..16  PROVE all[i] = p4[i]
    <3>1. i \in 1..20
      OBVIOUS
    <3> QED  BY <2>4, <3>1, <1>8
  <2>6. ASSUME NEW i \in 1..12  PROVE all[i] = p3[i]
    <3>1. i \in 1..16
      OBVIOUS
    <3> QED  BY <2>5, <3>1, <1>7
  <2>7. ASSUME NEW i \in 1..8  PROVE all[i] = p2[i]
    <3>1. i \in 1..12
      OBVIOUS
    <3> QED  BY <2>6, <3>1, <1>6
  <2> TAKE i \in 1..4
  <2>8. all[i] = r1[i] /\ all[4 + i] = r2[i]
    BY <2>7, <1>5
  <2>9. all[8 + i] = r3[i]
    <3>1. 8 + i \in 1..12
      OBVIOUS
    <3> QED  BY <2>6, <3>1, <1>6
  <2>10. all[12 + i] = r4[i]
    <3>1. 12 + i \in 1..16
      OBVIOUS
    <3> QED  BY <2>5, <3>1, <1>7
  <2>11. all[16 + i] = r5[i]
    <3>1. 16 + i \in 1..20
      OBVIOUS
    <3> QED  BY <2>4, <3>1, <1>8
  <2>12. all[20 + i] = r6[i]
    <3>1. 20 + i \in 1..24
      OBVIOUS
    <3> QED  BY <2>3, <3>1, <1>9
  <2>13. all[24 + i] = r7[i]
    <3>1. 24 + i \in 1..28
      OBVIOUS
    <3> QED  BY <2>2, <3>1, <1>10
  <2>14. all[28 + i] = r8[i]
    <3>1. 28 + i \in 1..32
      OBVIOUS
    <3> QED  BY <2>1, <3>1, <1>11
  <2> QED  BY <2>8, <2>9, <2>10, <2>11, <2>12, <2>13, <2>14
<1>19. \A i \in 1..15 : all[40 + i] = Clusters[i] /\ all[55 + i] = <<Single[i]>>
  BY <1>b, <1>3, <1>16
<1> QED  BY <1>a, <1>b, <1>15, <1>16, <1>17, <1>18, <1>19, Zenon

\* The list s holds what w does.
Same(s, w) == Len(s) = Len(w) /\ \A k \in 1..Len(w) : s[k] = w[k]

LEMMA MarkedVowel ==
  ASSUME NEW v \in Letter, NEW ms \in Seq(Letter), NEW w, w = <<v>> \o ms, NEW x, x = w \o w
  PROVE  /\ Len(w) = 1 + Len(ms) /\ w[1] = v /\ \A k \in 1..Len(ms) : w[1 + k] = ms[k]
         /\ Len(x) = 2 + 2 * Len(ms)
         /\ \A k \in 1..1 + Len(ms) : x[k] = w[k] /\ x[1 + Len(ms) + k] = w[k]
<1>1. <<v>> \in Seq(Letter) /\ Len(<<v>>) = 1 /\ <<v>>[1] = v
  OBVIOUS
<1>2. w \in Seq(Letter) /\ Len(w) = 1 + Len(ms) /\ w[1] = v /\ \A k \in 1..Len(ms) : w[1 + k] = ms[k]
  BY <1>1
<1>3. /\ Len(x) = Len(w) + Len(w)
      /\ \A k \in 1..Len(w) : x[k] = w[k] /\ x[Len(w) + k] = w[k]
  BY <1>2
<1>4. Len(ms) \in Nat
  OBVIOUS
<1>5. Len(x) = 2 + 2 * Len(ms)
  BY <1>2, <1>3, <1>4
<1> QED  BY <1>2, <1>3, <1>5, Zenon

LEMMA VowelSegmentsAt ==
  ASSUME NEW i \in 1..4, NEW v, v = Vowels[i]
  PROVE  /\ Same(Segments[i], <<v, "H", "N", v, "H", "N">>) /\ Same(Segments[4 + i], <<v, "H", v, "H">>)
         /\ Same(Segments[8 + i], <<v, "N", v, "N">>) /\ Same(Segments[12 + i], <<v, v>>)
         /\ Same(Segments[16 + i], <<v, "H", "N">>) /\ Same(Segments[20 + i], <<v, "H">>)
         /\ Same(Segments[24 + i], <<v, "N">>) /\ Same(Segments[28 + i], <<v>>)
<1>1. v \in Letter
  BY DEF Vowels, Letter
<1>2. <<"H", "N">> \in Seq(Letter) /\ <<"H">> \in Seq(Letter) /\ <<"N">> \in Seq(Letter) /\ <<>> \in Seq(Letter)
  BY DEF Letter
<1>3. \A ms \in Seq(Letter) : /\ Row(ms, 1)[i] = <<v>> \o ms
                              /\ Row(ms, 2)[i] = (<<v>> \o ms) \o (<<v>> \o ms)
  BY RowAt
<1>4. ASSUME NEW ms, ms = <<"H", "N">>
      PROVE  /\ Same(Row(ms, 1)[i], <<v, "H", "N">>) /\ Same(Row(ms, 2)[i], <<v, "H", "N", v, "H", "N">>)
  <2>1. ms \in Seq(Letter) /\ Len(ms) = 2 /\ ms[1] = "H" /\ ms[2] = "N"
    BY <1>2, <1>4
  <2>2. PICK w, x : w = <<v>> \o ms /\ x = w \o w
    OBVIOUS
  <2>3. /\ Len(w) = 1 + Len(ms) /\ w[1] = v /\ \A k \in 1..Len(ms) : w[1 + k] = ms[k]
        /\ Len(x) = 2 + 2 * Len(ms)
        /\ \A k \in 1..1 + Len(ms) : x[k] = w[k] /\ x[1 + Len(ms) + k] = w[k]
    <3>1. ms \in Seq(Letter)
      BY <2>1
    <3>2. w = <<v>> \o ms /\ x = w \o w
      BY <2>2
    <3> QED  BY <1>1, <3>1, <3>2, MarkedVowel
  <2>4. Len(w) = 3 /\ w[1] = v /\ w[2] = "H" /\ w[3] = "N"
    BY <2>1, <2>3
  <2>5. Len(x) = 6 /\ x[1] = v /\ x[2] = "H" /\ x[3] = "N" /\ x[4] = v /\ x[5] = "H" /\ x[6] = "N"
    BY <2>1, <2>3, <2>4
  <2>6. Same(w, <<v, "H", "N">>) /\ Same(x, <<v, "H", "N", v, "H", "N">>)
    BY <2>4, <2>5 DEF Same
  <2> QED  BY <1>3, <2>1, <2>2, <2>6, Zenon
<1>5. ASSUME NEW m \in {"H", "N"}
      PROVE  Same(Row(<<m>>, 1)[i], <<v, m>>) /\ Same(Row(<<m>>, 2)[i], <<v, m, v, m>>)
  <2>0. PICK ms : ms = <<m>>
    OBVIOUS
  <2>1. ms \in Seq(Letter) /\ Len(ms) = 1 /\ ms[1] = m
    BY <1>2, <2>0
  <2>2. PICK w, x : w = <<v>> \o ms /\ x = w \o w
    OBVIOUS
  <2>3. /\ Len(w) = 1 + Len(ms) /\ w[1] = v /\ \A k \in 1..Len(ms) : w[1 + k] = ms[k]
        /\ Len(x) = 2 + 2 * Len(ms)
        /\ \A k \in 1..1 + Len(ms) : x[k] = w[k] /\ x[1 + Len(ms) + k] = w[k]
    <3>1. ms \in Seq(Letter)
      BY <2>1
    <3>2. w = <<v>> \o ms /\ x = w \o w
      BY <2>2
    <3> QED  BY <1>1, <3>1, <3>2, MarkedVowel
  <2>4. Len(w) = 2 /\ w[1] = v /\ w[2] = m
    BY <2>1, <2>3
  <2>5. Len(x) = 4 /\ x[1] = v /\ x[2] = m /\ x[3] = v /\ x[4] = m
    BY <2>1, <2>3, <2>4
  <2>6. Same(w, <<v, m>>) /\ Same(x, <<v, m, v, m>>)
    BY <2>4, <2>5 DEF Same
  <2> QED  BY <1>3, <2>0, <2>1, <2>2, <2>6, Zenon
<1>6. Same(Row(<<>>, 1)[i], <<v>>) /\ Same(Row(<<>>, 2)[i], <<v, v>>)
  <2>0. PICK ms : ms = <<>>
    OBVIOUS
  <2>1. ms \in Seq(Letter) /\ Len(ms) = 0
    BY <1>2, <2>0
  <2>2. PICK w, x : w = <<v>> \o ms /\ x = w \o w
    OBVIOUS
  <2>3. /\ Len(w) = 1 + Len(ms) /\ w[1] = v
        /\ \A k \in 1..Len(ms) : w[1 + k] = ms[k]
        /\ Len(x) = 2 + 2 * Len(ms)
        /\ \A k \in 1..1 + Len(ms) : x[k] = w[k] /\ x[1 + Len(ms) + k] = w[k]
    BY <1>1, <2>1, <2>2, MarkedVowel
  <2>4. Len(w) = 1 /\ w[1] = v /\ Len(x) = 2 /\ x[1] = v /\ x[2] = v
    BY <2>1, <2>3
  <2>6. Same(w, <<v>>) /\ Same(x, <<v, v>>)
    BY <2>4 DEF Same
  <2> QED  BY <1>3, <2>0, <2>1, <2>2, <2>6, Zenon
<1>7. /\ Segments[i] = Row(<<"H", "N">>, 2)[i] /\ Segments[4 + i] = Row(<<"H">>, 2)[i]
      /\ Segments[8 + i] = Row(<<"N">>, 2)[i] /\ Segments[12 + i] = Row(<<>>, 2)[i]
      /\ Segments[16 + i] = Row(<<"H", "N">>, 1)[i] /\ Segments[20 + i] = Row(<<"H">>, 1)[i]
      /\ Segments[24 + i] = Row(<<"N">>, 1)[i] /\ Segments[28 + i] = Row(<<>>, 1)[i]
  BY SegmentsAt, Zenon
<1>8. /\ Same(Row(<<"H">>, 1)[i], <<v, "H">>) /\ Same(Row(<<"H">>, 2)[i], <<v, "H", v, "H">>)
      /\ Same(Row(<<"N">>, 1)[i], <<v, "N">>) /\ Same(Row(<<"N">>, 2)[i], <<v, "N", v, "N">>)
  <2>1. "H" \in {"H", "N"} /\ "N" \in {"H", "N"}
    OBVIOUS
  <2> QED  BY <1>5, <2>1, Zenon
<1>9. /\ Same(Row(<<"H", "N">>, 1)[i], <<v, "H", "N">>)
      /\ Same(Row(<<"H", "N">>, 2)[i], <<v, "H", "N", v, "H", "N">>)
  BY <1>4, Zenon
<1> QED  BY <1>6, <1>7, <1>8, <1>9, Zenon

\* A text begins with a segment when it has its characters.
LEMMA PrefixChars ==
  ASSUME NEW S, NEW T, NEW seg \in Seq(S), NEW text \in Seq(T)
  PROVE  IsPrefix(seg, text) <=> Len(seg) <= Len(text) /\ \A k \in 1..Len(seg) : seg[k] = text[k]
<1> PICK n : n = Len(seg)
  OBVIOUS
<1>1. n \in Nat /\ Len(text) \in Nat
  OBVIOUS
<1>2. ASSUME n <= Len(text)
      PROVE  SubSeq(seg, 1, n) = SubSeq(text, 1, n) <=> \A k \in 1..n : seg[k] = text[k]
  <2>1. SubSeq(seg, 1, n) = [k \in 1..n |-> seg[k]] /\ SubSeq(text, 1, n) = [k \in 1..n |-> text[k]]
    BY <1>1, <1>2
  <2> QED  BY <2>1
<1> QED  BY <1>1, <1>2 DEF IsPrefix

\* The first segment that matches is there before any other.
LEMMA FirstMatchLeast ==
  ASSUME NEW list \in Seq(Segment), NEW text, NEW j \in 1..Len(list), IsPrefix(list[j], text)
  PROVE  FirstMatch(list, text) # 0 /\ FirstMatch(list, text) <= j
<1> DEFINE M == {i \in 1..Len(list) : IsPrefix(list[i], text)}
<1>1. j \in M /\ M \in SUBSET Nat
  OBVIOUS
<1>2. FirstMatch(list, text) = CHOOSE i \in M : \A k \in M : i <= k
  BY <1>1 DEF FirstMatch
<1>3. M \subseteq 1..Len(list)
  OBVIOUS
<1> HIDE DEF M
<1>4. \E i \in M : \A k \in M : i <= k
  BY <1>1, LeastExists
<1>5. FirstMatch(list, text) \in M /\ \A k \in M : FirstMatch(list, text) <= k
  BY <1>2, <1>4
<1> QED  BY <1>1, <1>3, <1>5

--------------------------------------------------------------------------------
(* What a plain text is after the conversion: marks where they belong, and no *)
(* letters that a segment of the list would take for others.                   *)

LowVowels == {"a", "e", "i", "o"}
Letters == LowVowels \cup {"b", "d", "g", "h", "j", "k", "l", "w", "x", "y", "z", "m", "n", "s", "t"}
Tails == {"H", "N", "B", "G"}

NotDoubled(c, p) ==
  /\ p > 1 => c[p - 1] # c[p]
  /\ p > 2 /\ c[p - 1] \in {"H", "N"} => c[p - 2] # c[p]
  /\ p > 3 /\ c[p - 1] = "N" /\ c[p - 2] = "H" => c[p - 3] # c[p]

Placed(c, p) ==
  /\ c[p] \in Letters \cup Tails
  /\ c[p] = "G" => p > 1 /\ c[p - 1] = "x"
  /\ c[p] = "B" => p > 1 /\ c[p - 1] = "l" /\ (p > 2 => c[p - 2] # "d")
  /\ c[p] = "H" => p > 1 /\ c[p - 1] \in LowVowels
  /\ c[p] = "N" => p > 1 /\ c[p - 1] \in LowVowels \cup {"H"}
  /\ c[p] \in LowVowels => NotDoubled(c, p)

Spelled(c) == \A p \in 1..Len(c) : Placed(c, p)

\* The places of the list, by kind of segment.
LEMMA PlacesOfSegments ==
  ASSUME NEW n \in 1..70
  PROVE  \/ \E i \in 1..4 : n \in {i, 4 + i, 8 + i, 12 + i, 16 + i, 20 + i, 24 + i, 28 + i}
         \/ \E i \in 1..8 : n = 32 + i
         \/ \E i \in 1..15 : n = 40 + i \/ n = 55 + i
<1>1. CASE n <= 32
  <2>1. \E i \in 1..4 : \E k \in 0..7 : n = 4 * k + i
    <3>0. \A x \in 1..70 : x <= 32 => x \in 1..32
      OBVIOUS
    <3>1. n \in 1..32
      BY <1>1, <3>0, Zenon
    <3>2. \A x \in 1..32 : \E i \in 1..4 : \E k \in 0..7 : x = 4 * k + i
      <4> TAKE x \in 1..32
      <4>1. x = 4 * ((x - 1) \div 4) + (((x - 1) % 4) + 1) /\ (x - 1) \div 4 \in 0..7 /\ ((x - 1) % 4) + 1 \in 1..4
        OBVIOUS
      <4> QED  BY <4>1
    <3> QED  BY <3>1, <3>2
  <2>2. PICK i \in 1..4, k \in 0..7 : n = 4 * k + i
    BY <2>1
  <2>3. k = 0 \/ k = 1 \/ k = 2 \/ k = 3 \/ k = 4 \/ k = 5 \/ k = 6 \/ k = 7
    OBVIOUS
  <2>4. n \in {i, 4 + i, 8 + i, 12 + i, 16 + i, 20 + i, 24 + i, 28 + i}
    BY <2>2, <2>3
  <2> QED  BY <2>4
<1>2. CASE n \in 33..40
  <2>1. n - 32 \in 1..8 /\ n = 32 + (n - 32)
    BY <1>2
  <2> QED  BY <2>1
<1>3. CASE n \in 41..55
  <2>1. n - 40 \in 1..15 /\ n = 40 + (n - 40)
    BY <1>3
  <2> QED  BY <2>1
<1>4. CASE n \in 56..70
  <2>1. n - 55 \in 1..15 /\ n = 55 + (n - 55)
    BY <1>4
  <2> QED  BY <2>1
<1> QED  BY <1>1, <1>2, <1>3, <1>4

\* Whatever segment is taken first, the rest begins with a letter.
LEMMA TakesWholeLetters ==
  ASSUME NEW c \in Seq(Char), Spelled(c), c # <<>>
  PROVE  /\ FirstMatch(Segments, c) # 0
         /\ LET m == Len(Segments[FirstMatch(Segments, c)])
            IN  m < Len(c) => c[m + 1] \notin Tails
<1>1. Len(c) \in Nat \ {0} /\ 1 \in 1..Len(c)
  OBVIOUS
<1>2. c[1] \in Letters
  BY <1>1 DEF Spelled, Placed, Tails
<1>3. Segments \in Seq(Segment) /\ Len(Segments) = 70 /\ \A i \in 1..70 : Segments[i] \in Segment
  <2>1. Len(Segments) = 70
    BY SegmentsAt, Zenon
  <2> PICK S : S = Segments
    OBVIOUS
  <2>2. S \in Seq(Segment) /\ Len(S) = 70
    BY <2>1, SegmentsTyped
  <2>3. \A i \in 1..70 : S[i] \in Segment
    BY <2>2, ElementOfSeq
  <2> QED  BY <2>2, <2>3
<1>4. \A j \in 1..70 : Segments[j] \in Seq(Letter) /\ Len(Segments[j]) \in Nat \ {0}
  <2> TAKE j \in 1..70
  <2>1. Segments[j] \in Seq(Letter) /\ Segments[j] # <<>>
    BY <1>3 DEF Segment
  <2> QED  BY <2>1, EmptySeq
<1>5. ASSUME NEW j \in 1..70, NEW w, Same(Segments[j], w), Len(w) <= Len(c), \A k \in 1..Len(w) : w[k] = c[k]
      PROVE  FirstMatch(Segments, c) # 0 /\ FirstMatch(Segments, c) <= j
  <2> PICK seg : seg = Segments[j]
    OBVIOUS
  <2>1. seg \in Seq(Letter) /\ Len(seg) <= Len(c) /\ \A k \in 1..Len(seg) : seg[k] = c[k]
    BY <1>4, <1>5 DEF Same
  <2>2. IsPrefix(seg, c)
    BY <2>1, PrefixChars
  <2>3. j \in 1..Len(Segments)
    BY <1>3
  <2> QED  BY <1>3, <2>2, <2>3, FirstMatchLeast
<1>6. \A i \in 1..4 : c[1] = Vowels[i] => FirstMatch(Segments, c) # 0 /\ FirstMatch(Segments, c) <= 28 + i
  <2> SUFFICES ASSUME NEW i \in 1..4, c[1] = Vowels[i]
               PROVE  FirstMatch(Segments, c) # 0 /\ FirstMatch(Segments, c) <= 28 + i
    OBVIOUS
  <2>1. Same(Segments[28 + i], <<Vowels[i]>>)
    BY VowelSegmentsAt
  <2>2. 28 + i \in 1..70 /\ Len(<<Vowels[i]>>) <= Len(c) /\ \A k \in 1..Len(<<Vowels[i]>>) : <<Vowels[i]>>[k] = c[k]
    BY <1>1
  <2> QED  BY <1>5, <2>1, <2>2
<1>7. \A i \in 1..15 : c[1] = Single[i] => FirstMatch(Segments, c) # 0
  <2> SUFFICES ASSUME NEW i \in 1..15, c[1] = Single[i]
               PROVE  FirstMatch(Segments, c) # 0
    OBVIOUS
  <2>1. Same(Segments[55 + i], <<Single[i]>>)
    BY SegmentsAt, Zenon DEF Same
  <2>2. 55 + i \in 1..70 /\ Len(<<Single[i]>>) <= Len(c) /\ \A k \in 1..Len(<<Single[i]>>) : <<Single[i]>>[k] = c[k]
    BY <1>1
  <2> QED  BY <1>5, <2>1, <2>2
<1>8. FirstMatch(Segments, c) # 0
  <2>1. (\E i \in 1..4 : c[1] = Vowels[i]) \/ (\E i \in 1..15 : c[1] = Single[i])
    BY <1>2 DEF Letters, LowVowels, Vowels, Single
  <2> QED  BY <1>6, <1>7, <2>1
<1> PICK n : n = FirstMatch(Segments, c)
  OBVIOUS
<1>9. n \in 1..70 /\ IsPrefix(Segments[n], c)
  <2>1. n \in DOMAIN Segments /\ IsPrefix(Segments[n], c)
    BY <1>3, <1>8, FirstMatchFound
  <2> QED  BY <1>3, <2>1
<1>10. PICK m : m = Len(Segments[n])
  OBVIOUS
<1>11. m \in Nat \ {0} /\ m <= Len(c) /\ \A k \in 1..m : Segments[n][k] = c[k]
  <2> PICK seg : seg = Segments[n]
    OBVIOUS
  <2>1. seg \in Seq(Letter) /\ Len(seg) \in Nat \ {0} /\ IsPrefix(seg, c)
    BY <1>4, <1>9
  <2>2. Len(seg) <= Len(c) /\ \A k \in 1..Len(seg) : seg[k] = c[k]
    BY <2>1, PrefixChars
  <2> QED  BY <1>10, <2>1, <2>2
<1>12. SUFFICES ASSUME m < Len(c), c[m + 1] \in Tails  PROVE FALSE
  BY <1>8, <1>10
<1>13. /\ c[m + 1] = "G" => c[m] = "x"
       /\ c[m + 1] = "B" => c[m] = "l" /\ (m > 1 => c[m - 1] # "d")
       /\ c[m + 1] = "H" => c[m] \in LowVowels
       /\ c[m + 1] = "N" => c[m] \in LowVowels \cup {"H"}
  <2>1. m + 1 \in 1..Len(c) /\ (m + 1) - 1 = m /\ (m + 1) - 2 = m - 1 /\ m + 1 > 1 /\ (m > 1 => m + 1 > 2)
    BY <1>11, <1>12
  <2>2. Placed(c, m + 1)
    BY <2>1 DEF Spelled
  <2> QED  BY <2>1, <2>2 DEF Placed
<1>14. ASSUME NEW i \in 1..4, n \in {i, 4 + i, 8 + i, 12 + i, 16 + i, 20 + i, 24 + i, 28 + i}
       PROVE  FALSE
  <2>1. PICK v \in LowVowels : v = Vowels[i]
    BY DEF LowVowels, Vowels
  <2>2. ASSUME NEW p \in 1..m, c[p] \in LowVowels  PROVE NotDoubled(c, p)
    BY <1>11, <2>2 DEF Spelled, Placed
  <2>3. n # i
    <3> SUFFICES ASSUME n = i  PROVE FALSE
      OBVIOUS
    <3>1. Same(Segments[n], <<v, "H", "N", v, "H", "N">>)
      BY <2>1, VowelSegmentsAt
    <3>2. m = 6 /\ c[1] = v /\ c[2] = "H" /\ c[3] = "N" /\ c[4] = v
      BY <1>10, <1>11, <3>1 DEF Same
    <3> QED  BY <2>1, <2>2, <3>2 DEF NotDoubled
  <2>4. n # 4 + i
    <3> SUFFICES ASSUME n = 4 + i  PROVE FALSE
      OBVIOUS
    <3>1. Same(Segments[n], <<v, "H", v, "H">>)
      BY <2>1, VowelSegmentsAt
    <3>2. m = 4 /\ c[1] = v /\ c[2] = "H" /\ c[3] = v
      BY <1>10, <1>11, <3>1 DEF Same
    <3> QED  BY <2>1, <2>2, <3>2 DEF NotDoubled
  <2>5. n # 8 + i
    <3> SUFFICES ASSUME n = 8 + i  PROVE FALSE
      OBVIOUS
    <3>1. Same(Segments[n], <<v, "N", v, "N">>)
      BY <2>1, VowelSegmentsAt
    <3>2. m = 4 /\ c[1] = v /\ c[2] = "N" /\ c[3] = v
      BY <1>10, <1>11, <3>1 DEF Same
    <3> QED  BY <2>1, <2>2, <3>2 DEF NotDoubled
  <2>6. n # 12 + i
    <3> SUFFICES ASSUME n = 12 + i  PROVE FALSE
      OBVIOUS
    <3>1. Same(Segments[n], <<v, v>>)
      BY <2>1, VowelSegmentsAt
    <3>2. m = 2 /\ c[1] = v /\ c[2] = v
      BY <1>10, <1>11, <3>1 DEF Same
    <3> QED  BY <2>1, <2>2, <3>2 DEF NotDoubled
  <2>7. n # 16 + i
    <3> SUFFICES ASSUME n = 16 + i  PROVE FALSE
      OBVIOUS
    <3>1. Same(Segments[n], <<v, "H", "N">>)
      BY <2>1, VowelSegmentsAt
    <3>2. m = 3 /\ c[3] = "N"
      BY <1>10, <1>11, <3>1 DEF Same
    <3> QED  BY <1>12, <1>13, <3>2 DEF LowVowels, Tails
  <2>8. n # 20 + i
    <3> SUFFICES ASSUME n = 20 + i  PROVE FALSE
      OBVIOUS
    <3>1. Same(Segments[n], <<v, "H">>) /\ Same(Segments[16 + i], <<v, "H", "N">>)
      BY <2>1, VowelSegmentsAt
    <3>2. m = 2 /\ c[1] = v /\ c[2] = "H"
      BY <1>10, <1>11, <3>1 DEF Same
    <3>3. c[3] = "N" /\ 3 <= Len(c)
      BY <1>12, <1>13, <3>2 DEF LowVowels, Tails
    <3>4. PICK w : w = <<v, "H", "N">>
      OBVIOUS
    <3>5. 16 + i \in 1..70 /\ Len(w) <= Len(c) /\ \A k \in 1..Len(w) : w[k] = c[k]
      BY <3>2, <3>3, <3>4
    <3>6. n <= 16 + i
      BY <1>5, <3>1, <3>4, <3>5
    <3> QED  BY <3>6
  <2>9. n # 24 + i
    <3> SUFFICES ASSUME n = 24 + i  PROVE FALSE
      OBVIOUS
    <3>1. Same(Segments[n], <<v, "N">>)
      BY <2>1, VowelSegmentsAt
    <3>2. m = 2 /\ c[2] = "N"
      BY <1>10, <1>11, <3>1 DEF Same
    <3> QED  BY <1>12, <1>13, <3>2 DEF LowVowels, Tails
  <2>10. n # 28 + i
    <3> SUFFICES ASSUME n = 28 + i  PROVE FALSE
      OBVIOUS
    <3>1. Same(Segments[n], <<v>>) /\ Same(Segments[20 + i], <<v, "H">>) /\ Same(Segments[24 + i], <<v, "N">>)
      BY <2>1, VowelSegmentsAt
    <3>2. m = 1 /\ c[1] = v /\ 2 <= Len(c)
      BY <1>10, <1>11, <1>12, <3>1 DEF Same
    <3>3. c[2] \in {"H", "N"}
      BY <1>12, <1>13, <2>1, <3>2 DEF LowVowels, Tails
    <3>4. ASSUME c[2] = "H"  PROVE FALSE
      <4>1. PICK w : w = <<v, "H">>
        OBVIOUS
      <4>2. 20 + i \in 1..70 /\ Len(w) <= Len(c) /\ \A k \in 1..Len(w) : w[k] = c[k]
        BY <3>2, <3>4, <4>1
      <4>3. n <= 20 + i
        BY <1>5, <3>1, <4>1, <4>2
      <4> QED  BY <4>3
    <3>5. ASSUME c[2] = "N"  PROVE FALSE
      <4>1. PICK w : w = <<v, "N">>
        OBVIOUS
      <4>2. 24 + i \in 1..70 /\ Len(w) <= Len(c) /\ \A k \in 1..Len(w) : w[k] = c[k]
        BY <3>2, <3>5, <4>1
      <4>3. n <= 24 + i
        BY <1>5, <3>1, <4>1, <4>2
      <4> QED  BY <4>3
    <3> QED  BY <3>3, <3>4, <3>5
  <2> QED  BY <1>14, <2>3, <2>4, <2>5, <2>6, <2>7, <2>8, <2>9, <2>10
<1>15. ASSUME NEW i \in 1..8, n = 32 + i  PROVE FALSE
  <2>1. Segments[n] = Diphthongs[i]
    BY <1>15, SegmentsAt
  <2>2. Diphthongs[i][1] \in {"a", "e"}
    BY DEF Diphthongs
  <2>3. c[1] = Vowels[1] \/ c[1] = Vowels[2]
    BY <1>11, <2>1, <2>2 DEF Vowels
  <2> QED  BY <1>6, <1>15, <2>3
<1>16. ASSUME NEW i \in 1..15, n = 40 + i  PROVE FALSE
  <2>1. Segments[n] = Clusters[i]
    BY <1>16, SegmentsAt
  <2>2. CASE i = 2
    <3>1. Segments[n] = <<"d", "l">>
      BY <2>1, <2>2 DEF Clusters
    <3>2. m = 2 /\ c[1] = "d" /\ c[2] = "l"
      BY <1>10, <1>11, <3>1 DEF Same
    <3> QED  BY <1>12, <1>13, <3>2 DEF LowVowels, Tails
  <2>3. CASE i # 2
    <3>1. Clusters[i][Len(Clusters[i])] \in {"h", "z", "s", "B", "G"}
      <4>1. i \in {1, 3, 4, 5, 6, 7, 8, 9, 10, 11, 12, 13, 14, 15}
        BY <2>3
      <4>2. /\ Clusters[1] = <<"c", "h">>
            /\ Clusters[3] = <<"d", "z">>
            /\ Clusters[4] = <<"t", "s">>
            /\ Clusters[5] = <<"z", "h">>
            /\ Clusters[6] = <<"s", "h">>
            /\ Clusters[7] = <<"g", "h">>
            /\ Clusters[8] = <<"t", "l", "B">>
            /\ Clusters[9] = <<"c", "h", "x", "G">>
            /\ Clusters[10] = <<"k", "x", "G">>
            /\ Clusters[11] = <<"t", "x", "G">>
            /\ Clusters[12] = <<"t", "l", "B", "x", "G">>
            /\ Clusters[13] = <<"t", "s", "x", "G">>
            /\ Clusters[14] = <<"x", "G">>
            /\ Clusters[15] = <<"l", "B">>
        BY DEF Clusters
      <4>3. Clusters[1][Len(Clusters[1])] = "h"
        BY <4>2
      <4>4. Clusters[3][Len(Clusters[3])] = "z"
        BY <4>2
      <4>5. Clusters[4][Len(Clusters[4])] = "s"
        BY <4>2
      <4>6. Clusters[5][Len(Clusters[5])] = "h"
        BY <4>2
      <4>7. Clusters[6][Len(Clusters[6])] = "h"
        BY <4>2
      <4>8. Clusters[7][Len(Clusters[7])] = "h"
        BY <4>2
      <4>9. Clusters[8][Len(Clusters[8])] = "B"
        BY <4>2
      <4>10. Clusters[9][Len(Clusters[9])] = "G"
        BY <4>2
      <4>11. Clusters[10][Len(Clusters[10])] = "G"
        BY <4>2
      <4>12. Clusters[11][Len(Clusters[11])] = "G"
        BY <4>2
      <4>13. Clusters[12][Len(Clusters[12])] = "G"
        BY <4>2
      <4>14. Clusters[13][Len(Clusters[13])] = "G"
        BY <4>2
      <4>15. Clusters[14][Len(Clusters[14])] = "G"
        BY <4>2
      <4>16. Clusters[15][Len(Clusters[15])] = "B"
        BY <4>2
      <4> QED  BY <4>1, <4>3, <4>4, <4>5, <4>6, <4>7, <4>8, <4>9, <4>10, <4>11, <4>12, <4>13, <4>14, <4>15, <4>16
    <3>2. c[m] \in {"h", "z", "s", "B", "G"}
      BY <1>10, <1>11, <2>1, <3>1
    <3> QED  BY <1>12, <1>13, <3>2 DEF LowVowels, Tails
  <2> QED  BY <2>2, <2>3
<1>17. ASSUME NEW i \in 1..15, n = 55 + i  PROVE FALSE
  <2>1. Segments[n] = <<Single[i]>> /\ Single[i] \notin LowVowels \cup {"H"}
    <3>1. Segments[n] = <<Single[i]>>
      BY <1>17, SegmentsAt, Zenon
    <3>2. Single[i] \notin LowVowels \cup {"H"}
      BY DEF Single, LowVowels
    <3> QED  BY <3>1, <3>2
  <2>2. m = 1 /\ c[1] = Single[i] /\ 2 <= Len(c)
    BY <1>10, <1>11, <1>12, <2>1
  <2>3. Segments[54] = <<"x", "G">> /\ Segments[55] = <<"l", "B">>
    <3>1. Segments[40 + 14] = Clusters[14] /\ Segments[40 + 15] = Clusters[15]
      BY SegmentsAt
    <3> QED  BY <3>1 DEF Clusters
  <2>4. (c[1] = "x" /\ c[2] = "G") \/ (c[1] = "l" /\ c[2] = "B")
    BY <1>12, <1>13, <2>1, <2>2 DEF Tails
  <2>5. ASSUME c[1] = "x", c[2] = "G"  PROVE FALSE
    <3>1. PICK w : w = <<"x", "G">>
      OBVIOUS
    <3>2. 54 \in 1..70 /\ Len(w) <= Len(c) /\ \A k \in 1..Len(w) : w[k] = c[k]
      BY <2>2, <2>5, <3>1
    <3>3. n <= 54
      BY <1>5, <2>3, <3>1, <3>2 DEF Same
    <3> QED  BY <1>17, <3>3
  <2>6. ASSUME c[1] = "l", c[2] = "B"  PROVE FALSE
    <3>1. PICK w : w = <<"l", "B">>
      OBVIOUS
    <3>2. 55 \in 1..70 /\ Len(w) <= Len(c) /\ \A k \in 1..Len(w) : w[k] = c[k]
      BY <2>2, <2>6, <3>1
    <3>3. n <= 55
      BY <1>5, <2>3, <3>1, <3>2 DEF Same
    <3> QED  BY <1>17, <3>3
  <2> QED  BY <2>4, <2>5, <2>6
<1> QED  BY <1>14, <1>15, <1>16, <1>17, <1>9, PlacesOfSegments

\* What is left behind a segment is again spelled, when it begins with a letter.
LEMMA RestSpelled ==
  ASSUME NEW c \in Seq(Char), Spelled(c), NEW m \in 1..Len(c), m < Len(c) => c[m + 1] \notin Tails
  PROVE  Spelled(SubSeq(c, m + 1, Len(c)))
<1> PICK r, l : r = SubSeq(c, m + 1, Len(c)) /\ l = Len(c) - m
  OBVIOUS
<1>1. Len(c) \in Nat /\ l \in Nat /\ Len(r) = l /\ \A p \in 1..l : r[p] = c[m + p]
  OBVIOUS
<1> SUFFICES ASSUME NEW p \in 1..l  PROVE Placed(r, p)
  BY <1>1 DEF Spelled
<1>2. m + p \in 1..Len(c) /\ Placed(c, m + p)
  <2>1. m + p \in 1..Len(c)
    BY <1>1
  <2> QED  BY <2>1 DEF Spelled
<1>3. CASE p = 1
  <2>1. r[1] = c[m + 1] /\ c[m + 1] \notin Tails
    BY <1>1, <1>3
  <2> QED  BY <1>2, <1>3, <2>1 DEF Placed, NotDoubled, Tails
<1>4. CASE p > 1
  <2>1. /\ m + p > 1 /\ (m + p) - 1 = m + (p - 1) /\ p - 1 \in 1..l
        /\ p > 2 => m + p > 2 /\ (m + p) - 2 = m + (p - 2) /\ p - 2 \in 1..l
        /\ p > 3 => m + p > 3 /\ (m + p) - 3 = m + (p - 3) /\ p - 3 \in 1..l
    <3>1. m \in Nat \ {0} /\ p \in Nat /\ l \in Nat /\ p <= l
      BY <1>1
    <3>2. \A a \in Nat \ {0}, b, d \in Nat : b <= d /\ b > 1 =>
            /\ a + b > 1 /\ (a + b) - 1 = a + (b - 1) /\ b - 1 \in 1..d
            /\ b > 2 => a + b > 2 /\ (a + b) - 2 = a + (b - 2) /\ b - 2 \in 1..d
            /\ b > 3 => a + b > 3 /\ (a + b) - 3 = a + (b - 3) /\ b - 3 \in 1..d
      OBVIOUS
    <3> QED  BY <1>4, <3>1, <3>2, Zenon
  <2>2. /\ r[p] = c[m + p] /\ r[p - 1] = c[(m + p) - 1]
        /\ p > 2 => r[p - 2] = c[(m + p) - 2]
        /\ p > 3 => r[p - 3] = c[(m + p) - 3]
    BY <1>1, <2>1
  <2>3. c[m + p] \in LowVowels => NotDoubled(r, p)
    <3> SUFFICES ASSUME c[m + p] \in LowVowels  PROVE NotDoubled(r, p)
      OBVIOUS
    <3>1. NotDoubled(c, m + p)
      BY <1>2 DEF Placed
    <3> QED  BY <2>1, <2>2, <3>1 DEF NotDoubled
  <2>4. /\ c[m + p] \in Letters \cup Tails
        /\ c[m + p] = "G" => r[p - 1] = "x"
        /\ c[m + p] = "B" => r[p - 1] = "l" /\ (p > 2 => r[p - 2] # "d")
        /\ c[m + p] = "H" => r[p - 1] \in LowVowels
        /\ c[m + p] = "N" => r[p - 1] \in LowVowels \cup {"H"}
    BY <1>2, <2>1, <2>2 DEF Placed
  <2> QED  BY <1>4, <2>2, <2>3, <2>4 DEF Placed
<1> QED  BY <1>1, <1>3, <1>4

\* A letter that is a segment is one of these.
LEMMA SingleLetters ==
  ASSUME NEW ch, <<ch>> \in Range(Segments)
  PROVE  ch \in Letters
<1> PICK s : s = <<ch>>
  OBVIOUS
<1>1. Len(s) = 1 /\ s[1] = ch
  OBVIOUS
<1>2. PICK n \in 1..70 : Segments[n] = s
  <2>1. Len(Segments) = 70 /\ Segments \in Seq(Segment)
    BY SegmentsAt, SegmentsTyped, Zenon
  <2>2. DOMAIN Segments = 1..70
    BY <2>1
  <2> QED  BY <2>2 DEF Range
<1>3. ASSUME NEW i \in 1..4, n \in {i, 4 + i, 8 + i, 12 + i, 16 + i, 20 + i, 24 + i, 28 + i}
      PROVE  ch \in Letters
  <2>1. PICK v \in LowVowels : v = Vowels[i]
    BY DEF LowVowels, Vowels
  <2>2. /\ Len(Segments[i]) = 6 /\ Len(Segments[4 + i]) = 4 /\ Len(Segments[8 + i]) = 4
        /\ Len(Segments[12 + i]) = 2 /\ Len(Segments[16 + i]) = 3 /\ Len(Segments[20 + i]) = 2
        /\ Len(Segments[24 + i]) = 2 /\ Segments[28 + i][1] = v
    <3>1. \A t, w : Same(t, w) => Len(t) = Len(w)
      BY DEF Same
    <3>0. /\ Same(Segments[i], <<v, "H", "N", v, "H", "N">>) /\ Same(Segments[4 + i], <<v, "H", v, "H">>)
          /\ Same(Segments[8 + i], <<v, "N", v, "N">>) /\ Same(Segments[12 + i], <<v, v>>)
          /\ Same(Segments[16 + i], <<v, "H", "N">>) /\ Same(Segments[20 + i], <<v, "H">>)
          /\ Same(Segments[24 + i], <<v, "N">>)
      BY <2>1, VowelSegmentsAt
    <3>2. /\ Len(Segments[i]) = Len(<<v, "H", "N", v, "H", "N">>) /\ Len(Segments[4 + i]) = Len(<<v, "H", v, "H">>)
          /\ Len(Segments[8 + i]) = Len(<<v, "N", v, "N">>) /\ Len(Segments[12 + i]) = Len(<<v, v>>)
          /\ Len(Segments[16 + i]) = Len(<<v, "H", "N">>) /\ Len(Segments[20 + i]) = Len(<<v, "H">>)
          /\ Len(Segments[24 + i]) = Len(<<v, "N">>)
      BY <3>0, <3>1, SMTT(30)
    <3>3. Same(Segments[28 + i], <<v>>)
      BY <2>1, VowelSegmentsAt
    <3>4. Segments[28 + i][1] = v
      BY <3>3 DEF Same
    <3> QED  BY <3>2, <3>4
  <2>3. n = 28 + i
    BY <1>1, <1>2, <1>3, <2>2
  <2> QED  BY <1>1, <1>2, <2>2, <2>3 DEF Letters
<1>4. ASSUME NEW i \in 1..8, n = 32 + i  PROVE FALSE
  <2>1. Segments[n] = Diphthongs[i]
    BY <1>4, SegmentsAt
  <2>2. Len(Diphthongs[i]) # 1
    BY DEF Diphthongs
  <2> QED  BY <1>1, <1>2, <2>1, <2>2
<1>5. ASSUME NEW i \in 1..15, n = 40 + i  PROVE FALSE
  <2>1. Segments[n] = Clusters[i]
    BY <1>5, SegmentsAt
  <2>2. Len(Clusters[i]) # 1
    BY DEF Clusters
  <2> QED  BY <1>1, <1>2, <2>1, <2>2
<1>6. ASSUME NEW i \in 1..15, n = 55 + i  PROVE ch \in Letters
  <2>1. Segments[n] = <<Single[i]>>
    BY <1>6, SegmentsAt
  <2>2. Single[i] \in Letters
    BY DEF Single, Letters
  <2> QED  BY <1>1, <1>2, <2>1, <2>2
<1> QED  BY <1>3, <1>4, <1>5, <1>6, PlacesOfSegments

\* Plain, said of each place of the text and the three before it.
PlainAt(t, i) ==
  /\ t[i] \in Letters \cup {"barred-l", "'", "acute", "hook"}
  /\ t[i] = "acute" => i > 1 /\ t[i - 1] \in LowVowels
  /\ t[i] = "hook" => i > 1 /\ t[i - 1] \in LowVowels \cup {"acute"}
  /\ t[i] = "barred-l" /\ i > 1 => t[i - 1] # "d"
  /\ t[i] \in LowVowels =>
       /\ i > 1 => t[i - 1] # t[i]
       /\ i > 2 /\ t[i - 1] \in {"acute", "hook"} => t[i - 2] # t[i]
       /\ i > 3 /\ t[i - 1] = "hook" /\ t[i - 2] = "acute" => t[i - 3] # t[i]

LEMMA PlainEverywhere ==
  ASSUME NEW t \in Seq(Char), Plain(t)
  PROVE  \A i \in 1..Len(t) : PlainAt(t, i)
<1> PICK n : n = Len(t)
  OBVIOUS
<1>1. n \in Nat /\ DOMAIN t = 1..n
  OBVIOUS
<1> DEFINE letters == {i \in 1..n : ~ IsDiacritic(t[i])}
           NextLetter(i) == {j \in letters : j > i /\ \A k \in letters : k > i => j <= k}
<1>2. /\ \A i \in letters : Ascii(t[i]) \in Range(Segments)
      /\ \A i \in letters : \A j \in NextLetter(i) :
           (IsVowel(t[i]) => t[i] # t[j]) /\ ~ (t[i] = "d" /\ t[j] = "barred-l")
  BY <1>1, Zenon DEF Plain
<1>3. \A i \in 1..n : IsDiacritic(t[i]) =>
        i > 1 /\ (IsVowel(t[i - 1]) \/ (t[i] = "hook" /\ t[i - 1] = "acute"))
  BY <1>1 DEF Plain, WellMarked
<1>4. \A i \in 1..n : t[i] \in Letters \cup {"barred-l", "'", "acute", "hook"}
  <2> SUFFICES ASSUME NEW i \in 1..n, t[i] \notin {"barred-l", "'", "acute", "hook"}  PROVE t[i] \in Letters
    OBVIOUS
  <2>1. Ascii(t[i]) = <<t[i]>>
    BY DEF Ascii
  <2>2. i \in letters
    BY DEF IsDiacritic
  <2>3. <<t[i]>> \in Range(Segments)
    BY <1>2, <2>1, <2>2, Zenon
  <2> QED  BY <2>3, SingleLetters
<1>5. \A i \in 1..n : IsVowel(t[i]) => t[i] \in LowVowels
  BY <1>4 DEF IsVowel, Letters, LowVowels
\* A letter with nothing but marks between it and the next one.
<1>6. ASSUME NEW i \in letters, NEW j \in letters, i < j, \A k \in 1..n : i < k /\ k < j => IsDiacritic(t[k])
      PROVE  (IsVowel(t[i]) => t[i] # t[j]) /\ ~ (t[i] = "d" /\ t[j] = "barred-l")
  <2>1. j \in NextLetter(i)
    <3> SUFFICES ASSUME NEW k \in letters, k > i  PROVE j <= k
      BY <1>6
    <3>1. k \in 1..n /\ ~ IsDiacritic(t[k]) /\ i \in 1..n /\ j \in 1..n
      OBVIOUS
    <3>2. ~ (k < j)
      BY <1>6, <3>1
    <3> QED  BY <3>1, <3>2
  <2> QED  BY <1>2, <2>1, Zenon
<1> SUFFICES ASSUME NEW i \in 1..n  PROVE PlainAt(t, i)
  OBVIOUS
<1>7. t[i] = "acute" => i > 1 /\ t[i - 1] \in LowVowels
  <2> SUFFICES ASSUME t[i] = "acute"  PROVE i > 1 /\ t[i - 1] \in LowVowels
    OBVIOUS
  <2>1. i > 1 /\ IsVowel(t[i - 1])
    BY <1>3 DEF IsDiacritic
  <2>2. i - 1 \in 1..n
    BY <1>1, <2>1
  <2> QED  BY <1>5, <2>1, <2>2
<1>8. t[i] = "hook" => i > 1 /\ t[i - 1] \in LowVowels \cup {"acute"}
  <2> SUFFICES ASSUME t[i] = "hook"  PROVE i > 1 /\ t[i - 1] \in LowVowels \cup {"acute"}
    OBVIOUS
  <2>1. i > 1 /\ (IsVowel(t[i - 1]) \/ t[i - 1] = "acute")
    BY <1>3 DEF IsDiacritic
  <2>2. i - 1 \in 1..n
    BY <1>1, <2>1
  <2> QED  BY <1>5, <2>1, <2>2
<1>9. t[i] = "barred-l" /\ i > 1 => t[i - 1] # "d"
  <2> SUFFICES ASSUME t[i] = "barred-l", i > 1, t[i - 1] = "d"  PROVE FALSE
    OBVIOUS
  <2>1. i - 1 \in 1..n /\ i - 1 < i /\ \A k \in 1..n : ~ (i - 1 < k /\ k < i)
    BY <1>1
  <2>2. i - 1 \in letters /\ i \in letters
    BY <2>1 DEF IsDiacritic
  <2> QED  BY <1>6, <2>1, <2>2
<1>10. ASSUME t[i] \in LowVowels
       PROVE  /\ i > 1 => t[i - 1] # t[i]
              /\ i > 2 /\ t[i - 1] \in {"acute", "hook"} => t[i - 2] # t[i]
              /\ i > 3 /\ t[i - 1] = "hook" /\ t[i - 2] = "acute" => t[i - 3] # t[i]
  <2>1. IsVowel(t[i]) /\ ~ IsDiacritic(t[i]) /\ i \in letters
    BY <1>10 DEF IsVowel, IsDiacritic, LowVowels
  <2>2. ASSUME NEW j \in 1..n, j < i, \A k \in 1..n : j < k /\ k < i => IsDiacritic(t[k])
        PROVE  t[j] # t[i]
    <3> SUFFICES ASSUME t[j] = t[i]  PROVE FALSE
      OBVIOUS
    <3>1. j \in letters /\ IsVowel(t[j])
      BY <2>1
    <3> QED  BY <1>6, <2>1, <2>2, <3>1
  <2>3. i > 1 => t[i - 1] # t[i]
    <3> SUFFICES ASSUME i > 1  PROVE t[i - 1] # t[i]
      OBVIOUS
    <3>1. i - 1 \in 1..n /\ i - 1 < i /\ \A k \in 1..n : ~ (i - 1 < k /\ k < i)
      BY <1>1
    <3> QED  BY <2>2, <3>1
  <2>4. i > 2 /\ t[i - 1] \in {"acute", "hook"} => t[i - 2] # t[i]
    <3> SUFFICES ASSUME i > 2, t[i - 1] \in {"acute", "hook"}  PROVE t[i - 2] # t[i]
      OBVIOUS
    <3>1. i - 2 \in 1..n /\ i - 2 < i /\ \A k \in 1..n : i - 2 < k /\ k < i => k = i - 1
      BY <1>1
    <3>2. \A k \in 1..n : i - 2 < k /\ k < i => IsDiacritic(t[k])
      BY <3>1 DEF IsDiacritic
    <3> QED  BY <2>2, <3>1, <3>2
  <2>5. i > 3 /\ t[i - 1] = "hook" /\ t[i - 2] = "acute" => t[i - 3] # t[i]
    <3> SUFFICES ASSUME i > 3, t[i - 1] = "hook", t[i - 2] = "acute"  PROVE t[i - 3] # t[i]
      OBVIOUS
    <3>1. i - 3 \in 1..n /\ i - 3 < i /\ \A k \in 1..n : i - 3 < k /\ k < i => k \in {i - 1, i - 2}
      BY <1>1
    <3>2. \A k \in 1..n : i - 3 < k /\ k < i => IsDiacritic(t[k])
      BY <3>1 DEF IsDiacritic
    <3> QED  BY <2>2, <3>1, <3>2
  <2> QED  BY <2>3, <2>4, <2>5
<1> QED  BY <1>4, <1>7, <1>8, <1>9, <1>10 DEF PlainAt

\* How the conversion c of the first n characters of t ends.
Ends(c, t, n) ==
  LET l == Len(c)
  IN  /\ (n = 0) = (l = 0)
      /\ n > 0 /\ t[n] \in Letters => c[l] = t[n]
      /\ n > 0 /\ t[n] = "acute" => n > 1 /\ l > 1 /\ c[l] = "H" /\ c[l - 1] = t[n - 1]
      /\ n > 0 /\ t[n] = "hook" =>
           /\ n > 1 /\ l > 1 /\ c[l] = "N"
           /\ t[n - 1] \in LowVowels => c[l - 1] = t[n - 1]
           /\ t[n - 1] = "acute" => n > 2 /\ l > 2 /\ c[l - 1] = "H" /\ c[l - 2] = t[n - 2]
      /\ n > 0 /\ t[n] = "barred-l" => c[l] = "B"
      /\ n > 0 /\ t[n] = "'" => c[l] = "G"

\* What a symbol at the end of the conversion says of the text.
LEMMA EndsBack ==
  ASSUME NEW t, NEW n \in Nat, NEW c \in Seq(Char), Len(c) > 0, Ends(c, t, n),
         \A i \in 1..n : PlainAt(t, i)
  PROVE  LET l == Len(c)
         IN  /\ n > 0
             /\ c[l] \in LowVowels \cup {"d"} => t[n] = c[l]
             /\ c[l] = "H" => t[n] = "acute" /\ n > 1 /\ l > 1 /\ c[l - 1] = t[n - 1]
             /\ c[l] = "N" => t[n] = "hook" /\ n > 1 /\ l > 1
             /\ c[l] = "N" /\ c[l - 1] \in LowVowels => c[l - 1] = t[n - 1]
             /\ c[l] = "N" /\ c[l - 1] = "H" => /\ t[n - 1] = "acute" /\ n > 2 /\ l > 2
                                                /\ c[l - 2] = t[n - 2]
<1> PICK l : l = Len(c)
  OBVIOUS
<1>1. l \in Nat /\ n > 0 /\ PlainAt(t, n)
  BY DEF Ends
<1>2. CASE t[n] \in Letters
  <2>1. c[l] = t[n]
    BY <1>1, <1>2 DEF Ends
  <2> QED  BY <1>1, <1>2, <2>1 DEF Letters, LowVowels
<1>3. CASE t[n] = "acute"
  <2>1. n > 1 /\ l > 1 /\ c[l] = "H" /\ c[l - 1] = t[n - 1]
    BY <1>1, <1>3 DEF Ends
  <2> QED  BY <1>1, <1>3, <2>1 DEF LowVowels
<1>4. CASE t[n] = "hook"
  <2>1. /\ n > 1 /\ l > 1 /\ c[l] = "N"
        /\ t[n - 1] \in LowVowels => c[l - 1] = t[n - 1]
        /\ t[n - 1] = "acute" => n > 2 /\ l > 2 /\ c[l - 1] = "H" /\ c[l - 2] = t[n - 2]
    BY <1>1, <1>4 DEF Ends
  <2>2. t[n - 1] \in LowVowels \cup {"acute"}
    BY <1>1, <1>4 DEF PlainAt
  <2> QED  BY <1>1, <1>4, <2>1, <2>2 DEF LowVowels
<1>5. CASE t[n] \in {"barred-l", "'"}
  <2>1. c[l] \in {"B", "G"}
    BY <1>1, <1>5 DEF Ends
  <2> QED  BY <1>1, <1>5, <2>1 DEF LowVowels
<1> QED  BY <1>1, <1>2, <1>3, <1>4, <1>5 DEF PlainAt

\* What is placed stays placed when more comes behind it.
LEMMA StaysPlaced ==
  ASSUME NEW c, NEW d, NEW l \in Nat, NEW p \in 1..l, \A k \in 1..l : d[k] = c[k], Placed(c, p)
  PROVE  Placed(d, p)
<1>1. /\ d[p] = c[p]
      /\ p > 1 => p - 1 \in 1..l /\ d[p - 1] = c[p - 1]
      /\ p > 2 => p - 2 \in 1..l /\ d[p - 2] = c[p - 2]
      /\ p > 3 => p - 3 \in 1..l /\ d[p - 3] = c[p - 3]
  OBVIOUS
<1>2. c[p] \in LowVowels => NotDoubled(d, p)
  BY <1>1 DEF Placed, NotDoubled
<1> QED  BY <1>1, <1>2 DEF Placed

\* The conversion of one more character.
LEMMA ConvertsOneMore ==
  ASSUME NEW t, NEW n \in Nat, NEW c \in Seq(Char), Spelled(c), Ends(c, t, n),
         \A i \in 1..n + 1 : PlainAt(t, i)
  PROVE  LET d == c \o Ascii(t[n + 1])
         IN  d \in Seq(Char) /\ Spelled(d) /\ Ends(d, t, n + 1)
<1> PICK x, a, d, l : x = t[n + 1] /\ a = Ascii(x) /\ d = c \o a /\ l = Len(c)
  OBVIOUS
<1>1. l \in Nat /\ (l = 0) = (n = 0) /\ \A p \in 1..l : Placed(c, p)
  BY DEF Spelled, Ends
<1>2. PlainAt(t, n + 1) /\ \A i \in 1..n : PlainAt(t, i)
  OBVIOUS
<1>3. (n + 1) - 1 = n /\ (n + 1) - 2 = n - 1 /\ (n + 1) - 3 = n - 2 /\ n + 1 > 0 /\ n + 1 # 0
  OBVIOUS
<1>4. x \in Letters \cup {"barred-l", "'", "acute", "hook"}
  BY <1>2 DEF PlainAt
<1>5. l > 0 =>
        /\ n > 0
        /\ c[l] \in LowVowels \cup {"d"} => t[n] = c[l]
        /\ c[l] = "H" => t[n] = "acute" /\ n > 1 /\ l > 1 /\ c[l - 1] = t[n - 1]
        /\ c[l] = "N" => t[n] = "hook" /\ n > 1 /\ l > 1
        /\ c[l] = "N" /\ c[l - 1] \in LowVowels => c[l - 1] = t[n - 1]
        /\ c[l] = "N" /\ c[l - 1] = "H" => t[n - 1] = "acute" /\ n > 2 /\ l > 2 /\ c[l - 2] = t[n - 2]
  <2> SUFFICES ASSUME l > 0
               PROVE  /\ n > 0
                      /\ c[l] \in LowVowels \cup {"d"} => t[n] = c[l]
                      /\ c[l] = "H" => t[n] = "acute" /\ n > 1 /\ l > 1 /\ c[l - 1] = t[n - 1]
                      /\ c[l] = "N" => t[n] = "hook" /\ n > 1 /\ l > 1
                      /\ c[l] = "N" /\ c[l - 1] \in LowVowels => c[l - 1] = t[n - 1]
                      /\ c[l] = "N" /\ c[l - 1] = "H" =>
                           t[n - 1] = "acute" /\ n > 2 /\ l > 2 /\ c[l - 2] = t[n - 2]
    OBVIOUS
  <2>1. Len(c) > 0 /\ \A i \in 1..n : PlainAt(t, i)
    BY <1>2
  <2>2. LET k == Len(c)
        IN  /\ n > 0
            /\ c[k] \in LowVowels \cup {"d"} => t[n] = c[k]
            /\ c[k] = "H" => t[n] = "acute" /\ n > 1 /\ k > 1 /\ c[k - 1] = t[n - 1]
            /\ c[k] = "N" => t[n] = "hook" /\ n > 1 /\ k > 1
            /\ c[k] = "N" /\ c[k - 1] \in LowVowels => c[k - 1] = t[n - 1]
            /\ c[k] = "N" /\ c[k - 1] = "H" => /\ t[n - 1] = "acute" /\ n > 2 /\ k > 2
                                               /\ c[k - 2] = t[n - 2]
    BY <2>1, EndsBack
  <2> QED  BY <2>2, Zenon
<1>6. ASSUME NEW y \in Char, a = <<y>>
      PROVE  d \in Seq(Char) /\ Len(d) = l + 1 /\ d[l + 1] = y /\ \A k \in 1..l : d[k] = c[k]
  BY <1>6
<1>7. ASSUME NEW y \in Char, NEW z \in Char, a = <<y, z>>
      PROVE  /\ d \in Seq(Char) /\ Len(d) = l + 2 /\ d[l + 1] = y /\ d[l + 2] = z
             /\ \A k \in 1..l : d[k] = c[k]
  BY <1>7
<1>8. Letters \cup Tails \subseteq Char
  BY DEF Char, Letter, Letters, LowVowels, Tails
<1>9. (\A k \in 1..l : d[k] = c[k]) => \A p \in 1..l : Placed(d, p)
  BY <1>1, StaysPlaced
<1>10. ASSUME Len(d) = l + 1, \A k \in 1..l : d[k] = c[k], Placed(d, l + 1)  PROVE Spelled(d)
  <2>1. \A p \in 1..l + 1 : p \in 1..l \/ p = l + 1
    BY <1>1
  <2> QED  BY <1>9, <1>10, <2>1 DEF Spelled
<1>11. ASSUME Len(d) = l + 2, \A k \in 1..l : d[k] = c[k], Placed(d, l + 1), Placed(d, l + 2)  PROVE Spelled(d)
  <2>1. \A p \in 1..l + 2 : p \in 1..l \/ p = l + 1 \/ p = l + 2
    BY <1>1
  <2> QED  BY <1>9, <1>11, <2>1 DEF Spelled
<1>12. /\ (l + 1) - 1 = l /\ (l + 1) - 2 = l - 1 /\ (l + 1) - 3 = l - 2 /\ (l + 1 > 1 <=> l > 0)
       /\ (l + 1 > 2 <=> l > 1) /\ (l + 1 > 3 <=> l > 2) /\ (l > 0 => l \in 1..l)
       /\ (l > 1 => l - 1 \in 1..l) /\ (l > 2 => l - 2 \in 1..l) /\ l + 1 # 0
  BY <1>1
<1>13. CASE x \in Letters
  <2>1. a = <<x>> /\ x \in Char
    <3>1. x \in Char
      BY <1>8, <1>13
    <3>2. x \notin {"acute", "hook", "barred-l", "'"}
      BY <1>13 DEF Letters, LowVowels
    <3>3. Ascii(x) = <<x>>
      BY <3>2 DEF Ascii
    <3> QED  BY <3>1, <3>3
  <2>2. d \in Seq(Char) /\ Len(d) = l + 1 /\ d[l + 1] = x /\ \A k \in 1..l : d[k] = c[k]
    BY <1>6, <2>1
  <2>3. x \in LowVowels => NotDoubled(d, l + 1)
    <3> SUFFICES ASSUME x \in LowVowels  PROVE NotDoubled(d, l + 1)
      OBVIOUS
    <3>1. /\ n > 0 => t[n] # x
          /\ n > 1 /\ t[n] \in {"acute", "hook"} => t[n - 1] # x
          /\ n > 2 /\ t[n] = "hook" /\ t[n - 1] = "acute" => t[n - 2] # x
      <4>1. (n > 0 <=> n + 1 > 1) /\ (n > 1 <=> n + 1 > 2) /\ (n > 2 <=> n + 1 > 3)
        OBVIOUS
      <4> QED  BY <1>2, <1>3, <4>1 DEF PlainAt
    <3>2. ASSUME l > 0  PROVE c[l] # x
      BY <1>5, <3>1, <3>2
    <3>3. ASSUME l > 1, c[l] \in {"H", "N"}  PROVE c[l - 1] # x
      <4>1. l > 0
        BY <1>1, <3>3
      <4> QED  BY <1>5, <3>1, <3>3, <4>1 DEF LowVowels
    <3>4. ASSUME l > 2, c[l] = "N", c[l - 1] = "H"  PROVE c[l - 2] # x
      <4>1. l > 0
        BY <1>1, <3>4
      <4> QED  BY <1>5, <3>1, <3>4, <4>1
    <3>5. /\ l > 0 => d[l] = c[l]
          /\ l > 1 => d[l - 1] = c[l - 1]
          /\ l > 2 => d[l - 2] = c[l - 2]
      BY <1>12, <2>2
    <3>6. (l > 1 => l > 0) /\ (l > 2 => l > 1)
      BY <1>1
    <3> QED  BY <1>12, <2>2, <3>2, <3>3, <3>4, <3>5, <3>6 DEF NotDoubled
  <2>4. Placed(d, l + 1)
    BY <1>13, <2>2, <2>3 DEF Placed, Letters, LowVowels
  <2>5. Ends(d, t, n + 1)
    <3>1. x \notin {"acute", "hook", "barred-l", "'"}
      BY <1>13 DEF Letters, LowVowels
    <3> QED  BY <1>3, <1>12, <2>2, <3>1 DEF Ends
  <2> QED  BY <1>10, <2>2, <2>4, <2>5
<1>14. CASE x = "acute"
  <2>1. a = <<"H">> /\ "H" \in Char
    BY <1>8, <1>14 DEF Ascii, Tails
  <2>2. d \in Seq(Char) /\ Len(d) = l + 1 /\ d[l + 1] = "H" /\ \A k \in 1..l : d[k] = c[k]
    BY <1>6, <2>1
  <2>3. n > 0 /\ l > 0 /\ t[n] \in LowVowels
    BY <1>1, <1>2, <1>3, <1>14 DEF PlainAt
  <2>4. c[l] = t[n]
    BY <2>3 DEF Ends, Letters
  <2>5. d[l] = t[n]
    BY <1>12, <2>2, <2>3, <2>4
  <2>6. Placed(d, l + 1)
    BY <1>12, <2>2, <2>3, <2>5 DEF Placed, Tails, LowVowels
  <2>7. Ends(d, t, n + 1)
    <3>1. n + 1 > 1 /\ l + 1 > 1
      BY <1>1, <2>3
    <3> QED  BY <1>3, <1>12, <1>14, <2>2, <2>5, <3>1 DEF Ends, Letters, LowVowels
  <2> QED  BY <1>10, <2>2, <2>6, <2>7
<1>15. CASE x = "hook"
  <2>1. a = <<"N">> /\ "N" \in Char
    BY <1>8, <1>15 DEF Ascii, Tails
  <2>2. d \in Seq(Char) /\ Len(d) = l + 1 /\ d[l + 1] = "N" /\ \A k \in 1..l : d[k] = c[k]
    BY <1>6, <2>1
  <2>3. n > 0 /\ l > 0 /\ t[n] \in LowVowels \cup {"acute"}
    BY <1>1, <1>2, <1>3, <1>15 DEF PlainAt
  <2>4. /\ t[n] \in LowVowels => c[l] = t[n]
        /\ t[n] = "acute" => n > 1 /\ l > 1 /\ c[l] = "H" /\ c[l - 1] = t[n - 1]
    BY <2>3 DEF Ends, Letters
  <2>5. d[l] = c[l] /\ (l > 1 => d[l - 1] = c[l - 1])
    BY <1>12, <2>2, <2>3
  <2>6. Placed(d, l + 1)
    BY <1>12, <2>2, <2>3, <2>4, <2>5 DEF Placed, Tails, LowVowels
  <2>7. Ends(d, t, n + 1)
    <3>1. n + 1 > 1 /\ l + 1 > 1 /\ (n > 1 => n + 1 > 2) /\ (l > 1 => l + 1 > 2)
      BY <1>1, <2>3
    <3>2. "acute" \notin LowVowels
      BY DEF LowVowels
    <3> QED  BY <1>3, <1>12, <1>15, <2>2, <2>4, <2>5, <3>1, <3>2 DEF Ends, Letters, LowVowels
  <2> QED  BY <1>10, <2>2, <2>6, <2>7
<1>16. /\ (l + 2) - 1 = l + 1 /\ (l + 2) - 2 = l /\ l + 2 > 1 /\ (l + 2 > 2 <=> l > 0) /\ l + 2 # 0
       /\ (n > 0 => n + 1 > 1)
  BY <1>1
<1>17. CASE x = "barred-l"
  <2>1. a = <<"l", "B">> /\ "l" \in Char /\ "B" \in Char
    BY <1>8, <1>17 DEF Ascii, Tails, Letters
  <2>2. d \in Seq(Char) /\ Len(d) = l + 2 /\ d[l + 1] = "l" /\ d[l + 2] = "B" /\ \A k \in 1..l : d[k] = c[k]
    BY <1>7, <2>1
  <2>3. l > 0 => d[l] # "d"
    <3> SUFFICES ASSUME l > 0, d[l] = "d"  PROVE FALSE
      OBVIOUS
    <3>1. c[l] = "d"
      BY <1>12, <2>2
    <3>2. n > 0 /\ t[n] = "d"
      BY <1>5, <3>1
    <3> QED  BY <1>2, <1>3, <1>16, <1>17, <3>2 DEF PlainAt
  <2>4. Placed(d, l + 1)
    BY <2>2 DEF Placed, Letters, LowVowels
  <2>5. Placed(d, l + 2)
    BY <1>16, <2>2, <2>3 DEF Placed, Tails, LowVowels
  <2>6. Ends(d, t, n + 1)
    BY <1>3, <1>16, <1>17, <2>2 DEF Ends, Letters, LowVowels
  <2> QED  BY <1>11, <2>2, <2>4, <2>5, <2>6
<1>18. CASE x = "'"
  <2>1. a = <<"x", "G">> /\ "x" \in Char /\ "G" \in Char
    BY <1>8, <1>18 DEF Ascii, Tails, Letters
  <2>2. d \in Seq(Char) /\ Len(d) = l + 2 /\ d[l + 1] = "x" /\ d[l + 2] = "G" /\ \A k \in 1..l : d[k] = c[k]
    BY <1>7, <2>1
  <2>4. Placed(d, l + 1)
    BY <2>2 DEF Placed, Letters, LowVowels
  <2>5. Placed(d, l + 2)
    BY <1>16, <2>2 DEF Placed, Tails, LowVowels
  <2>6. Ends(d, t, n + 1)
    BY <1>3, <1>16, <1>18, <2>2 DEF Ends, Letters, LowVowels
  <2> QED  BY <1>11, <2>2, <2>4, <2>5, <2>6
<1> QED  BY <1>4, <1>13, <1>14, <1>15, <1>17, <1>18

LEMMA PlainIsSpelled ==
  ASSUME NEW t \in Seq(Char), Plain(t)
  PROVE  Spelled(Converted(t))
<1> DEFINE F(n) == FlattenSeq([i \in 1..n |-> Ascii(t[i])])
           N == {n \in Nat : n <= Len(t) => F(n) \in Seq(Char) /\ Spelled(F(n)) /\ Ends(F(n), t, n)}
<1>1. Len(t) \in Nat /\ DOMAIN t = 1..Len(t) /\ \A i \in 1..Len(t) : t[i] \in Char
  OBVIOUS
<1>2. \A i \in 1..Len(t) : PlainAt(t, i)
  BY PlainEverywhere
<1>3. \A c \in Char : Ascii(c) \in Seq(Char)
  <2> TAKE c \in Char
  <2>1. {"H", "N", "l", "B", "x", "G"} \subseteq Char
    BY DEF Char, Letter
  <2> QED  BY <2>1 DEF Ascii
<1>4. 0 \in N
  <2>1. [i \in 1..0 |-> Ascii(t[i])] = <<>>
    OBVIOUS
  <2>2. F(0) = <<>>
    BY <2>1, FlattenEmpty
  <2> HIDE DEF F
  <2>3. F(0) \in Seq(Char) /\ Len(F(0)) = 0
    <3>1. <<>> \in Seq(Char) /\ Len(<<>>) = 0
      OBVIOUS
    <3> QED  BY <2>2, <3>1
  <2> QED  BY <2>3 DEF Spelled, Ends
<1>5. ASSUME NEW n \in Nat, n \in N  PROVE n + 1 \in N
  <2> SUFFICES ASSUME n + 1 <= Len(t)
               PROVE  F(n + 1) \in Seq(Char) /\ Spelled(F(n + 1)) /\ Ends(F(n + 1), t, n + 1)
    OBVIOUS
  <2>1. n <= Len(t) /\ n + 1 \in 1..Len(t)
    BY <1>1
  <2>2. F(n) \in Seq(Char) /\ Spelled(F(n)) /\ Ends(F(n), t, n)
    BY <1>5, <2>1
  <2>3. F(n + 1) = F(n) \o Ascii(t[n + 1])
    <3> PICK f, g, x : /\ f = [i \in 1..n |-> Ascii(t[i])] /\ g = [i \in 1..n + 1 |-> Ascii(t[i])]
                       /\ x = Ascii(t[n + 1])
      OBVIOUS
    <3>1. f \in Seq(Seq(Char)) /\ Len(f) = n /\ x \in Seq(Char)
      BY <1>1, <1>3, <2>1
    <3>2. Append(f, x) = [k \in 1..n + 1 |-> IF k = n + 1 THEN x ELSE f[k]]
      <4>1. Append(f, x) = [k \in 1..Len(f) + 1 |-> IF k = Len(f) + 1 THEN x ELSE f[k]]
        BY <3>1, AppendedAt
      <4> QED  BY <3>1, <4>1
    <3>3. \A k \in 1..n + 1 : g[k] = IF k = n + 1 THEN x ELSE f[k]
      OBVIOUS
    <3>4. g = Append(f, x)
      BY <3>2, <3>3
    <3>5. FlattenSeq(Append(f, x)) = FlattenSeq(f) \o x
      BY <3>1, FlattenAppend
    <3> QED  BY <3>4, <3>5
  <2> HIDE DEF F
  <2>4. \A i \in 1..n + 1 : PlainAt(t, i)
    BY <1>1, <1>2, <2>1
  <2> PICK c : c = F(n)
    OBVIOUS
  <2>5. c \in Seq(Char) /\ Spelled(c) /\ Ends(c, t, n)
    BY <2>2
  <2>6. LET d == c \o Ascii(t[n + 1])
        IN  d \in Seq(Char) /\ Spelled(d) /\ Ends(d, t, n + 1)
    BY <2>4, <2>5, ConvertsOneMore
  <2> QED  BY <2>3, <2>6
<1>6. Converted(t) = F(Len(t))
  BY <1>1 DEF Converted
<1> HIDE DEF N
<1>7. Len(t) \in N
  BY <1>1, <1>4, <1>5, NatSetInduction
<1> HIDE DEF F
<1> QED  BY <1>1, <1>6, <1>7 DEF N

\* A text that came in one encoding is decoded to itself.
LEMMA OneEncodingDecodes ==
  ASSUME NEW t \in Seq(Char), NEW r \in {{}, {i \in DOMAIN t : t[i] \in NonAscii}}
  PROVE  Decoded(t, r) = t
<1>1. t = [i \in DOMAIN t |-> t[i]]
  OBVIOUS
<1>2. \A i \in DOMAIN t : (IF t[i] \in NonAscii /\ i \notin r /\ r # {} THEN "junk" ELSE t[i]) = t[i]
  OBVIOUS
<1> QED  BY <1>1, <1>2 DEF Decoded

\* What is left of such a text is spelled all along, so segmentize never stops at it.
PlainInv ==
  phase \in {"segmentize", "listed", "refused"} /\ Plain(field) /\ OneEncoding =>
    Spelled(src) /\ phase # "refused"

LEMMA PlainStep == PageInv /\ PlainInv /\ [Next]_vars => PlainInv'
<1> SUFFICES ASSUME PageInv, PlainInv, [Next]_vars,
                    phase' \in {"segmentize", "listed", "refused"}, Plain(field)', OneEncoding'
             PROVE  Spelled(src)' /\ phase' # "refused"
  BY DEF PlainInv
<1>1. field \in Seq(Char) /\ src \in Seq(Char)
  BY DEF PageInv
<1>2. CASE EditField
  BY <1>2 DEF EditField
<1>3. CASE Submit
  <2>1. field' = field /\ phase' = "segmentize" /\ src' = Converted(Decoded(field, refs'))
    BY <1>3 DEF Submit
  <2>2. Plain(field)
    BY <2>1
  <2>3. refs' \in {{}, {i \in DOMAIN field : field[i] \in NonAscii}}
    BY <2>1 DEF OneEncoding
  <2>4. Decoded(field, refs') = field
    BY <1>1, <2>3, OneEncodingDecodes
  <2>5. Spelled(src')
    BY <1>1, <2>1, <2>2, <2>4, PlainIsSpelled
  <2> QED  BY <2>1, <2>5
<1>4. ASSUME field' = field, refs' = refs, phase \in {"segmentize", "listed", "refused"}
      PROVE  Spelled(src) /\ phase # "refused"
  <2>1. Plain(field) /\ OneEncoding
    BY <1>4 DEF OneEncoding
  <2> QED  BY <1>4, <2>1 DEF PlainInv
<1>5. CASE Take
  <2>1. /\ field' = field /\ refs' = refs /\ phase = "segmentize" /\ phase' = "segmentize" /\ src # <<>>
        /\ src' = Without(Len(Segments[FirstMatch(Segments, src)]))
    BY <1>5 DEF Take
  <2>2. Spelled(src)
    BY <1>4, <2>1
  <2> PICK m : m = Len(Segments[FirstMatch(Segments, src)])
    OBVIOUS
  <2>3. m < Len(src) => src[m + 1] \notin Tails
    BY <1>1, <2>1, <2>2, TakesWholeLetters
  <2>4. m \in 1..Len(src)
    <3> PICK i, seg : i = FirstMatch(Segments, src) /\ seg = Segments[i]
      OBVIOUS
    <3>1. i # 0
      BY <1>5 DEF Take
    <3>2. i \in DOMAIN Segments /\ IsPrefix(seg, src)
      BY <3>1, SegmentsTyped, FirstMatchFound
    <3>3. seg \in Segment
      BY <3>2, SegmentsTyped
    <3>4. seg \in Seq(Letter) /\ Len(seg) \in Nat \ {0}
      BY <3>3, EmptySeq DEF Segment
    <3>5. Len(seg) <= Len(src)
      BY <1>1, <3>2, <3>4, PrefixChars
    <3> QED  BY <1>1, <3>4, <3>5
  <2>5. src' = SubSeq(src, m + 1, Len(src))
    BY <2>1 DEF Without
  <2>6. Spelled(src')
    BY <1>1, <2>2, <2>3, <2>4, <2>5, RestSpelled
  <2> QED  BY <2>1, <2>6
<1>6. CASE Croak
  <2>1. /\ field' = field /\ refs' = refs /\ phase = "segmentize" /\ src # <<>>
        /\ FirstMatch(Segments, src) = 0
    BY <1>6 DEF Croak
  <2>2. Spelled(src)
    BY <1>4, <2>1
  <2> QED  BY <1>1, <2>1, <2>2, TakesWholeLetters
<1>7. CASE Finish
  BY <1>4, <1>7 DEF Finish
<1>8. CASE EditAgain
  BY <1>8 DEF EditAgain
<1>9. CASE UNCHANGED vars
  BY <1>4, <1>9 DEF vars
<1> QED  BY <1>2, <1>3, <1>5, <1>6, <1>7, <1>8, <1>9 DEF Next

\* segmentize refuses no text the diacritic keys could spell, of any length: whatever the
\* order of the list makes it take first, the rest never begins with a mark or half a letter.
THEOREM PlainTextAlwaysListed == Spec => []PlainTextIsListed
<1>1. Init => PlainInv
  BY DEF Init, PlainInv
<1>2. PlainInv /\ PageInv => PlainTextIsListed
  BY DEF PlainInv, PlainTextIsListed
<1> QED  BY <1>1, <1>2, PageInvariant, PlainStep, PTL DEF Spec
================================================================================
